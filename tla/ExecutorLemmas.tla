--------------------------- MODULE ExecutorLemmas ---------------------------
(***************************************************************************)
(* What the operators of NonceOps and Executor compute, for every bitmap   *)
(* capacity and integer width, every body and every state: the tracker     *)
(* represents a set of nonces, the loops are left folds, their             *)
(* accumulators are overlays that replay transfer by transfer, and the two *)
(* paths of execution agree.  Used by the proofs about Nonce, Ledger and   *)
(* Chain.                                                                  *)
(***************************************************************************)
EXTENDS Executor, FoldLemmas

\* A leaf that names no prover is given to these, one after the other.
USE SMT, Z3, Zenon

-----------------------------------------------------------------------------
(* The nonce tracker. *)

\* The tracker s represents the set used of accepted nonces: the types, that
\* u64::MAX is never accepted, that the base is unused and tight, and that the
\* bitmap is exactly the accepted nonces past the base.
Tracks(s, used) ==
    /\ s \in NonceStates
    /\ used \subseteq U64
    /\ \A n \in used : n < MaxU64
    /\ s.base \notin used
    /\ s.base > 0 => s.base - 1 \in used
    /\ \A d \in s.bitmap : s.base + d \in used
    /\ \A n \in used : n > s.base => n - s.base \in s.bitmap

\* The loop of consume_current_nonce stops at the first clear bit: the
\* distances below the result are set and the result itself is not.
LEMMA AdvanceFirstClear ==
    ASSUME NEW B \in SUBSET (1 .. Capacity)
    PROVE  /\ Advance(B) \in 1 .. Capacity + 1
           /\ Advance(B) \notin B
           /\ \A d \in 1 .. Capacity + 1 : d < Advance(B) => d \in B
<1> DEFINE Clear == {a \in 1 .. Capacity + 1 : a \notin B}
<1>1. Clear \in SUBSET Nat /\ Capacity + 1 \in Clear
    BY CapacityAssumption
<1>2. PICK a \in Clear : \A y \in Clear : a <= y
    BY <1>1, LeastNatural, Zenon
<1>3. /\ a \in 1 .. Capacity + 1
      /\ a \notin B
      /\ \A d \in 1 .. Capacity + 1 : d < a => d \in B
    BY <1>2, CapacityAssumption
<1> HIDE DEF Clear
<1> QED
    BY <1>3, Zenon DEF Advance

\* Consuming the base: the new base is past every bit
\* that was compacted, still fits u64, and the bits above it are kept.
LEMMA ConsumeBase ==
    ASSUME NEW s, NEW used, Tracks(s, used), s.base < MaxU64
    PROVE  /\ ConsumeCurrentNonceOK(s)
           /\ ConsumeCurrentNonce(s) \in NonceStates
           /\ ConsumeCurrentNonce(s).base > s.base
           /\ ConsumeCurrentNonce(s).base \notin used
           /\ \A n \in s.base .. ConsumeCurrentNonce(s).base - 1 :
                  n \in used \cup {s.base}
           /\ \A d \in 1 .. Capacity :
                  d \in ConsumeCurrentNonce(s).bitmap
                      <=> ConsumeCurrentNonce(s).base + d \in used
<1> DEFINE a == Advance(s.bitmap)
           next == ConsumeCurrentNonce(s)
<1>1. /\ s.base \in U64
      /\ s.bitmap \in SUBSET (1 .. Capacity)
      /\ used \subseteq U64
    BY DEF Tracks, NonceStates
<1>2. /\ a \in 1 .. Capacity + 1
      /\ a \notin s.bitmap
      /\ \A d \in 1 .. Capacity + 1 : d < a => d \in s.bitmap
    BY <1>1, AdvanceFirstClear
<1> HIDE DEF a
<1>3. next = [base   |-> s.base + a,
              bitmap |-> IF a >= Capacity
                         THEN {}
                         ELSE {d \in 1 .. Capacity : d + a \in s.bitmap}]
    BY DEF ConsumeCurrentNonce, a
<1>4. next.base = s.base + a /\ next.base \in Nat /\ next.base > s.base
    BY <1>1, <1>2, <1>3, CapacityAssumption, MaxU64Assumption DEF U64
<1>5. \A d \in 1 .. Capacity : d \in next.bitmap <=> d + a \in s.bitmap
    BY <1>1, <1>2, <1>3, CapacityAssumption
<1>6. \A d \in 1 .. Capacity : d \in s.bitmap <=> s.base + d \in used
    BY <1>1, CapacityAssumption, MaxU64Assumption DEF Tracks, U64
<1>7. \A k \in Nat : k > Capacity => s.base + k \notin used
    BY <1>1, CapacityAssumption, MaxU64Assumption DEF Tracks, U64
<1>8. \A n \in s.base .. next.base - 1 : n \in used \cup {s.base}
  <2> SUFFICES ASSUME NEW n \in s.base .. next.base - 1, n # s.base
               PROVE  n \in used
    OBVIOUS
  <2>1. n - s.base \in 1 .. Capacity + 1 /\ n - s.base < a
    BY <1>1, <1>2, <1>4, CapacityAssumption, MaxU64Assumption DEF U64
  <2>2. n - s.base \in s.bitmap
    BY <1>2, <2>1
  <2>3. s.base + (n - s.base) = n
    BY <1>1, <1>4, MaxU64Assumption DEF U64
  <2> QED
    BY <2>2, <2>3 DEF Tracks
<1>9. next.base <= MaxU64
  <2>1. next.base - 1 \in s.base .. next.base - 1
    BY <1>1, <1>4, MaxU64Assumption DEF U64
  <2>2. next.base - 1 < MaxU64
    BY <1>8, <2>1 DEF Tracks
  <2> QED
    BY <2>2, <1>4, MaxU64Assumption
<1>10. next.base \notin used
  <2>1. CASE a = Capacity + 1
    BY <2>1, <1>4, <1>7, CapacityAssumption
  <2>2. CASE a \in 1 .. Capacity
    BY <2>2, <1>2, <1>4, <1>6
  <2> QED
    BY <2>1, <2>2, <1>2, CapacityAssumption
<1>11. \A d \in 1 .. Capacity : d \in next.bitmap <=> next.base + d \in used
  <2> SUFFICES ASSUME NEW d \in 1 .. Capacity
               PROVE  d \in next.bitmap <=> next.base + d \in used
    OBVIOUS
  <2>1. next.base + d = s.base + (d + a) /\ d + a \in Nat
    BY <1>1, <1>2, <1>4, CapacityAssumption, MaxU64Assumption DEF U64
  <2>2. CASE d + a > Capacity
    BY <2>1, <2>2, <1>1, <1>5, <1>7, CapacityAssumption
  <2>3. CASE d + a \in 1 .. Capacity
    BY <2>1, <2>3, <1>5, <1>6
  <2> QED
    BY <2>1, <2>2, <2>3, <1>2, CapacityAssumption
<1>12. next \in NonceStates
    BY <1>1, <1>2, <1>3, <1>4, <1>9, CapacityAssumption, MaxU64Assumption DEF NonceStates, U64
<1>13. ConsumeCurrentNonceOK(s)
    BY <1>4, <1>9 DEF ConsumeCurrentNonceOK, a
<1> QED
    BY <1>4, <1>8, <1>10, <1>11, <1>12, <1>13

\* A tracker accepts exactly the unused nonces from the
\* base up to, and not including, u64::MAX.
LEMMA AcceptsExactlyUnused ==
    ASSUME NEW s, NEW used, Tracks(s, used), NEW n \in U64
    PROVE  CanConsume(s, n) <=> n >= s.base /\ n \notin used /\ n < MaxU64
<1>1. /\ s.base \in U64
      /\ s.bitmap \in SUBSET (1 .. Capacity)
      /\ used \subseteq U64
    BY DEF Tracks, NonceStates
<1>2. CASE n < s.base \/ ~(n < MaxU64)
    BY <1>1, <1>2, MaxU64Assumption DEF CanConsume, U64
<1>3. CASE n = s.base /\ n < MaxU64
  <2>1. ConsumeCurrentNonceOK(s)
    BY <1>3, ConsumeBase
  <2> QED
    BY <1>1, <1>3, <2>1, MaxU64Assumption DEF CanConsume, U64, Tracks
<1>4. CASE n > s.base /\ n < MaxU64
  <2>1. n \in used <=> n - s.base \in s.bitmap
    BY <1>1, <1>4, CapacityAssumption, MaxU64Assumption DEF Tracks, U64
  <2>2. n - s.base > Capacity => n - s.base \notin s.bitmap
    BY <1>1, <1>4, CapacityAssumption, MaxU64Assumption DEF U64
  <2> QED
    BY <1>1, <1>4, <2>1, <2>2, MaxU64Assumption DEF CanConsume, U64
<1> QED
    BY <1>1, <1>2, <1>3, <1>4, MaxU64Assumption DEF U64

\* After one more accepted nonce the tracker still tracks the accepted nonces.
LEMMA ConsumeKeepsTracks ==
    ASSUME NEW s, NEW used, Tracks(s, used), NEW n \in U64, CanConsume(s, n)
    PROVE  Tracks(NextNonceState(s, n), used \cup {n})
<1> DEFINE r == NextNonceState(s, n)
           all == used \cup {n}
<1>1. /\ s.base \in U64
      /\ s.bitmap \in SUBSET (1 .. Capacity)
      /\ used \subseteq U64
      /\ s = [base |-> s.base, bitmap |-> s.bitmap]
    BY DEF Tracks, NonceStates
<1>2. n >= s.base /\ n \notin used /\ n < MaxU64
    BY AcceptsExactlyUnused
<1>3. all = used \cup {n}
    OBVIOUS
<1>4. all \subseteq U64 /\ \A m \in all : m < MaxU64
    BY <1>1, <1>2, <1>3 DEF Tracks
<1>5. CASE n = s.base
  <2>1. r = ConsumeCurrentNonce(s)
    BY <1>5 DEF NextNonceState
  <2>2. /\ r \in NonceStates
        /\ r.base > s.base
        /\ r.base \notin used
        /\ \A m \in s.base .. r.base - 1 : m \in used \cup {s.base}
        /\ \A d \in 1 .. Capacity : d \in r.bitmap <=> r.base + d \in used
    BY <2>1, <1>2, <1>5, ConsumeBase
  <2>3. r.base \in U64 /\ r.bitmap \in SUBSET (1 .. Capacity)
    BY <2>2 DEF NonceStates
  <2>4. r.base \notin all /\ r.base - 1 \in all
    BY <1>1, <1>3, <1>5, <2>2, <2>3, MaxU64Assumption DEF U64
  <2>5. \A d \in r.bitmap : r.base + d \in all
    BY <1>3, <2>2, <2>3
  <2>6. ASSUME NEW m \in all, m > r.base
        PROVE  m - r.base \in r.bitmap
    <3>1. m \in used /\ m \in U64 /\ m > s.base
      BY <1>1, <1>3, <1>5, <2>2, <2>3, <2>6, MaxU64Assumption DEF U64
    <3>2. m - s.base \in 1 .. Capacity
      BY <1>1, <3>1 DEF Tracks
    <3>3. m - r.base \in 1 .. Capacity /\ r.base + (m - r.base) = m
      BY <1>1, <2>2, <2>3, <2>6, <3>1, <3>2, CapacityAssumption, MaxU64Assumption DEF U64
    <3> QED
      BY <2>2, <3>1, <3>3
  <2> QED
    BY <1>4, <2>2, <2>4, <2>5, <2>6 DEF Tracks
<1>6. CASE n - s.base > Capacity
  <2>1. r = [base |-> n + 1, bitmap |-> {}]
    BY <1>1, <1>6, CapacityAssumption, MaxU64Assumption DEF NextNonceState, U64
  <2>2. r \in NonceStates /\ r.base = n + 1 /\ r.bitmap = {}
    BY <1>2, <2>1, MaxU64Assumption DEF NonceStates, U64
  <2>3. \A m \in used : m <= s.base + Capacity
    BY <1>1, CapacityAssumption, MaxU64Assumption DEF Tracks, U64
  <2>4. \A m \in all : m <= n
    BY <1>1, <1>3, <1>6, <2>3, CapacityAssumption, MaxU64Assumption DEF U64
  <2>5. r.base \notin all /\ r.base - 1 \in all
    BY <1>3, <2>2, <2>4, MaxU64Assumption DEF U64
  <2>6. \A m \in all : ~(m > r.base)
    BY <1>4, <2>2, <2>4, MaxU64Assumption DEF U64
  <2> QED
    BY <1>4, <2>2, <2>5, <2>6 DEF Tracks
<1>7. CASE n # s.base /\ ~(n - s.base > Capacity)
  <2>1. r = [s EXCEPT !.bitmap = @ \cup {n - s.base}]
    BY <1>7 DEF NextNonceState
  <2>2. n - s.base \in 1 .. Capacity
    BY <1>1, <1>2, <1>7, CapacityAssumption, MaxU64Assumption DEF U64
  <2>3. /\ r \in NonceStates
        /\ r.base = s.base
        /\ r.bitmap = s.bitmap \cup {n - s.base}
    BY <1>1, <2>1, <2>2 DEF NonceStates
  <2>4. r.base \notin all /\ (r.base > 0 => r.base - 1 \in all)
    BY <1>3, <1>7, <2>3 DEF Tracks
  <2>5. s.base + (n - s.base) = n
    BY <1>1, MaxU64Assumption DEF U64
  <2>6. /\ \A d \in r.bitmap : r.base + d \in all
        /\ \A m \in all : m > r.base => m - r.base \in r.bitmap
    BY <1>3, <2>3, <2>5 DEF Tracks
  <2> QED
    BY <1>4, <2>3, <2>4, <2>6 DEF Tracks
<1> QED
    BY <1>5, <1>6, <1>7

\* A new account tracks the empty set.
LEMMA EmptyTracks == Tracks(EmptyNonce, {})
    BY CapacityAssumption, MaxU64Assumption DEF Tracks, EmptyNonce, NonceStates, U64

\* Whatever the tracker holds, consuming a nonce it accepts leaves a tracker.
LEMMA NextNonceType ==
    ASSUME NEW s \in NonceStates, NEW n \in U64, CanConsume(s, n)
    PROVE  NextNonceState(s, n) \in NonceStates
<1>1. /\ s.base \in Nat /\ s.base <= MaxU64 /\ n \in Nat /\ MaxU64 \in Nat /\ Capacity \in Nat
      /\ s.bitmap \in SUBSET (1 .. Capacity)
      /\ s = [base |-> s.base, bitmap |-> s.bitmap]
    BY MaxU64Assumption, CapacityAssumption DEF NonceStates, U64
<1>2. n + 1 <= MaxU64 /\ n >= s.base
    BY DEF CanConsume
<1>3. CASE n = s.base
  <2>1. s.base + Advance(s.bitmap) <= MaxU64
    BY <1>3 DEF CanConsume, ConsumeCurrentNonceOK
  <2>2. Advance(s.bitmap) \in 1 .. Capacity + 1
    BY <1>1, AdvanceFirstClear
  <2>3. s.base + Advance(s.bitmap) \in U64
    BY <1>1, <2>1, <2>2 DEF U64
  <2> QED
    BY <1>3, <2>3 DEF NextNonceState, ConsumeCurrentNonce, NonceStates
<1>4. CASE n # s.base /\ n - s.base > Capacity
  <2>1. n + 1 \in U64
    BY <1>1, <1>2 DEF U64
  <2> QED
    BY <1>4, <2>1 DEF NextNonceState, NonceStates
<1>5. CASE n # s.base /\ ~(n - s.base > Capacity)
  <2>1. n - s.base \in 1 .. Capacity
    BY <1>1, <1>2, <1>5
  <2> QED
    BY <1>1, <1>5, <2>1 DEF NextNonceState, NonceStates
<1> QED
    BY <1>3, <1>4, <1>5

-----------------------------------------------------------------------------
(* ForEach takes the elements of a sequence by their index: the last one   *)
(* is combined with the fold of those before it.                           *)

LastOf(n) == [S \in SUBSET (1 .. n) |-> Max(S)]

\* A non-empty set of indexes has a last one.
LEMMA LastIsPicked ==
    ASSUME NEW n \in Nat
    PROVE  /\ IsFiniteSet(1 .. n) /\ Picks(LastOf(n), 1 .. n)
           /\ \A k \in 1 .. n : LastOf(n)[1 .. k] = k
<1> DEFINE D == 1 .. n
           F == {S \in SUBSET D : S # {} => \E x \in S : \A y \in S : x >= y}
<1>1. IsFiniteSet(D)
    BY FS_Interval
<1>2. {} \in F
    OBVIOUS
<1>3. ASSUME NEW S \in SUBSET D, S # {}, \A x \in S : S \ {x} \in F
      PROVE  S \in F
  <2>1. PICK p \in S : TRUE
    BY <1>3, Zenon
  <2>2. CASE S = {p}
    BY <2>2
  <2>3. CASE S # {p}
    <3>1. PICK x \in S \ {p} : \A y \in S \ {p} : x >= y
      BY <1>3, <2>1, <2>3
    <3>2. x \in Int /\ p \in Int /\ \A y \in S : y \in Int
      OBVIOUS
    <3>3. CASE x >= p
      BY <3>1, <3>3
    <3>4. CASE p > x
      BY <3>1, <3>2, <3>4
    <3> QED
      BY <3>2, <3>3, <3>4
  <2> QED
    BY <2>2, <2>3
<1> HIDE DEF F, D
<1>4. \A S \in SUBSET D : S \in F
    BY <1>1, <1>2, <1>3, FiniteInduction, Zenon
<1>5. Picks(LastOf(n), D)
    BY <1>4, Zenon DEF Picks, LastOf, Max, F, D
<1>6. ASSUME NEW k \in 1 .. n
      PROVE  LastOf(n)[1 .. k] = k
  <2>1. 1 .. k \in SUBSET (1 .. n) /\ k \in 1 .. k /\ \A y \in 1 .. k : k >= y
    OBVIOUS
  <2>2. \A x \in 1 .. k : (\A y \in 1 .. k : x >= y) => x = k
    OBVIOUS
  <2> QED
    BY <2>1, <2>2 DEF LastOf, Max
<1> QED
    BY <1>1, <1>5, <1>6 DEF D

\* acc lists the accumulators of a left fold over s; fold solves the recursion
\* ForEach is defined by, and acc ends with the value of every solution.
LeftFold(acc, fold, A, base, step, s, n) ==
    /\ acc \in [0 .. n -> A] /\ acc[0] = base
    /\ \A k \in 0 .. n - 1 : acc[k + 1] = step[acc[k]][s[k + 1]]
    /\ fold \in [SUBSET (1 .. n) -> A]
    /\ \A S \in SUBSET (1 .. n) :
           fold[S] = IF S = {} THEN base ELSE step[fold[S \ {Max(S)}]][s[Max(S)]]
    /\ \A S \in SUBSET (1 .. n) : S # {} => Max(S) \in S
    /\ \A other :
           /\ other[{}] = base
           /\ \A S \in SUBSET (1 .. n) : S # {} /\ other[S \ {Max(S)}] \in A =>
                  other[S] = step[other[S \ {Max(S)}]][s[Max(S)]]
           => other[1 .. n] = acc[n]

\* A left fold over a sequence runs through its accumulators in order.
LEMMA LeftFoldExists ==
    ASSUME NEW A, NEW E, NEW step \in [A -> [E -> A]], NEW base \in A,
           NEW n \in Nat, NEW s \in [1 .. n -> E]
    PROVE  \E acc, fold : LeftFold(acc, fold, A, base, step, s, n)
<1> DEFINE D == 1 .. n
           pick == LastOf(n)
<1>1. IsFiniteSet(D) /\ Picks(pick, D) /\ s \in [D -> E]
    BY LastIsPicked
<1>2. PICK it \in [SUBSET D -> A] : IsFold(it, SUBSET D, base, step, s, pick)
  <2> HIDE DEF D, pick
  <2> QED
    BY <1>1, FoldExists, Zenon
<1> DEFINE acc == [k \in 0 .. n |-> it[1 .. k]]
<1>3. \A S \in SUBSET D : pick[S] = Max(S)
    BY DEF LastOf
<1>4. \A S \in SUBSET D : S # {} => Max(S) \in S
    BY <1>1, <1>3, Zenon DEF Picks
<1>5. \A S \in SUBSET D : it[S] = IF S = {} THEN base ELSE step[it[S \ {Max(S)}]][s[Max(S)]]
    BY <1>2, <1>3, Zenon DEF IsFold
<1>6. acc \in [0 .. n -> A]
  <2>1. \A k \in 0 .. n : 1 .. k \in SUBSET D
    OBVIOUS
  <2> QED
    BY <2>1
<1>7. acc[0] = base
  <2>1. 1 .. 0 = {} /\ {} \in SUBSET D /\ 0 \in 0 .. n
    OBVIOUS
  <2> QED
    BY <1>5, <2>1, Zenon
<1>8. ASSUME NEW k \in 0 .. n - 1
      PROVE  acc[k + 1] = step[acc[k]][s[k + 1]]
  <2>1. /\ 1 .. (k + 1) \in SUBSET D /\ 1 .. (k + 1) # {} /\ k + 1 \in D
        /\ (1 .. (k + 1)) \ {k + 1} = 1 .. k /\ k \in 0 .. n /\ k + 1 \in 0 .. n
    <3>1. k \in Nat /\ k + 1 <= n /\ k \in 0 .. n /\ k + 1 \in 0 .. n /\ k + 1 \in D
      OBVIOUS
    <3>2. \A x \in Int : x \in 1 .. k <=> x \in 1 .. (k + 1) /\ x # k + 1
      BY <3>1
    <3>3. (1 .. (k + 1)) \ {k + 1} = 1 .. k
      <4>1. \A x : x \in 1 .. k \/ x \in 1 .. (k + 1) => x \in Int
        BY <3>1
      <4>2. \A x : x \in (1 .. (k + 1)) \ {k + 1} <=> x \in 1 .. k
        BY <3>2, <4>1, Zenon
      <4> QED
        BY <4>2, Zenon
    <3>4. 1 .. (k + 1) \in SUBSET D
      BY <3>1
    <3>5. 1 \in 1 .. (k + 1)
      BY <3>1
    <3> QED
      BY <3>1, <3>3, <3>4, <3>5, Zenon
  <2>2. Max(1 .. (k + 1)) = k + 1
    BY <1>3, <2>1, LastIsPicked, Zenon
  <2> QED
    BY <1>5, <2>1, <2>2, Zenon
<1>9. ASSUME NEW other, other[{}] = base,
             \A S \in SUBSET D : S # {} /\ other[S \ {Max(S)}] \in A =>
                 other[S] = step[other[S \ {Max(S)}]][s[Max(S)]]
      PROVE  other[D] = acc[n]
  <2> DEFINE F == {S \in SUBSET D : other[S] = it[S]}
  <2>1. {} \in F
    BY <1>5, <1>9, Zenon
  <2>2. ASSUME NEW S \in SUBSET D, S # {}, \A x \in S : S \ {x} \in F
        PROVE  S \in F
    <3>1. Max(S) \in S
      BY <1>4, <2>2
    <3>2. other[S \ {Max(S)}] = it[S \ {Max(S)}] /\ it[S \ {Max(S)}] \in A
      BY <2>2, <3>1, Zenon
    <3> QED
      BY <1>5, <1>9, <2>2, <3>2, Zenon
  <2> HIDE DEF F, D
  <2>3. \A S \in SUBSET D : S \in F
    BY <1>1, <2>1, <2>2, FiniteInduction, Zenon
  <2>4. other[D] = it[D]
    BY <2>3 DEF F
  <2>5. n \in 0 .. n
    OBVIOUS
  <2> QED
    BY <2>4, <2>5 DEF D
<1> HIDE DEF acc, pick
<1>10. LeftFold(acc, it, A, base, step, s, n)
    BY <1>4, <1>5, <1>6, <1>7, <1>8, <1>9, Zenon DEF LeftFold
<1> QED
    BY <1>10

-----------------------------------------------------------------------------
(* Account maps. *)

TouchedBy(t) == {t.sender, t.recipient}

\* The account a key without a record stands for is well formed.
LEMMA DefaultAccountType == DefaultAccount \in AccountStates
    BY EmptyTracks, DefaultBalanceAssumption DEF DefaultAccount, AccountStates, Tracks

\* Reading an account map always yields an account.
LEMMA AccountInType ==
    ASSUME NEW m, IsAccountMap(m), NEW k
    PROVE  AccountIn(m, k) \in AccountStates
    BY DefaultAccountType DEF AccountIn, IsAccountMap

\* Override is a map whose reads come from the second map first.
LEMMA OverrideReads ==
    ASSUME NEW m, NEW w, IsAccountMap(m), IsAccountMap(w)
    PROVE  /\ IsAccountMap(Override(m, w))
           /\ DOMAIN Override(m, w) = DOMAIN m \cup DOMAIN w
           /\ \A k : AccountIn(Override(m, w), k)
                         = IF k \in DOMAIN w THEN w[k] ELSE AccountIn(m, k)
<1>1. DOMAIN Override(m, w) = DOMAIN m \cup DOMAIN w
    BY DEF Override
<1>2. \A k \in DOMAIN m \cup DOMAIN w :
          Override(m, w)[k] = IF k \in DOMAIN w THEN w[k] ELSE m[k]
    BY DEF Override
<1>3. \A k \in DOMAIN m \cup DOMAIN w : Override(m, w)[k] \in AccountStates
    BY <1>2 DEF IsAccountMap
<1>4. IsAccountMap(Override(m, w))
    BY <1>1, <1>3 DEF IsAccountMap, Override
<1> QED
    BY <1>1, <1>2, <1>4 DEF AccountIn

\* The empty map is an account map and hides nothing.
LEMMA EmptyMapReads ==
    /\ IsAccountMap(EmptyMap)
    /\ DOMAIN EmptyMap = {}
    BY DEF EmptyMap, IsAccountMap

\* Overriding with nothing changes no read.
LEMMA OverrideEmpty ==
    ASSUME NEW m, IsAccountMap(m)
    PROVE  \A k : AccountIn(Override(m, EmptyMap), k) = AccountIn(m, k)
    BY EmptyMapReads DEF AccountIn, Override

-----------------------------------------------------------------------------
(* One transfer                                                            *)

AccountMaps == UNION {[S -> AccountStates] : S \in SUBSET Accounts}

\* The account maps form a set.
LEMMA MapsAreMaps == \A m : m \in AccountMaps <=> IsAccountMap(m)
<1>1. ASSUME NEW m, m \in AccountMaps
      PROVE  IsAccountMap(m)
    BY <1>1 DEF AccountMaps, IsAccountMap
<1>2. ASSUME NEW m, IsAccountMap(m)
      PROVE  m \in AccountMaps
    BY <1>2 DEF AccountMaps, IsAccountMap
<1> QED
    BY <1>1, <1>2

OverlayOf(state, w) == [base |-> state, writes |-> w]

\* The accounts apply_transfer writes.
WrittenBy(o, t) ==
    IF t.sender = t.recipient
    THEN [k \in {t.sender} |->
             [Get(o, t.sender) EXCEPT !.nonce = NextNonceState(@, t.nonce)]]
    ELSE [k \in {t.sender, t.recipient} |->
             IF k = t.sender THEN Spent(Get(o, t.sender), t) ELSE Received(Get(o, k), t)]

\* apply_transfer inserts them into the overlay.
LEMMA ApplyWrites ==
    ASSUME NEW state, NEW w, NEW t
    PROVE  ApplyTransfer(OverlayOf(state, w), t).writes
               = Override(w, WrittenBy(OverlayOf(state, w), t))
    BY DEF ApplyTransfer, OverlayOf, WrittenBy

\* What an accepted transfer writes is a map of the two accounts it touches.
LEMMA ApplyTyped ==
    ASSUME NEW state, NEW w, IsAccountMap(state), IsAccountMap(w), NEW t \in Transactions,
           ApplyTransferOK(OverlayOf(state, w), t)
    PROVE  /\ IsAccountMap(WrittenBy(OverlayOf(state, w), t))
           /\ DOMAIN WrittenBy(OverlayOf(state, w), t) = TouchedBy(t)
           /\ IsAccountMap(ApplyTransfer(OverlayOf(state, w), t).writes)
           /\ t.sender \in Accounts
<1> DEFINE o == OverlayOf(state, w)
           W == WrittenBy(o, t)
           s == t.sender
           r == t.recipient
<1>1. o.base = state /\ o.writes = w
    BY DEF OverlayOf
<1>2. Known(o) \subseteq Accounts /\ \A k \in Known(o) : Get(o, k) \in AccountStates
    BY <1>1 DEF Known, Get, IsAccountMap
<1>3. /\ s \in Accounts /\ Get(o, s) \in AccountStates /\ CanSpend(Get(o, s), t)
      /\ s # r => r \in Accounts /\ Get(o, r) \in AccountStates /\ CanReceive(Get(o, r), t)
    BY <1>2 DEF ApplyTransferOK
<1>4. t.nonce \in U64 /\ t.value \in Nat /\ MaxU64 \in Nat
    BY MaxU64Assumption DEF Transactions, U64
<1>5. NextNonceState(Get(o, s).nonce, t.nonce) \in NonceStates
    BY <1>3, <1>4, NextNonceType DEF CanSpend, AccountStates
<1>6. Get(o, s).balance - t.value \in U64
    BY <1>3, <1>4 DEF CanSpend, AccountStates, U64
<1>7. Spent(Get(o, s), t) \in AccountStates
    BY <1>5, <1>6 DEF Spent, AccountStates
<1>8. [Get(o, s) EXCEPT !.nonce = NextNonceState(@, t.nonce)] \in AccountStates
    BY <1>3, <1>5 DEF AccountStates
<1>9. s # r => Received(Get(o, r), t) \in AccountStates
  <2>1. s # r => Get(o, r).balance + t.value \in U64
    BY <1>3, <1>4 DEF CanReceive, AccountStates, U64
  <2> QED
    BY <1>3, <2>1 DEF Received, AccountStates
<1>10. DOMAIN W = TouchedBy(t)
    BY DEF WrittenBy, TouchedBy
<1>11. IsAccountMap(W)
  <2>1. CASE s = r
    BY <1>3, <1>8, <2>1 DEF WrittenBy, IsAccountMap
  <2>2. CASE s # r
    BY <1>3, <1>7, <1>9, <2>2 DEF WrittenBy, IsAccountMap
  <2> QED
    BY <2>1, <2>2
<1>12. IsAccountMap(ApplyTransfer(o, t).writes)
  <2>1. ApplyTransfer(o, t).writes = Override(w, W)
    BY ApplyWrites
  <2> HIDE DEF W
  <2>2. IsAccountMap(Override(w, W))
    BY <1>11, OverrideReads, Zenon
  <2> QED
    BY <2>1, <2>2
<1> QED
    BY <1>3, <1>10, <1>11, <1>12

-----------------------------------------------------------------------------
(* The loop of execute                                                     *)

\* ws[k] is what the overlay holds after the first k transfers, all accepted.
Runs(state, transfers, ws, n) ==
    /\ ws[0] = EmptyMap
    /\ \A k \in 0 .. n - 1 :
           /\ ApplyTransferOK(OverlayOf(state, ws[k]), transfers[k + 1])
           /\ ws[k + 1] = ApplyTransfer(OverlayOf(state, ws[k]), transfers[k + 1]).writes

\* One iteration of execute, on an accumulator.
ExecuteStep(state, acc, t) ==
    IF acc.ok /\ ApplyTransferOK([base |-> state, writes |-> acc.changeset], t)
    THEN [ok |-> TRUE,
          changeset |-> ApplyTransfer([base |-> state, writes |-> acc.changeset], t).writes]
    ELSE Failed

Done(w) == [ok |-> TRUE, changeset |-> w]

Outcomes == [ok : BOOLEAN, changeset : AccountMaps]

\* execute runs through accumulators: one step per transfer, from the empty overlay.
LEMMA ExecuteSteps ==
    ASSUME NEW state, IsAccountMap(state), NEW transfers \in Seq(Transactions)
    PROVE  \E acc :
             /\ acc[0] = Done(EmptyMap)
             /\ \A k \in 0 .. Len(transfers) - 1 :
                    acc[k + 1] = ExecuteStep(state, acc[k], transfers[k + 1])
             /\ Execute(state, transfers) = acc[Len(transfers)]
             /\ Execute(state, transfers) \in Outcomes
<1> DEFINE n == Len(transfers)
           D == 1 .. n
           A == Outcomes
           base == Done(EmptyMap)
           step == [acc \in A |-> [t \in Transactions |-> ExecuteStep(state, acc, t)]]
           Rec(g) == g = [S \in SUBSET D |->
                            IF S = {} THEN base
                            ELSE ExecuteStep(state, g[S \ {Max(S)}], transfers[Max(S)])]
           sol == CHOOSE g : Rec(g)
<1>1. n \in Nat /\ transfers \in [D -> Transactions] /\ DOMAIN transfers = D
    OBVIOUS
<1>2. EmptyMap \in AccountMaps /\ base \in A /\ Failed \in A
    BY EmptyMapReads, MapsAreMaps DEF Failed, Done, Outcomes
<1>3. ASSUME NEW acc \in A, NEW t \in Transactions
      PROVE  ExecuteStep(state, acc, t) \in A
  <2> DEFINE o == OverlayOf(state, acc.changeset)
  <2>1. IsAccountMap(acc.changeset)
    BY MapsAreMaps DEF Outcomes
  <2>2. ApplyTransferOK(o, t) => ApplyTransfer(o, t).writes \in AccountMaps
    BY <2>1, ApplyTyped, MapsAreMaps
  <2>3. ExecuteStep(state, acc, t)
            = IF acc.ok /\ ApplyTransferOK(o, t) THEN Done(ApplyTransfer(o, t).writes) ELSE Failed
    BY DEF ExecuteStep, OverlayOf, Done
  <2> HIDE DEF o
  <2> QED
    BY <1>2, <2>2, <2>3 DEF Done, Outcomes
<1>4. step \in [A -> [Transactions -> A]]
    BY <1>3
<1>5. Execute(state, transfers) = sol[D]
    BY <1>1 DEF Execute, ForEach, MapThenFoldSet, ExecuteStep, Done
<1>6. \A acc \in A, t \in Transactions : step[acc][t] = ExecuteStep(state, acc, t)
    OBVIOUS
<1>7. PICK acc, fold : LeftFold(acc, fold, A, base, step, transfers, n)
  <2> HIDE DEF n, A, base, step
  <2> QED
    BY <1>1, <1>2, <1>4, LeftFoldExists, Zenon DEF D
<1> HIDE DEF base, step, A
<1>8. /\ acc \in [0 .. n -> A] /\ acc[0] = base
      /\ \A k \in 0 .. n - 1 : acc[k + 1] = step[acc[k]][transfers[k + 1]]
      /\ fold \in [SUBSET D -> A]
      /\ \A S \in SUBSET D :
             fold[S] = IF S = {} THEN base ELSE step[fold[S \ {Max(S)}]][transfers[Max(S)]]
      /\ \A S \in SUBSET D : S # {} => Max(S) \in S
      /\ \A other :
             /\ other[{}] = base
             /\ \A S \in SUBSET D : S # {} /\ other[S \ {Max(S)}] \in A =>
                    other[S] = step[other[S \ {Max(S)}]][transfers[Max(S)]]
             => other[D] = acc[n]
    BY <1>7, Zenon DEF LeftFold
<1>9. \A S \in SUBSET D : S # {} => transfers[Max(S)] \in Transactions
    BY <1>1, <1>8, Zenon
<1>10. Rec(fold)
  <2>1. \A S \in SUBSET D : S # {} => fold[S \ {Max(S)}] \in A
    BY <1>8, Zenon
  <2>2. \A S \in SUBSET D : fold[S] = IF S = {} THEN base
            ELSE ExecuteStep(state, fold[S \ {Max(S)}], transfers[Max(S)])
    BY <1>6, <1>8, <1>9, <2>1, Zenon
  <2> QED
    BY <1>8, <2>2, Zenon
<1>11. Rec(sol)
  <2> HIDE DEF Rec
  <2> QED
    BY <1>10, Zenon
<1> HIDE DEF sol
<1>12. /\ sol[{}] = base
       /\ \A S \in SUBSET D : S # {} =>
              sol[S] = ExecuteStep(state, sol[S \ {Max(S)}], transfers[Max(S)])
    BY <1>11, Zenon
<1>13. sol[D] = acc[n]
  <2>1. \A S \in SUBSET D : S # {} /\ sol[S \ {Max(S)}] \in A =>
            sol[S] = step[sol[S \ {Max(S)}]][transfers[Max(S)]]
    BY <1>6, <1>9, <1>12, Zenon
  <2> QED
    BY <1>8, <1>12, <2>1, Zenon
<1>14. \A k \in 0 .. n - 1 : acc[k + 1] = ExecuteStep(state, acc[k], transfers[k + 1])
  <2>1. \A k \in 0 .. n - 1 : k \in 0 .. n /\ k + 1 \in D
    BY <1>1
  <2> QED
    BY <1>1, <1>6, <1>8, <2>1, Zenon
<1>15. acc[n] \in A
  <2>1. n \in 0 .. n
    BY <1>1
  <2> QED
    BY <1>8, <2>1
<1> QED
    BY <1>5, <1>8, <1>13, <1>14, <1>15 DEF base, A

\* A body whose every transfer is accepted in its turn executes to the last overlay.
LEMMA RunsExecute ==
    ASSUME NEW state, IsAccountMap(state), NEW transfers \in Seq(Transactions),
           NEW ws, Runs(state, transfers, ws, Len(transfers))
    PROVE  Execute(state, transfers) = Done(ws[Len(transfers)])
<1> DEFINE n == Len(transfers)
<1>1. n \in Nat
    OBVIOUS
<1>2. PICK acc :
        /\ acc[0] = Done(EmptyMap)
        /\ \A k \in 0 .. n - 1 : acc[k + 1] = ExecuteStep(state, acc[k], transfers[k + 1])
        /\ Execute(state, transfers) = acc[n]
    BY ExecuteSteps
<1> HIDE DEF n
<1> DEFINE T == {k \in Nat : k <= n => acc[k] = Done(ws[k])}
<1>3. 0 \in T
    BY <1>2 DEF Runs
<1>4. ASSUME NEW k \in Nat, k \in T
      PROVE  k + 1 \in T
  <2> SUFFICES ASSUME k + 1 <= n
               PROVE  acc[k + 1] = Done(ws[k + 1])
    OBVIOUS
  <2>1. k \in 0 .. n - 1 /\ acc[k] = Done(ws[k])
    BY <1>1, <1>4
  <2>2. /\ ApplyTransferOK(OverlayOf(state, ws[k]), transfers[k + 1])
        /\ ws[k + 1] = ApplyTransfer(OverlayOf(state, ws[k]), transfers[k + 1]).writes
    BY <2>1 DEF Runs, n
  <2>3. acc[k].ok = TRUE /\ acc[k].changeset = ws[k]
    BY <2>1 DEF Done
  <2> QED
    BY <1>2, <2>1, <2>2, <2>3 DEF ExecuteStep, OverlayOf, Done
<1> HIDE DEF T
<1>5. n \in T
    BY <1>1, <1>3, <1>4, NaturalInduction
<1> QED
    BY <1>1, <1>2, <1>5 DEF T, n

\* One transfer refused in its turn refuses the body.
LEMMA RefusalFails ==
    ASSUME NEW state, IsAccountMap(state), NEW transfers \in Seq(Transactions),
           NEW ws, NEW m \in 0 .. Len(transfers) - 1, Runs(state, transfers, ws, m),
           ~ApplyTransferOK(OverlayOf(state, ws[m]), transfers[m + 1])
    PROVE  Execute(state, transfers) = Failed
<1> DEFINE n == Len(transfers)
<1>1. n \in Nat /\ m \in Nat /\ m + 1 <= n
    OBVIOUS
<1>2. PICK acc :
        /\ acc[0] = Done(EmptyMap)
        /\ \A k \in 0 .. n - 1 : acc[k + 1] = ExecuteStep(state, acc[k], transfers[k + 1])
        /\ Execute(state, transfers) = acc[n]
    BY ExecuteSteps
<1> HIDE DEF n
<1> DEFINE T == {k \in Nat : k <= n => acc[k] = IF k <= m THEN Done(ws[k]) ELSE Failed}
<1>3. 0 \in T
    BY <1>1, <1>2 DEF Runs
<1>4. ASSUME NEW k \in Nat, k \in T
      PROVE  k + 1 \in T
  <2> SUFFICES ASSUME k + 1 <= n
               PROVE  acc[k + 1] = IF k + 1 <= m THEN Done(ws[k + 1]) ELSE Failed
    OBVIOUS
  <2>1. /\ k \in 0 .. n - 1 /\ acc[k] = IF k <= m THEN Done(ws[k]) ELSE Failed
        /\ acc[k + 1] = ExecuteStep(state, acc[k], transfers[k + 1])
    BY <1>1, <1>2, <1>4
  <2>2. CASE k + 1 <= m
    <3>1. k \in 0 .. m - 1 /\ k <= m
      BY <1>1, <2>2
    <3>2. /\ ApplyTransferOK(OverlayOf(state, ws[k]), transfers[k + 1])
          /\ ws[k + 1] = ApplyTransfer(OverlayOf(state, ws[k]), transfers[k + 1]).writes
      BY <3>1 DEF Runs
    <3>3. acc[k].ok = TRUE /\ acc[k].changeset = ws[k]
      BY <2>1, <3>1 DEF Done
    <3> QED
      BY <2>1, <2>2, <3>2, <3>3, Zenon DEF ExecuteStep, OverlayOf, Done
  <2>3. CASE k = m
    <3>1. acc[k].changeset = ws[m] /\ ~(k + 1 <= m)
      BY <1>1, <2>1, <2>3 DEF Done
    <3> QED
      BY <2>1, <2>3, <3>1 DEF ExecuteStep, OverlayOf
  <2>4. CASE k > m
    <3>1. acc[k] = Failed /\ ~(k + 1 <= m)
      BY <1>1, <2>1, <2>4
    <3>2. acc[k].ok = FALSE
      BY <3>1 DEF Failed
    <3> QED
      BY <2>1, <3>1, <3>2 DEF ExecuteStep
  <2> QED
    BY <1>1, <2>2, <2>3, <2>4
<1> HIDE DEF T
<1>5. n \in T
    BY <1>1, <1>3, <1>4, NaturalInduction
<1> QED
    BY <1>1, <1>2, <1>5 DEF T, n

\* The run does not depend on which other accounts were loaded.
LEMMA RunsElsewhere ==
    ASSUME NEW state, NEW other, NEW transfers, NEW n \in Nat, NEW ws,
           Runs(state, transfers, ws, n),
           \A k \in 0 .. n - 1 : TouchedBy(transfers[k + 1]) \subseteq DOMAIN other,
           \A k \in DOMAIN state \cap DOMAIN other : state[k] = other[k]
    PROVE  Runs(other, transfers, ws, n)
<1> SUFFICES ASSUME NEW k \in 0 .. n - 1
             PROVE  /\ ApplyTransferOK(OverlayOf(other, ws[k]), transfers[k + 1])
                    /\ ws[k + 1]
                           = ApplyTransfer(OverlayOf(other, ws[k]), transfers[k + 1]).writes
    BY DEF Runs
<1> DEFINE t == transfers[k + 1]
           o == OverlayOf(state, ws[k])
           p == OverlayOf(other, ws[k])
<1>1. /\ ApplyTransferOK(o, t) /\ ws[k + 1] = ApplyTransfer(o, t).writes
      /\ t.sender \in DOMAIN other /\ t.recipient \in DOMAIN other
    BY DEF Runs, TouchedBy
<1>2. \A x \in DOMAIN other : x \in Known(o) => x \in Known(p) /\ Get(p, x) = Get(o, x)
    BY DEF Known, Get, OverlayOf
<1> HIDE DEF t
<1>3. ApplyTransferOK(p, t)
  <2> HIDE DEF o, p
  <2> QED
    BY <1>1, <1>2 DEF ApplyTransferOK
<1>4. WrittenBy(p, t) = WrittenBy(o, t)
  <2>1. /\ Get(p, t.sender) = Get(o, t.sender)
        /\ t.sender # t.recipient => Get(p, t.recipient) = Get(o, t.recipient)
    <3> HIDE DEF o, p
    <3> QED
      BY <1>1, <1>2 DEF ApplyTransferOK
  <2> HIDE DEF o, p
  <2> QED
    BY <2>1 DEF WrittenBy
<1>5. ApplyTransfer(p, t).writes = ApplyTransfer(o, t).writes
    BY <1>4, ApplyWrites
<1> QED
    BY <1>1, <1>3, <1>5 DEF t

-----------------------------------------------------------------------------
(* The unique path                                                         *)

\* On a body whose keys are pairwise distinct, execute_unique refuses what execute
\* refuses and writes the same accounts.
LEMMA UniqueAgrees ==
    ASSUME NEW state, IsAccountMap(state), NEW b \in Seq(Transactions), AllDistinct(b),
           Keys(Range(b)) \subseteq DOMAIN state
    PROVE  ExecuteUnique(state, b) = Execute(state, b)
<1> DEFINE n == Len(b)
           Val(k) == LET t == CHOOSE t \in Range(b) : k \in {t.sender, t.recipient}
                     IN  IF k = t.sender THEN Spent(state[k], t) ELSE Received(state[k], t)
           First(j) == {b[i] : i \in 1 .. j}
           ws == [j \in 0 .. n |-> [k \in Keys(First(j)) |-> Val(k)]]
           Good(t) == CanSpend(state[t.sender], t) /\ CanReceive(state[t.recipient], t)
<1>1. n \in Nat /\ DOMAIN b = 1 .. n /\ Range(b) = {b[i] : i \in 1 .. n}
    BY DEF Range
<1>2. ASSUME NEW i \in 1 .. n
      PROVE  /\ b[i] \in Range(b) /\ b[i].sender # b[i].recipient
             /\ b[i].sender \in DOMAIN state /\ b[i].recipient \in DOMAIN state
    BY <1>1 DEF AllDistinct, Keys
<1>3. ASSUME NEW i \in 1 .. n, NEW j \in 1 .. n, i # j
      PROVE  TouchedBy(b[i]) \cap TouchedBy(b[j]) = {}
    BY <1>1, <1>3 DEF AllDistinct, TouchedBy
<1>4. ASSUME NEW i \in 1 .. n
      PROVE  /\ Val(b[i].sender) = Spent(state[b[i].sender], b[i])
             /\ Val(b[i].recipient) = Received(state[b[i].recipient], b[i])
  <2>1. ASSUME NEW k \in TouchedBy(b[i])
        PROVE  (CHOOSE t \in Range(b) : k \in {t.sender, t.recipient}) = b[i]
    <3>1. \A t \in Range(b) : k \in {t.sender, t.recipient} => t = b[i]
      BY <1>1, <1>3, Zenon DEF TouchedBy
    <3>2. b[i] \in Range(b) /\ k \in {b[i].sender, b[i].recipient}
      BY <1>2 DEF TouchedBy
    <3> QED
      BY <3>1, <3>2
  <2> QED
    BY <1>2, <2>1, Zenon DEF TouchedBy
<1> HIDE DEF Val
<1>5. ASSUME NEW k \in 0 .. n - 1
      PROVE  /\ k \in 0 .. n /\ k + 1 \in 0 .. n /\ k + 1 \in 1 .. n
             /\ Keys(First(k + 1)) = Keys(First(k)) \cup TouchedBy(b[k + 1])
             /\ Keys(First(k)) \cap TouchedBy(b[k + 1]) = {}
             /\ DOMAIN ws[k] = Keys(First(k)) /\ DOMAIN ws[k + 1] = Keys(First(k + 1))
  <2>1. k \in 0 .. n /\ k + 1 \in 0 .. n /\ k + 1 \in 1 .. n
    BY <1>1
  <2>2. First(k + 1) = First(k) \cup {b[k + 1]}
    <3>1. \A i \in Int : i \in 1 .. k + 1 <=> i \in 1 .. k \/ i = k + 1
      BY <1>1
    <3> QED
      BY <3>1
  <2>3. Keys(First(k + 1)) = Keys(First(k)) \cup TouchedBy(b[k + 1])
    BY <2>2 DEF Keys, TouchedBy
  <2>4. Keys(First(k)) \cap TouchedBy(b[k + 1]) = {}
    <3>1. \A i \in 1 .. k : i \in 1 .. n /\ i # k + 1
      BY <1>1
    <3>2. \A i \in 1 .. k : TouchedBy(b[i]) \cap TouchedBy(b[k + 1]) = {}
      BY <1>3, <2>1, <3>1, Zenon
    <3>3. \A x \in Keys(First(k)) : \E i \in 1 .. k : x \in TouchedBy(b[i])
      BY DEF Keys, TouchedBy
    <3> QED
      BY <3>2, <3>3
  <2> QED
    BY <2>1, <2>3, <2>4
<1>6. ws[0] = EmptyMap
  <2>1. Keys(First(0)) = {} /\ 0 \in 0 .. n
    BY <1>1 DEF Keys
  <2> QED
    BY <2>1 DEF EmptyMap
<1>7. ASSUME NEW k \in 0 .. n - 1
      PROVE  /\ ApplyTransferOK(OverlayOf(state, ws[k]), b[k + 1]) <=> Good(b[k + 1])
             /\ ws[k + 1] = ApplyTransfer(OverlayOf(state, ws[k]), b[k + 1]).writes
  <2> DEFINE t == b[k + 1]
             o == OverlayOf(state, ws[k])
             w == ws[k]
  <2>1. /\ t.sender \in DOMAIN state /\ t.recipient \in DOMAIN state /\ t.sender # t.recipient
        /\ t.sender \notin DOMAIN w /\ t.recipient \notin DOMAIN w
    BY <1>2, <1>5, Zenon DEF TouchedBy
  <2>2. /\ o.base = state /\ o.writes = w
    BY DEF OverlayOf
  <2>3. /\ t.sender \in Known(o) /\ t.recipient \in Known(o)
        /\ Get(o, t.sender) = state[t.sender] /\ Get(o, t.recipient) = state[t.recipient]
    <3> HIDE DEF t, o, w
    <3> QED
      BY <2>1, <2>2 DEF Known, Get
  <2>4. ApplyTransferOK(o, t) <=> Good(t)
    <3> HIDE DEF t, o, w
    <3> QED
      BY <2>1, <2>3 DEF ApplyTransferOK
  <2>5. WrittenBy(o, t) = [x \in TouchedBy(t) |-> Val(x)]
    <3>1. Val(t.sender) = Spent(state[t.sender], t) /\ Val(t.recipient) = Received(state[t.recipient], t)
      BY <1>4, <1>5
    <3> HIDE DEF t, o, w
    <3> QED
      BY <2>1, <2>3, <3>1 DEF WrittenBy, TouchedBy
  <2>6. ws[k + 1] = Override(w, [x \in TouchedBy(t) |-> Val(x)])
    <3>1. ws[k] = [x \in Keys(First(k)) |-> Val(x)]
          /\ ws[k + 1] = [x \in Keys(First(k)) \cup TouchedBy(t) |-> Val(x)]
      BY <1>5, Zenon
    <3> HIDE DEF t, ws, First
    <3> QED
      BY <3>1 DEF Override, w
  <2>7. ApplyTransfer(o, t).writes = Override(w, WrittenBy(o, t))
    BY ApplyWrites
  <2> HIDE DEF w
  <2> QED
    BY <2>4, <2>5, <2>6, <2>7
<1> HIDE DEF ws
<1>8. CASE \A t \in Range(b) : Good(t)
  <2>1. Runs(state, b, ws, n)
    BY <1>2, <1>5, <1>6, <1>7, <1>8 DEF Runs
  <2>2. Execute(state, b) = Done(ws[n])
    BY <2>1, RunsExecute
  <2>3. ws[n] = [k \in Keys(Range(b)) |-> Val(k)]
    BY <1>1 DEF ws
  <2>4. ExecuteUnique(state, b) = Done([k \in Keys(Range(b)) |-> Val(k)])
    BY <1>8 DEF ExecuteUnique, Val, Done
  <2> QED
    BY <2>2, <2>3, <2>4
<1>9. CASE ~\A t \in Range(b) : Good(t)
  <2> DEFINE Bad == {k \in Nat : k + 1 \in 1 .. n /\ ~Good(b[k + 1])}
  <2>1. Bad # {}
    <3>1. PICK i \in 1 .. n : ~Good(b[i])
      BY <1>1, <1>9
    <3>2. i - 1 \in Nat /\ (i - 1) + 1 = i
      BY <1>1
    <3>3. i - 1 \in Bad
      BY <3>1, <3>2
    <3> QED
      BY <3>3, Zenon
  <2>2. PICK m \in Bad : \A x \in Bad : m <= x
    <3>1. Bad \in SUBSET Nat
      OBVIOUS
    <3> HIDE DEF Bad
    <3> QED
      BY <2>1, <3>1, LeastNatural, Zenon
  <2>3. m \in 0 .. n - 1 /\ ~Good(b[m + 1])
    BY <1>1, <2>2
  <2>4. \A k \in 0 .. m - 1 : k \in 0 .. n - 1 /\ Good(b[k + 1])
    <3>1. \A k \in 0 .. m - 1 : k \in Nat /\ k + 1 \in 1 .. n /\ ~(m <= k) /\ k \in 0 .. n - 1
      BY <1>1, <2>3
    <3> QED
      BY <2>2, <3>1
  <2>5. Runs(state, b, ws, m)
    BY <1>6, <1>7, <2>4, Zenon DEF Runs
  <2>6. ~ApplyTransferOK(OverlayOf(state, ws[m]), b[m + 1])
    BY <1>7, <2>3
  <2>7. Execute(state, b) = Failed
    BY <2>3, <2>5, <2>6, RefusalFails
  <2>8. ExecuteUnique(state, b) = Failed
    BY <1>9 DEF ExecuteUnique
  <2> QED
    BY <2>7, <2>8
<1> QED
    BY <1>8, <1>9

\* The accounts of prepared transfers are loaded as an account map.
LEMMA LoadStateReads ==
    ASSUME NEW db, IsAccountMap(db), NEW b \in Seq(Transactions),
           \A t \in Range(b) : Prepared(t)
    PROVE  /\ IsAccountMap(LoadState(db, b))
           /\ DOMAIN LoadState(db, b) = Keys(Range(b))
           /\ \A k \in Keys(Range(b)) : LoadState(db, b)[k] = AccountIn(db, k)
<1>1. \A t \in Range(b) : t \in Transactions
    BY DEF Range
<1>2. Keys(Range(b)) \subseteq Accounts
    BY <1>1 DEF Keys, Prepared, Transactions
<1> QED
    BY <1>2, AccountInType DEF LoadState, LoadAccounts, IsAccountMap

\* On every body the unique path may be chosen for, it does what execute does.
LEMMA PathsAgreeAlways ==
    ASSUME NEW db, IsAccountMap(db), NEW b \in Seq(Transactions), AllDistinct(b),
           \A t \in Range(b) : Prepared(t)
    PROVE  ExecuteUnique(LoadState(db, b), b) = Execute(LoadState(db, b), b)
<1> DEFINE state == LoadState(db, b)
<1>1. IsAccountMap(state) /\ Keys(Range(b)) \subseteq DOMAIN state
    BY LoadStateReads
<1> HIDE DEF state
<1>2. ExecuteUnique(state, b) = Execute(state, b)
    BY <1>1, UniqueAgrees
<1> QED
    BY <1>2 DEF state

\* A body that ran on accounts read from the database, whichever else were read
\* with them, is accepted by every verifier with the same changeset.
LEMMA BodyReplays ==
    ASSUME NEW db, IsAccountMap(db), NEW b \in Seq(Transactions),
           \A t \in Range(b) : Prepared(t),
           NEW state, \A k \in DOMAIN state : state[k] = AccountIn(db, k),
           NEW ws, Runs(state, b, ws, Len(b))
    PROVE  ExecuteBody(db, b) = Done(ws[Len(b)])
<1> DEFINE other == LoadState(db, b)
           n == Len(b)
<1>1. /\ IsAccountMap(other) /\ DOMAIN other = Keys(Range(b))
      /\ \A k \in Keys(Range(b)) : other[k] = AccountIn(db, k)
    BY LoadStateReads
<1>2. n \in Nat /\ DOMAIN b = 1 .. n
    OBVIOUS
<1> HIDE DEF other
<1>3. \A k \in 0 .. n - 1 : TouchedBy(b[k + 1]) \subseteq DOMAIN other
  <2>1. \A k \in 0 .. n - 1 : k + 1 \in DOMAIN b
    BY <1>2
  <2> QED
    BY <1>1, <2>1 DEF Keys, Range, TouchedBy
<1>4. \A k \in DOMAIN state \cap DOMAIN other : state[k] = other[k]
    BY <1>1
<1>5. Runs(other, b, ws, n)
  <2> HIDE DEF n
  <2>1. Runs(state, b, ws, n)
    BY DEF n
  <2> QED
    BY <1>2, <1>3, <1>4, <2>1, RunsElsewhere
<1>6. Execute(other, b) = Done(ws[n])
    BY <1>1, <1>5, RunsExecute
<1>7. AllDistinct(b) => ExecuteUnique(other, b) = Execute(other, b)
    BY PathsAgreeAlways DEF other
<1> QED
    BY <1>6, <1>7 DEF ExecuteBody, other

-----------------------------------------------------------------------------
(* The loop of propose_prepared                                            *)

\* The body v ran from the empty overlay and left the writes w.
RanTo(state, v, w) == \E ws : Runs(state, v, ws, Len(v)) /\ ws[Len(v)] = w

\* Nothing has run yet.
LEMMA RanNothing == \A state : RanTo(state, <<>>, EmptyMap)
<1> SUFFICES ASSUME NEW state
             PROVE  RanTo(state, <<>>, EmptyMap)
    OBVIOUS
<1> DEFINE ws == [j \in {0} |-> EmptyMap]
<1>1. ws[0] = EmptyMap /\ Len(<<>>) = 0 /\ 0 .. 0 - 1 = {}
    OBVIOUS
<1>2. Runs(state, <<>>, ws, Len(<<>>))
    BY <1>1 DEF Runs
<1> QED
    BY <1>1, <1>2 DEF RanTo

\* A transfer that is accepted next extends the run.
LEMMA RanOneMore ==
    ASSUME NEW state, NEW v \in Seq(Transactions), NEW w, RanTo(state, v, w),
           NEW t \in Transactions, ApplyTransferOK(OverlayOf(state, w), t)
    PROVE  RanTo(state, Append(v, t), ApplyTransfer(OverlayOf(state, w), t).writes)
<1> DEFINE n == Len(v)
           new == ApplyTransfer(OverlayOf(state, w), t).writes
           u == Append(v, t)
<1>1. PICK ws : Runs(state, v, ws, n) /\ ws[n] = w
    BY DEF RanTo
<1>2. /\ n \in Nat /\ Len(u) = n + 1 /\ u[n + 1] = t
      /\ \A i \in 1 .. n : u[i] = v[i]
    OBVIOUS
<1> DEFINE more == [j \in 0 .. n + 1 |-> IF j = n + 1 THEN new ELSE ws[j]]
<1> HIDE DEF n, new, u
<1>3. more[n + 1] = new /\ \A j \in 0 .. n : more[j] = ws[j]
    BY <1>2
<1>4. more[0] = EmptyMap
    BY <1>1, <1>2, <1>3 DEF Runs
<1> HIDE DEF more
<1>5. ASSUME NEW k \in 0 .. (n + 1) - 1
      PROVE  /\ ApplyTransferOK(OverlayOf(state, more[k]), u[k + 1])
             /\ more[k + 1] = ApplyTransfer(OverlayOf(state, more[k]), u[k + 1]).writes
  <2>1. CASE k = n
    <3>1. more[k] = w /\ u[k + 1] = t /\ more[k + 1] = new
      BY <1>1, <1>2, <1>3, <2>1
    <3> QED
      BY <3>1 DEF new
  <2>2. CASE k # n
    <3>1. k \in 0 .. n - 1 /\ k + 1 \in 1 .. n /\ k \in 0 .. n /\ k + 1 \in 0 .. n
      BY <1>2, <2>2
    <3>2. more[k] = ws[k] /\ more[k + 1] = ws[k + 1] /\ u[k + 1] = v[k + 1]
      BY <1>2, <1>3, <3>1
    <3> QED
      BY <1>1, <3>1, <3>2 DEF Runs
  <2> QED
    BY <2>1, <2>2
<1>6. Runs(state, u, more, n + 1)
    BY <1>4, <1>5 DEF Runs
<1>7. RanTo(state, u, new)
    BY <1>2, <1>3, <1>6 DEF RanTo
<1> QED
    BY <1>7 DEF u, new

\* Writing over a map what already contains the map is the same as writing it.
LEMMA OverrideTwice ==
    ASSUME NEW m, NEW w
    PROVE  Override(m, Override(m, w)) = Override(m, w)
    BY DEF Override

PreparedIn(P) == {t \in P : Prepared(t)}

\* One iteration of prepare_proposal.
PrepareOne(acc, t) == IF Prepared(t) THEN Append(acc, t) ELSE acc

\* prepare_proposal keeps transactions of its input, the prepared ones, and adds none.
LEMMA CandidatesArePrepared ==
    ASSUME NEW P, NEW b \in Seq(P)
    PROVE  Candidates(b) \in Seq(PreparedIn(P)) /\ Len(Candidates(b)) <= Len(b)
<1> DEFINE n == Len(b)
           D == 1 .. n
           A == Seq(PreparedIn(P))
           base == <<>>
           step == [acc \in A |-> [t \in P |-> PrepareOne(acc, t)]]
           Rec(g) == g = [S \in SUBSET D |->
                            IF S = {} THEN base ELSE PrepareOne(g[S \ {Max(S)}], b[Max(S)])]
           sol == CHOOSE g : Rec(g)
<1>1. n \in Nat /\ b \in [D -> P] /\ DOMAIN b = D
    OBVIOUS
<1>2. base \in A
    OBVIOUS
<1>3. ASSUME NEW acc \in A, NEW t \in P
      PROVE  PrepareOne(acc, t) \in A /\ Len(PrepareOne(acc, t)) <= Len(acc) + 1
  <2>1. Prepared(t) => t \in PreparedIn(P)
    BY DEF PreparedIn
  <2>2. t \in PreparedIn(P) => Append(acc, t) \in A /\ Len(Append(acc, t)) = Len(acc) + 1
    OBVIOUS
  <2>3. Len(acc) \in Nat
    OBVIOUS
  <2> QED
    BY <2>1, <2>2, <2>3 DEF PrepareOne
<1>4. step \in [A -> [P -> A]]
    BY <1>3
<1>5. Candidates(b) = sol[D]
    BY <1>1 DEF Candidates, ForEach, MapThenFoldSet, PrepareOne
<1>6. \A acc \in A, t \in P : step[acc][t] = PrepareOne(acc, t)
    OBVIOUS
<1>7. PICK acc, fold : LeftFold(acc, fold, A, base, step, b, n)
  <2> HIDE DEF n, A, base, step
  <2> QED
    BY <1>1, <1>2, <1>4, LeftFoldExists, Zenon DEF D
<1>8. base = <<>> /\ Len(base) = 0
    OBVIOUS
<1> HIDE DEF base, step, A
<1>9. /\ acc \in [0 .. n -> A] /\ acc[0] = base
      /\ \A k \in 0 .. n - 1 : acc[k + 1] = step[acc[k]][b[k + 1]]
      /\ fold \in [SUBSET D -> A]
      /\ \A S \in SUBSET D :
             fold[S] = IF S = {} THEN base ELSE step[fold[S \ {Max(S)}]][b[Max(S)]]
      /\ \A S \in SUBSET D : S # {} => Max(S) \in S
      /\ \A other :
             /\ other[{}] = base
             /\ \A S \in SUBSET D : S # {} /\ other[S \ {Max(S)}] \in A =>
                    other[S] = step[other[S \ {Max(S)}]][b[Max(S)]]
             => other[D] = acc[n]
    BY <1>7, Zenon DEF LeftFold
<1>10. \A S \in SUBSET D : S # {} => b[Max(S)] \in P
    BY <1>1, <1>9, Zenon
<1>11. Rec(fold)
  <2>1. \A S \in SUBSET D : S # {} => fold[S \ {Max(S)}] \in A
    BY <1>9, Zenon
  <2>2. \A S \in SUBSET D : fold[S] = IF S = {} THEN base
            ELSE PrepareOne(fold[S \ {Max(S)}], b[Max(S)])
    BY <1>6, <1>9, <1>10, <2>1, Zenon
  <2> QED
    BY <1>9, <2>2, Zenon
<1>12. Rec(sol)
  <2> HIDE DEF Rec
  <2> QED
    BY <1>11, Zenon
<1> HIDE DEF sol
<1>13. /\ sol[{}] = base
       /\ \A S \in SUBSET D : S # {} => sol[S] = PrepareOne(sol[S \ {Max(S)}], b[Max(S)])
    BY <1>12, Zenon
<1>14. sol[D] = acc[n]
  <2>1. \A S \in SUBSET D : S # {} /\ sol[S \ {Max(S)}] \in A =>
            sol[S] = step[sol[S \ {Max(S)}]][b[Max(S)]]
    BY <1>6, <1>10, <1>13, Zenon
  <2> QED
    BY <1>9, <1>13, <2>1, Zenon
<1> DEFINE T == {k \in Nat : k <= n => Len(acc[k]) <= k}
<1>15. 0 \in T
    BY <1>8, <1>9
<1>16. ASSUME NEW k \in Nat, k \in T
       PROVE  k + 1 \in T
  <2> SUFFICES ASSUME k + 1 <= n
               PROVE  Len(acc[k + 1]) <= k + 1
    OBVIOUS
  <2>1. k \in 0 .. n - 1 /\ k \in 0 .. n /\ k + 1 \in D /\ Len(acc[k]) <= k
    BY <1>1, <1>16
  <2>2. acc[k + 1] = PrepareOne(acc[k], b[k + 1]) /\ acc[k] \in A /\ b[k + 1] \in P
    BY <1>1, <1>6, <1>9, <2>1
  <2>3. Len(acc[k + 1]) <= Len(acc[k]) + 1
    BY <1>3, <2>2
  <2>4. acc[k + 1] \in A
    BY <1>3, <2>2
  <2>5. Len(acc[k]) \in Nat /\ Len(acc[k + 1]) \in Nat
    BY <2>2, <2>4 DEF A
  <2> QED
    BY <2>1, <2>3, <2>5
<1> HIDE DEF T
<1>17. n \in T
    BY <1>1, <1>15, <1>16, NaturalInduction
<1>18. acc[n] \in A /\ Len(acc[n]) <= n
  <2>1. n \in 0 .. n /\ n <= n
    BY <1>1
  <2> QED
    BY <1>9, <1>17, <2>1 DEF T
<1> QED
    BY <1>5, <1>14, <1>18 DEF A

\* One iteration of propose_prepared.
ProposeOne(acc, t) ==
    IF ApplyTransferOK(acc.overlay, t)
    THEN [overlay |-> ApplyTransfer(acc.overlay, t), valid |-> Append(acc.valid, t)]
    ELSE acc

Accumulator(state, w, v) == [overlay |-> OverlayOf(state, w), valid |-> v]

\* The accumulators of propose_prepared: what was taken so far ran to the writes.
Proposals(state, P) ==
    {acc \in {Accumulator(state, w, v) : w \in AccountMaps, v \in Seq(PreparedIn(P))} :
        RanTo(state, acc.valid, acc.overlay.writes)}

\* What it takes to be one of them.
LEMMA IsProposal ==
    ASSUME NEW state, NEW P, NEW w \in AccountMaps, NEW v \in Seq(PreparedIn(P)),
           RanTo(state, v, w)
    PROVE  Accumulator(state, w, v) \in Proposals(state, P)
<1> DEFINE acc == Accumulator(state, w, v)
<1>1. acc.valid = v /\ acc.overlay.writes = w
    BY DEF Accumulator, OverlayOf
<1>2. acc \in {Accumulator(state, x, u) : x \in AccountMaps, u \in Seq(PreparedIn(P))}
    OBVIOUS
<1>3. RanTo(state, acc.valid, acc.overlay.writes)
    BY <1>1
<1> HIDE DEF acc
<1>4. acc \in Proposals(state, P)
    BY <1>2, <1>3 DEF Proposals
<1> QED
    BY <1>4 DEF acc

\* Each iteration keeps that, and takes at most one transaction.
LEMMA ProposeOneRuns ==
    ASSUME NEW P \in SUBSET Transactions, NEW state, IsAccountMap(state),
           NEW acc \in Proposals(state, P), NEW t \in PreparedIn(P)
    PROVE  /\ ProposeOne(acc, t) \in Proposals(state, P)
           /\ Len(ProposeOne(acc, t).valid) <= Len(acc.valid) + 1
<1>1. PICK w \in AccountMaps, v \in Seq(PreparedIn(P)) :
        acc = Accumulator(state, w, v) /\ RanTo(state, acc.valid, acc.overlay.writes)
    BY DEF Proposals
<1>2. acc.overlay = OverlayOf(state, w) /\ acc.valid = v /\ acc.overlay.writes = w
    BY <1>1 DEF Accumulator, OverlayOf
<1>3. /\ Append(v, t) \in Seq(PreparedIn(P)) /\ Len(Append(v, t)) = Len(v) + 1
      /\ Len(v) \in Nat
    OBVIOUS
<1>4. t \in Transactions /\ v \in Seq(Transactions) /\ IsAccountMap(w)
    BY MapsAreMaps DEF PreparedIn
<1>5. CASE ApplyTransferOK(acc.overlay, t)
  <2> DEFINE o == OverlayOf(state, w)
             new == ApplyTransfer(o, t).writes
  <2>1. ApplyTransferOK(o, t)
    BY <1>2, <1>5
  <2>2. RanTo(state, Append(v, t), new)
    BY <1>1, <1>2, <1>4, <2>1, RanOneMore
  <2>3. new \in AccountMaps
    BY <1>4, <2>1, ApplyTyped, MapsAreMaps
  <2>4. ApplyTransfer(o, t) = OverlayOf(state, new)
    BY DEF ApplyTransfer, OverlayOf
  <2> HIDE DEF o, new
  <2>5. ProposeOne(acc, t) = Accumulator(state, new, Append(v, t))
    BY <1>2, <1>5, <2>4 DEF ProposeOne, Accumulator, o
  <2>6. /\ Accumulator(state, new, Append(v, t)).valid = Append(v, t)
        /\ Accumulator(state, new, Append(v, t)).overlay.writes = new
    BY DEF Accumulator, OverlayOf
  <2> DEFINE u == Append(v, t)
  <2>7. u \in Seq(PreparedIn(P)) /\ RanTo(state, u, new) /\ Len(u) = Len(v) + 1
    BY <1>3, <2>2
  <2> HIDE DEF u
  <2>8. Accumulator(state, new, u) \in Proposals(state, P)
    BY <2>3, <2>7, IsProposal
  <2> QED
    BY <1>2, <1>3, <2>5, <2>6, <2>7, <2>8 DEF u
<1>6. CASE ~ApplyTransferOK(acc.overlay, t)
    BY <1>2, <1>3, <1>6 DEF ProposeOne
<1> QED
    BY <1>5, <1>6

\* So the whole loop ends with a proposal that ran, no longer than its candidates.
LEMMA ProposePreparedRuns ==
    ASSUME NEW P \in SUBSET Transactions, NEW state, IsAccountMap(state),
           NEW b \in Seq(PreparedIn(P))
    PROVE  /\ ProposePrepared(state, b) \in Proposals(state, P)
           /\ Len(ProposePrepared(state, b).valid) <= Len(b)
<1> DEFINE n == Len(b)
           D == 1 .. n
           E == PreparedIn(P)
           A == Proposals(state, P)
           base == Accumulator(state, EmptyMap, <<>>)
           step == [acc \in A |-> [t \in E |-> ProposeOne(acc, t)]]
           Rec(g) == g = [S \in SUBSET D |->
                            IF S = {} THEN base ELSE ProposeOne(g[S \ {Max(S)}], b[Max(S)])]
           sol == CHOOSE g : Rec(g)
<1>1. n \in Nat /\ b \in [D -> E] /\ DOMAIN b = D
    OBVIOUS
<1>2. base \in A /\ base.valid = <<>>
  <2>1. base.valid = <<>> /\ base.overlay.writes = EmptyMap
    BY DEF Accumulator, OverlayOf
  <2>2. EmptyMap \in AccountMaps /\ <<>> \in Seq(PreparedIn(P))
    BY EmptyMapReads, MapsAreMaps
  <2> QED
    BY <2>1, <2>2, RanNothing, IsProposal, Zenon
<1>3. \A acc \in A, t \in E : ProposeOne(acc, t) \in A
                              /\ Len(ProposeOne(acc, t).valid) <= Len(acc.valid) + 1
    BY ProposeOneRuns
<1>4. step \in [A -> [E -> A]]
    BY <1>3
<1>5. ProposePrepared(state, b) = sol[D]
    BY <1>1 DEF ProposePrepared, ForEach, MapThenFoldSet, ProposeOne, Accumulator, OverlayOf
<1>6. \A acc \in A, t \in E : step[acc][t] = ProposeOne(acc, t)
    OBVIOUS
<1>7. PICK acc, fold : LeftFold(acc, fold, A, base, step, b, n)
  <2> HIDE DEF n, A, base, step, E
  <2> QED
    BY <1>1, <1>2, <1>4, LeftFoldExists, Zenon DEF D
<1> HIDE DEF base, step, A, E
<1>8. /\ acc \in [0 .. n -> A] /\ acc[0] = base
      /\ \A k \in 0 .. n - 1 : acc[k + 1] = step[acc[k]][b[k + 1]]
      /\ fold \in [SUBSET D -> A]
      /\ \A S \in SUBSET D :
             fold[S] = IF S = {} THEN base ELSE step[fold[S \ {Max(S)}]][b[Max(S)]]
      /\ \A S \in SUBSET D : S # {} => Max(S) \in S
      /\ \A other :
             /\ other[{}] = base
             /\ \A S \in SUBSET D : S # {} /\ other[S \ {Max(S)}] \in A =>
                    other[S] = step[other[S \ {Max(S)}]][b[Max(S)]]
             => other[D] = acc[n]
    BY <1>7, Zenon DEF LeftFold
<1>9. \A S \in SUBSET D : S # {} => b[Max(S)] \in E
    BY <1>1, <1>8, Zenon
<1>10. Rec(fold)
  <2>1. \A S \in SUBSET D : S # {} => fold[S \ {Max(S)}] \in A
    BY <1>8, Zenon
  <2>2. \A S \in SUBSET D : fold[S] = IF S = {} THEN base
            ELSE ProposeOne(fold[S \ {Max(S)}], b[Max(S)])
    BY <1>6, <1>8, <1>9, <2>1, Zenon
  <2> QED
    BY <1>8, <2>2, Zenon
<1>11. Rec(sol)
  <2> HIDE DEF Rec
  <2> QED
    BY <1>10, Zenon
<1> HIDE DEF sol
<1>12. /\ sol[{}] = base
       /\ \A S \in SUBSET D : S # {} => sol[S] = ProposeOne(sol[S \ {Max(S)}], b[Max(S)])
    BY <1>11, Zenon
<1>13. sol[D] = acc[n]
  <2>1. \A S \in SUBSET D : S # {} /\ sol[S \ {Max(S)}] \in A =>
            sol[S] = step[sol[S \ {Max(S)}]][b[Max(S)]]
    BY <1>6, <1>9, <1>12, Zenon
  <2> QED
    BY <1>8, <1>12, <2>1, Zenon
<1> DEFINE T == {k \in Nat : k <= n => Len(acc[k].valid) <= k}
<1>14. 0 \in T
    BY <1>2, <1>8
<1>15. ASSUME NEW x \in A
       PROVE  Len(x.valid) \in Nat
  <2>1. PICK w \in AccountMaps, v \in Seq(PreparedIn(P)) : x = Accumulator(state, w, v)
    BY DEF A, Proposals
  <2>2. x.valid = v
    BY <2>1 DEF Accumulator
  <2> QED
    BY <2>2
<1>16. ASSUME NEW k \in Nat, k \in T
       PROVE  k + 1 \in T
  <2> SUFFICES ASSUME k + 1 <= n
               PROVE  Len(acc[k + 1].valid) <= k + 1
    OBVIOUS
  <2>1. /\ k \in 0 .. n - 1 /\ k \in 0 .. n /\ k + 1 \in 0 .. n /\ k + 1 \in D
        /\ Len(acc[k].valid) <= k
    BY <1>1, <1>16
  <2>2. acc[k + 1] = ProposeOne(acc[k], b[k + 1]) /\ acc[k] \in A /\ b[k + 1] \in E
    BY <1>1, <1>6, <1>8, <2>1
  <2>3. Len(acc[k + 1].valid) <= Len(acc[k].valid) + 1 /\ acc[k + 1] \in A
    BY <1>3, <2>2
  <2>4. Len(acc[k].valid) \in Nat /\ Len(acc[k + 1].valid) \in Nat
    BY <1>15, <2>2, <2>3
  <2> QED
    BY <2>1, <2>3, <2>4
<1> HIDE DEF T
<1>17. n \in T
    BY <1>1, <1>14, <1>16, NaturalInduction
<1>18. acc[n] \in A /\ Len(acc[n].valid) <= n
  <2>1. n \in 0 .. n /\ n <= n
    BY <1>1
  <2> QED
    BY <1>8, <1>17, <2>1 DEF T
<1> QED
    BY <1>5, <1>13, <1>18 DEF A

\* What propose_child builds from any input, execute_body accepts on the same parent
\* with the same changeset; its transactions come from the input.
LEMMA ProposeReplays ==
    ASSUME NEW db, IsAccountMap(db), NEW P \in SUBSET Transactions, NEW b \in Seq(P)
    PROVE  /\ ExecuteBody(db, Propose(db, b).valid) = Done(Propose(db, b).changeset)
           /\ Propose(db, b).valid \in Seq(P)
           /\ Len(Propose(db, b).valid) <= Len(b)
           /\ IsAccountMap(Propose(db, b).changeset)
<1> DEFINE candidates == Candidates(b)
           state == LoadState(db, candidates)
           output == ProposePrepared(state, candidates)
<1>1. candidates \in Seq(PreparedIn(P)) /\ Len(candidates) <= Len(b)
    BY CandidatesArePrepared
<1>2. Propose(db, b) = [valid |-> output.valid, changeset |-> output.overlay.writes]
    BY DEF Propose
<1> HIDE DEF candidates
<1>3. candidates \in Seq(Transactions) /\ \A t \in Range(candidates) : Prepared(t)
  <2>1. \A t \in Range(candidates) : t \in PreparedIn(P)
    BY <1>1 DEF Range
  <2> QED
    BY <1>1, <2>1 DEF PreparedIn
<1>4. /\ IsAccountMap(state) /\ DOMAIN state = Keys(Range(candidates))
      /\ \A k \in DOMAIN state : state[k] = AccountIn(db, k)
    BY <1>3, LoadStateReads
<1> HIDE DEF state
<1>5. output \in Proposals(state, P) /\ Len(output.valid) <= Len(candidates)
    BY <1>1, <1>4, ProposePreparedRuns
<1> HIDE DEF output
<1>6. PICK w \in AccountMaps, v \in Seq(PreparedIn(P)) :
        /\ output = Accumulator(state, w, v)
        /\ RanTo(state, output.valid, output.overlay.writes)
    BY <1>5 DEF Proposals
<1>7. output.valid = v /\ output.overlay.writes = w /\ IsAccountMap(w) /\ RanTo(state, v, w)
    BY <1>6, MapsAreMaps DEF Accumulator, OverlayOf
<1>8. Propose(db, b).valid = v /\ Propose(db, b).changeset = w
    BY <1>2, <1>7
<1>9. v \in Seq(P) /\ v \in Seq(Transactions) /\ \A t \in Range(v) : Prepared(t)
  <2>1. \A t \in Range(v) : t \in PreparedIn(P)
    BY DEF Range
  <2> QED
    BY <2>1 DEF PreparedIn
<1>10. PICK ws : Runs(state, v, ws, Len(v)) /\ ws[Len(v)] = w
    BY <1>7 DEF RanTo
<1>11. ExecuteBody(db, v) = Done(w)
    BY <1>4, <1>9, <1>10, BodyReplays
<1>12. Len(v) <= Len(b)
  <2>1. Len(v) \in Nat /\ Len(candidates) \in Nat /\ Len(b) \in Nat
    BY <1>1
  <2> QED
    BY <1>1, <1>5, <1>7, <2>1
<1> QED
    BY <1>7, <1>8, <1>9, <1>11, <1>12

\* execute_body returns None or a changeset of accounts.
LEMMA ExecuteBodyTyped ==
    ASSUME NEW db, IsAccountMap(db), NEW b \in Seq(Transactions)
    PROVE  ExecuteBody(db, b) \in Outcomes
<1>1. CASE \E t \in Range(b) : ~Prepared(t)
    BY <1>1, EmptyMapReads, MapsAreMaps DEF ExecuteBody, Failed, Outcomes
<1>2. CASE \A t \in Range(b) : Prepared(t)
  <2> DEFINE state == LoadState(db, b)
  <2>1. IsAccountMap(state)
    BY <1>2, LoadStateReads
  <2>2. AllDistinct(b) => ExecuteUnique(state, b) = Execute(state, b)
    BY <1>2, PathsAgreeAlways
  <2>3. ExecuteBody(db, b) = Execute(state, b)
    BY <1>2, <2>2 DEF ExecuteBody
  <2> HIDE DEF state
  <2>4. Execute(state, b) \in Outcomes
    BY <2>1, ExecuteSteps
  <2> QED
    BY <2>3, <2>4
<1> QED
    BY <1>1, <1>2

=============================================================================
