---------------------------- MODULE LedgerProofs ----------------------------
(***************************************************************************)
(* Proofs about Ledger, for every set of accounts, every pool of signed    *)
(* transactions, every integer width and every bitmap capacity.            *)
(***************************************************************************)
EXTENDS Ledger, Nonce, ExecutorLemmas

\* A leaf that names no prover is given to these, one after the other.
USE SMT, Z3, Zenon

\* The nonces of k's transactions in a history.
UsedIn(h, k) == {h[i].nonce : i \in {i \in DOMAIN h : h[i].sender = k}}

Once(h) ==
    \A i, j \in DOMAIN h : i # j => h[i].sender # h[j].sender \/ h[i].nonce # h[j].nonce

\* The inductive invariant: every nonce tracker, as stored and as the block under
\* construction leaves it, represents the nonces its account used; what was
\* loaded is what the database holds; and on the unique path no transaction
\* still to be executed touches an account that was written.
LedgerInv ==
    /\ TypeOK
    /\ \A k \in Accounts : Tracks(AccountIn(db, k).nonce, UsedIn(txs, k))
    /\ \A k \in Accounts : Tracks(Current(k).nonce, UsedIn(txs \o valid, k))
    /\ \A k \in DOMAIN loaded : loaded[k] = AccountIn(db, k)
    /\ DOMAIN writes \subseteq DOMAIN loaded
    /\ mode = "idle" => writes = EmptyMap /\ valid = <<>> /\ ~unique
    /\ mode = "propose" => ~unique
    /\ unique => /\ AllDistinct(queue)
                 /\ \A i \in DOMAIN queue : TouchedBy(queue[i]) \cap DOMAIN writes = {}
    /\ mode = "verify" => \A i \in DOMAIN queue : Prepared(queue[i])
    /\ Once(txs)
    /\ Once(txs \o valid)

-----------------------------------------------------------------------------
\* An executed transfer leaves both accounts well formed, and the sender's
\* tracker with exactly one more nonce, one it had not used.
LEMMA TransferTypes ==
    ASSUME NEW t \in Transactions, NEW acct \in AccountStates, NEW used,
           Tracks(acct.nonce, used), CanSpend(acct, t)
    PROVE  /\ t.nonce \notin used
           /\ Tracks(NextNonceState(acct.nonce, t.nonce), used \cup {t.nonce})
           /\ [acct EXCEPT !.nonce = NextNonceState(@, t.nonce)] \in AccountStates
           /\ Spent(acct, t) \in AccountStates
<1>1. t.nonce \in U64 /\ t.value \in U64 \ {0}
    BY DEF Transactions
<1>2. CanConsume(acct.nonce, t.nonce) /\ acct.balance >= t.value
    BY DEF CanSpend
<1>3. t.nonce \notin used
    BY <1>1, <1>2, AcceptsExactlyUnused
<1>4. Tracks(NextNonceState(acct.nonce, t.nonce), used \cup {t.nonce})
    BY <1>1, <1>2, ConsumeKeepsTracks
<1>5. NextNonceState(acct.nonce, t.nonce) \in NonceStates
    BY <1>4 DEF Tracks
<1>6. acct.balance - t.value \in U64
    BY <1>1, <1>2, MaxU64Assumption DEF AccountStates, U64
<1> QED
    BY <1>3, <1>4, <1>5, <1>6 DEF Spent, AccountStates

-----------------------------------------------------------------------------
\* Appending a transaction to a history adds its nonce to its sender only.
LEMMA UsedInAppend ==
    ASSUME NEW h \in Seq(Pool), NEW t \in Pool, NEW k
    PROVE  UsedIn(Append(h, t), k)
               = IF t.sender = k THEN UsedIn(h, k) \cup {t.nonce} ELSE UsedIn(h, k)
<1> DEFINE g == Append(h, t)
<1>1. /\ DOMAIN h = 1 .. Len(h) /\ Len(h) \in Nat
      /\ DOMAIN g = 1 .. Len(h) + 1
      /\ g[Len(h) + 1] = t
      /\ \A i \in 1 .. Len(h) : g[i] = h[i]
    OBVIOUS
<1>2. DOMAIN g = DOMAIN h \cup {Len(h) + 1} /\ Len(h) + 1 \notin DOMAIN h
    BY <1>1
<1> HIDE DEF g
<1>3. ASSUME NEW n
      PROVE  n \in UsedIn(g, k) <=> n \in UsedIn(h, k) \/ (t.sender = k /\ n = t.nonce)
    BY <1>1, <1>2 DEF UsedIn
<1> QED
    BY <1>3, Zenon DEF g

\* A history stays free of repetition when the sender had not used the nonce.
LEMMA OnceAppend ==
    ASSUME NEW h \in Seq(Pool), NEW t \in Pool,
           Once(h), t.nonce \notin UsedIn(h, t.sender)
    PROVE  Once(Append(h, t))
<1> DEFINE g == Append(h, t)
<1>1. /\ DOMAIN h = 1 .. Len(h) /\ Len(h) \in Nat
      /\ DOMAIN g = 1 .. Len(h) + 1
      /\ g[Len(h) + 1] = t
      /\ \A i \in 1 .. Len(h) : g[i] = h[i]
    OBVIOUS
<1>2. DOMAIN g = DOMAIN h \cup {Len(h) + 1}
    BY <1>1
<1>3. \A i \in DOMAIN h : h[i].sender # t.sender \/ h[i].nonce # t.nonce
    BY DEF UsedIn
<1> HIDE DEF g
<1> QED
    BY <1>1, <1>2, <1>3 DEF Once, g

\* Executing one more transfer appends it to the whole history.
LEMMA HistoryAppend ==
    ASSUME NEW h \in Seq(Pool), NEW v \in Seq(Pool), NEW t \in Pool
    PROVE  h \o Append(v, t) = Append(h \o v, t) /\ h \o v \in Seq(Pool)
<1>1. /\ Append(v, t) = v \o <<t>> /\ <<t>> \in Seq(Pool)
      /\ h \o v \in Seq(Pool)
    OBVIOUS
<1>2. Append(h \o v, t) = (h \o v) \o <<t>>
    BY <1>1
<1>3. (h \o v) \o <<t>> = h \o (v \o <<t>>)
    BY <1>1
<1> QED
    BY <1>1, <1>2, <1>3

-----------------------------------------------------------------------------
\* The accounts a loop reads for a transaction are the accounts as the block
\* under construction leaves them, on the overlay path and on the unique path.
LEMMA OverlayIsCurrent ==
    ASSUME LedgerInv, NEW k \in Known(Overlay),
           unique => k \notin DOMAIN writes
    PROVE  k \in DOMAIN loaded /\ Get(Overlay, k) = Current(k) /\ k \in Accounts
<1>1. IsAccountMap(db) /\ IsAccountMap(writes) /\ IsAccountMap(loaded)
    BY DEF LedgerInv, TypeOK
<1>2. Overlay.base = loaded /\ Overlay.writes = IF unique THEN EmptyMap ELSE writes
    BY DEF Overlay
<1>3. k \in DOMAIN loaded
    BY <1>2, EmptyMapReads DEF Known, LedgerInv
<1>4. Current(k) = IF k \in DOMAIN writes THEN writes[k] ELSE AccountIn(db, k)
    BY <1>1, OverrideReads, Zenon DEF Current
<1>5. Get(Overlay, k) = IF k \in DOMAIN writes THEN writes[k] ELSE AccountIn(db, k)
    BY <1>2, <1>3, EmptyMapReads DEF Get, LedgerInv
<1> QED
    BY <1>1, <1>3, <1>4, <1>5 DEF IsAccountMap

\* What executing a transfer does to every account.
LEMMA TakeEffect ==
    ASSUME LedgerInv, NEW t \in Pool, ApplyTransferOK(Overlay, t), Take(t),
           unique => TouchedBy(t) \cap DOMAIN writes = {}
    PROVE  /\ t.sender \in Accounts /\ t.recipient \in Accounts
           /\ IsAccountMap(writes')
           /\ DOMAIN writes' = DOMAIN writes \cup TouchedBy(t)
           /\ TouchedBy(t) \subseteq DOMAIN loaded
           /\ \A k \in Accounts : Current(k) \in AccountStates
           /\ CanSpend(Current(t.sender), t)
           /\ \A k \in Accounts \ TouchedBy(t) : Current(k)' = Current(k)
           /\ t.sender = t.recipient =>
                  Current(t.sender)'
                      = [Current(t.sender) EXCEPT !.nonce = NextNonceState(@, t.nonce)]
           /\ t.sender # t.recipient =>
                  /\ CanReceive(Current(t.recipient), t)
                  /\ Current(t.sender)' = Spent(Current(t.sender), t)
                  /\ Current(t.recipient)' = Received(Current(t.recipient), t)
<1> DEFINE s == t.sender
           r == t.recipient
           w == IF s = r
                THEN [k \in {s} |-> [Current(s) EXCEPT !.nonce = NextNonceState(@, t.nonce)]]
                ELSE [k \in {s, r} |-> IF k = s THEN Spent(Current(s), t)
                                                ELSE Received(Current(k), t)]
<1>1. IsAccountMap(db) /\ IsAccountMap(writes)
    BY DEF LedgerInv, TypeOK
<1>2. /\ s \in DOMAIN loaded /\ s \in Accounts /\ Get(Overlay, s) = Current(s)
      /\ CanSpend(Current(s), t)
    BY OverlayIsCurrent DEF ApplyTransferOK, TouchedBy
<1>3. s # r => /\ r \in DOMAIN loaded /\ r \in Accounts /\ Get(Overlay, r) = Current(r)
               /\ CanReceive(Current(r), t)
    BY OverlayIsCurrent DEF ApplyTransferOK, TouchedBy
<1>4. \A k \in Accounts : Current(k) \in AccountStates
    BY <1>1, OverrideReads, AccountInType, Zenon DEF Current
<1>5. t \in Transactions
    BY PoolAssumption
<1>6. Tracks(Current(s).nonce, UsedIn(txs \o valid, s))
    BY <1>2 DEF LedgerInv
<1>7. /\ [Current(s) EXCEPT !.nonce = NextNonceState(@, t.nonce)] \in AccountStates
      /\ Spent(Current(s), t) \in AccountStates
    BY <1>2, <1>4, <1>5, <1>6, TransferTypes, Zenon
<1>8. s # r => Received(Current(r), t) \in AccountStates
  <2> SUFFICES ASSUME s # r
               PROVE  Received(Current(r), t) \in AccountStates
    OBVIOUS
  <2>1. Current(r) \in AccountStates /\ t.value \in U64
    BY <1>3, <1>4, <1>5 DEF Transactions
  <2>2. Current(r).balance + t.value \in U64
    BY <2>1, <1>3, MaxU64Assumption DEF CanReceive, AccountStates, U64
  <2> QED
    BY <2>1, <2>2 DEF Received, AccountStates
<1>9. ApplyTransfer(Overlay, t).writes = Override(Overlay.writes, w)
  <2>1. CASE s = r
    BY <2>1, <1>2 DEF ApplyTransfer, Overlay
  <2>2. CASE s # r
    <3>1. [k \in {s, r} |-> IF k = s THEN Spent(Current(s), t) ELSE Received(Current(k), t)]
              = [k \in {s, r} |-> IF k = s THEN Spent(Get(Overlay, s), t)
                                           ELSE Received(Get(Overlay, k), t)]
      BY <1>2, <1>3, <2>2
    <3> QED
      BY <2>2, <3>1 DEF ApplyTransfer, Overlay
  <2> QED
    BY <2>1, <2>2
<1>10. /\ DOMAIN w = TouchedBy(t)
       /\ s = r => w[s] = [Current(s) EXCEPT !.nonce = NextNonceState(@, t.nonce)]
       /\ s # r => w[s] = Spent(Current(s), t) /\ w[r] = Received(Current(r), t)
    BY DEF TouchedBy
<1>11. IsAccountMap(w)
  <2>1. CASE s = r
    BY <2>1, <1>2, <1>7 DEF IsAccountMap
  <2>2. CASE s # r
    BY <2>2, <1>2, <1>3, <1>7, <1>8 DEF IsAccountMap
  <2> QED
    BY <2>1, <2>2
<1> HIDE DEF w
<1>12. IsAccountMap(Overlay.writes)
    BY <1>1, EmptyMapReads DEF Overlay
<1>13. DOMAIN Overlay.writes \subseteq DOMAIN writes
    BY EmptyMapReads DEF Overlay
<1> DEFINE w2 == Override(Overlay.writes, w)
<1>14. /\ IsAccountMap(w2)
       /\ DOMAIN w2 = DOMAIN Overlay.writes \cup TouchedBy(t)
       /\ \A k \in TouchedBy(t) : w2[k] = w[k]
       /\ \A k \in DOMAIN w2 \ TouchedBy(t) : w2[k] = writes[k]
  <2>1. IsAccountMap(w2) /\ DOMAIN w2 = DOMAIN Overlay.writes \cup TouchedBy(t)
    BY <1>10, <1>11, <1>12, OverrideReads, Zenon
  <2>2. \A k \in DOMAIN w2 : w2[k] = IF k \in TouchedBy(t) THEN w[k] ELSE Overlay.writes[k]
    BY <1>10 DEF Override
  <2>3. \A k \in DOMAIN Overlay.writes : Overlay.writes[k] = writes[k]
    BY EmptyMapReads DEF Overlay
  <2> QED
    BY <2>1, <2>2, <2>3
<1> HIDE DEF w2
<1>15. writes' = Override(writes, w2) /\ db' = db
    BY <1>9 DEF Take, w2
<1>16. /\ IsAccountMap(writes')
       /\ DOMAIN writes' = DOMAIN writes \cup TouchedBy(t)
       /\ \A k \in TouchedBy(t) : writes'[k] = w[k]
       /\ \A k \in DOMAIN writes \ TouchedBy(t) : writes'[k] = writes[k]
    BY <1>1, <1>13, <1>14, <1>15, OverrideReads DEF Override
<1>17. \A k : Current(k) = IF k \in DOMAIN writes THEN writes[k] ELSE AccountIn(db, k)
    BY <1>1, OverrideReads, Zenon DEF Current
<1>18. \A k : Current(k)' = IF k \in DOMAIN writes' THEN writes'[k] ELSE AccountIn(db, k)
    BY <1>1, <1>15, <1>16, OverrideReads, Zenon DEF Current
<1>19. \A k \in Accounts \ TouchedBy(t) : Current(k)' = Current(k)
    BY <1>16, <1>17, <1>18
<1>20. \A k \in TouchedBy(t) : Current(k)' = w[k]
    BY <1>16, <1>18
<1> QED
    BY <1>2, <1>3, <1>4, <1>10, <1>16, <1>19, <1>20 DEF TouchedBy

\* Executing a transfer keeps the trackers and the history in step.
LEMMA TakeKeepsInv ==
    ASSUME LedgerInv, NEW t \in Pool, ApplyTransferOK(Overlay, t), Take(t),
           queue # <<>>, t = Head(queue), mode # "idle"
    PROVE  LedgerInv'
<1>1. /\ db' = db /\ txs' = txs /\ mode' = mode /\ loaded' = loaded /\ unique' = unique
      /\ queue' = Tail(queue) /\ valid' = Append(valid, t)
    BY DEF Take
<1>2. txs \in Seq(Pool) /\ valid \in Seq(Pool) /\ queue \in Seq(Pool)
    BY DEF LedgerInv, TypeOK
<1>3. /\ Tail(queue) \in Seq(Pool) /\ 1 \in DOMAIN queue /\ queue[1] = t
      /\ \A i \in DOMAIN Tail(queue) :
             i + 1 \in DOMAIN queue /\ i + 1 # 1 /\ Tail(queue)[i] = queue[i + 1]
      /\ DOMAIN Tail(queue) \subseteq Nat
    BY <1>2
<1>4. unique => TouchedBy(t) \cap DOMAIN writes = {}
    BY <1>3 DEF LedgerInv
<1> DEFINE h == txs \o valid
<1>5. txs' \o valid' = Append(h, t) /\ h \in Seq(Pool)
    BY <1>1, <1>2, HistoryAppend
<1> HIDE DEF h
<1>6. /\ t.sender \in Accounts /\ t.recipient \in Accounts
      /\ IsAccountMap(writes')
      /\ DOMAIN writes' = DOMAIN writes \cup TouchedBy(t)
      /\ TouchedBy(t) \subseteq DOMAIN loaded
      /\ \A k \in Accounts : Current(k) \in AccountStates
      /\ CanSpend(Current(t.sender), t)
      /\ \A k \in Accounts \ TouchedBy(t) : Current(k)' = Current(k)
      /\ t.sender = t.recipient =>
             Current(t.sender)' = [Current(t.sender) EXCEPT !.nonce = NextNonceState(@, t.nonce)]
      /\ t.sender # t.recipient =>
             /\ Current(t.sender)' = Spent(Current(t.sender), t)
             /\ Current(t.recipient)' = Received(Current(t.recipient), t)
    BY <1>4, TakeEffect, Zenon
<1>7. t \in Transactions /\ Tracks(Current(t.sender).nonce, UsedIn(h, t.sender))
    BY <1>6, PoolAssumption DEF LedgerInv, h
<1>8. /\ t.nonce \notin UsedIn(h, t.sender)
      /\ Tracks(NextNonceState(Current(t.sender).nonce, t.nonce),
                UsedIn(h, t.sender) \cup {t.nonce})
    BY <1>6, <1>7, TransferTypes, Zenon
<1>9. Current(t.sender)'.nonce = NextNonceState(Current(t.sender).nonce, t.nonce)
    BY <1>6 DEF Spent, AccountStates
<1>10. \A k \in Accounts \ {t.sender} : Current(k)'.nonce = Current(k).nonce
    BY <1>6 DEF Received, TouchedBy, AccountStates
<1>11. TypeOK'
    BY <1>1, <1>2, <1>3, <1>6 DEF LedgerInv, TypeOK
<1>12. (\A k \in Accounts : Tracks(AccountIn(db, k).nonce, UsedIn(txs, k)))'
    BY <1>1 DEF LedgerInv
<1>13. ASSUME NEW k \in Accounts
       PROVE  Tracks(Current(k)'.nonce, UsedIn(txs' \o valid', k))
  <2>1. CASE k = t.sender
    BY <2>1, <1>5, <1>8, <1>9, UsedInAppend, Zenon
  <2>2. CASE k # t.sender
    <3>1. Tracks(Current(k).nonce, UsedIn(h, k))
      BY DEF LedgerInv, h
    <3>2. UsedIn(Append(h, t), k) = UsedIn(h, k)
      BY <2>2, <1>5, UsedInAppend
    <3>3. Current(k)'.nonce = Current(k).nonce
      BY <2>2, <1>10
    <3> QED
      BY <3>1, <3>2, <3>3, <1>5
  <2> QED
    BY <2>1, <2>2
<1>14. /\ (\A k \in DOMAIN loaded : loaded[k] = AccountIn(db, k))'
       /\ DOMAIN writes' \subseteq DOMAIN loaded'
       /\ mode' # "idle"
       /\ mode' = "propose" => ~unique'
    BY <1>1, <1>6 DEF LedgerInv
<1>15. unique' => /\ AllDistinct(queue')
                  /\ \A i \in DOMAIN queue' : TouchedBy(queue'[i]) \cap DOMAIN writes' = {}
  <2> SUFFICES ASSUME unique
               PROVE  /\ AllDistinct(queue')
                      /\ \A i \in DOMAIN queue' : TouchedBy(queue'[i]) \cap DOMAIN writes' = {}
    BY <1>1
  <2>1. /\ AllDistinct(queue)
        /\ \A i \in DOMAIN queue : TouchedBy(queue[i]) \cap DOMAIN writes = {}
    BY DEF LedgerInv
  <2>2. \A i, j \in DOMAIN Tail(queue) : i # j => i + 1 # j + 1
    BY <1>3
  <2>3. AllDistinct(Tail(queue))
    BY <1>3, <2>1, <2>2 DEF AllDistinct
  <2>4. ASSUME NEW i \in DOMAIN Tail(queue)
        PROVE  TouchedBy(Tail(queue)[i]) \cap TouchedBy(t) = {}
    <3>1. i + 1 \in DOMAIN queue /\ 1 \in DOMAIN queue /\ i + 1 # 1
          /\ Tail(queue)[i] = queue[i + 1] /\ queue[1] = t
      BY <1>3
    <3> QED
      BY <3>1, <2>1 DEF AllDistinct, TouchedBy
  <2>5. ASSUME NEW i \in DOMAIN Tail(queue)
        PROVE  TouchedBy(Tail(queue)[i]) \cap DOMAIN writes = {}
    BY <1>3, <2>1
  <2> QED
    BY <1>1, <1>6, <2>3, <2>4, <2>5
<1>16. mode' = "verify" => \A i \in DOMAIN queue' : Prepared(queue'[i])
    BY <1>1, <1>3 DEF LedgerInv, Prepared
<1>17. Once(txs') /\ Once(txs' \o valid')
    BY <1>1, <1>5, <1>8, OnceAppend, Zenon DEF LedgerInv, h
<1> QED
    BY <1>11, <1>12, <1>13, <1>14, <1>15, <1>16, <1>17 DEF LedgerInv

\* When a loop ends, or is refused, only the databases matter.
LEMMA IdleKeepsInv ==
    ASSUME LedgerInv, Idle,
           IsAccountMap(db'), txs' \in Seq(Pool), Once(txs'),
           \A k \in Accounts : Tracks(AccountIn(db', k).nonce, UsedIn(txs', k))
    PROVE  LedgerInv'
<1>1. /\ mode' = "idle" /\ queue' = <<>> /\ loaded' = EmptyMap /\ unique' = FALSE
      /\ writes' = EmptyMap /\ valid' = <<>>
    BY DEF Idle
<1>2. TypeOK'
  <2>1. IsAccountMap(loaded') /\ IsAccountMap(writes')
    BY <1>1, EmptyMapReads
  <2>2. queue' \in Seq(Pool) /\ valid' \in Seq(Pool)
    BY <1>1
  <2> QED
    BY <1>1, <2>1, <2>2, Zenon DEF TypeOK
<1>3. txs' \o valid' = txs'
    BY <1>1
<1>4. \A k \in Accounts : Current(k)' = AccountIn(db', k)
    BY <1>1, OverrideEmpty DEF Current
<1> QED
    BY <1>1, <1>2, <1>3, <1>4, EmptyMapReads DEF LedgerInv

\* The inductive invariant holds of every run.
THEOREM LedgerInvariant == Spec => []LedgerInv
<1>1. Init => LedgerInv
  <2> SUFFICES ASSUME Init
               PROVE  LedgerInv
    OBVIOUS
  <2>1. TypeOK
    <3>1. IsAccountMap(db) /\ IsAccountMap(loaded) /\ IsAccountMap(writes)
      BY EmptyMapReads DEF Init
    <3>2. txs \in Seq(Pool) /\ queue \in Seq(Pool) /\ valid \in Seq(Pool)
      BY DEF Init
    <3> QED
      BY <3>1, <3>2, Zenon DEF Init, TypeOK
  <2>2. \A k : UsedIn(<<>>, k) = {} /\ Once(<<>>)
    BY DEF UsedIn, Once
  <2>3. <<>> \o <<>> = <<>>
    OBVIOUS
  <2>4. \A k \in Accounts : /\ AccountIn(db, k) = DefaultAccount
                            /\ Current(k) = DefaultAccount
    BY EmptyMapReads, OverrideEmpty DEF Init, AccountIn, Current
  <2>5. Tracks(DefaultAccount.nonce, {})
    BY EmptyTracks DEF DefaultAccount
  <2> QED
    BY <2>1, <2>2, <2>3, <2>4, <2>5, EmptyMapReads, Zenon DEF Init, LedgerInv
<1>2. LedgerInv /\ [Next]_vars => LedgerInv'
  <2> SUFFICES ASSUME LedgerInv, [Next]_vars
               PROVE  LedgerInv'
    OBVIOUS
  <2>1. IsAccountMap(db) /\ IsAccountMap(writes) /\ txs \in Seq(Pool) /\ queue \in Seq(Pool)
    BY DEF LedgerInv, TypeOK
  <2>2. queue # <<>> => Head(queue) \in Pool /\ Tail(queue) \in Seq(Pool)
    BY <2>1
  <2>3. ASSUME NEW b \in Bodies, NEW keys \in SUBSET Accounts, mode = "idle",
               loaded' = LoadAccounts(db, keys), queue' = b,
               UNCHANGED <<db, txs, writes, valid>>
        PROVE  /\ IsAccountMap(loaded') /\ b \in Seq(Pool)
               /\ txs' \o valid' = txs \o valid
               /\ \A k \in Accounts : Current(k)' = Current(k)
               /\ \A k \in DOMAIN loaded' : loaded'[k] = AccountIn(db', k)
               /\ DOMAIN writes' = {}
    <3>1. b \in Seq(Pool)
      BY MaxBodyAssumption DEF Bodies
    <3>2. IsAccountMap(LoadAccounts(db, keys))
      BY <2>1, AccountInType DEF IsAccountMap, LoadAccounts
    <3>3. DOMAIN writes' = {}
      BY <2>3, EmptyMapReads DEF LedgerInv
    <3>4. \A k \in Accounts : Current(k)' = Current(k)
      BY <2>3 DEF Current
    <3> QED
      BY <2>3, <3>1, <3>2, <3>3, <3>4 DEF LoadAccounts
  <2>4. ASSUME NEW b \in Bodies, NEW T \in SUBSET Range(b), \A t \in T : Prepared(t)
        PROVE  Keys(T) \in SUBSET Accounts
    <3>1. b \in Seq(Pool)
      BY MaxBodyAssumption DEF Bodies
    <3>2. \A t \in T : t \in Transactions
      BY <2>4, <3>1, PoolAssumption DEF Range
    <3> QED
      BY <2>4, <3>2 DEF Keys, Prepared, Transactions
  <2>5. ASSUME NEW b \in Bodies, StartPropose(b)
        PROVE  LedgerInv'
    <3> DEFINE keys == Keys({t \in Range(b) : Prepared(t)})
    <3>1. keys \in SUBSET Accounts
      BY <2>4
    <3>2. /\ mode = "idle" /\ mode' = "propose" /\ queue' = b
          /\ loaded' = LoadAccounts(db, keys) /\ unique' = unique
          /\ db' = db /\ txs' = txs /\ writes' = writes /\ valid' = valid
      BY <2>5 DEF StartPropose
    <3> HIDE DEF keys
    <3>3. /\ IsAccountMap(loaded') /\ b \in Seq(Pool)
          /\ txs' \o valid' = txs \o valid
          /\ \A k \in Accounts : Current(k)' = Current(k)
          /\ \A k \in DOMAIN loaded' : loaded'[k] = AccountIn(db', k)
          /\ DOMAIN writes' = {}
      BY <2>3, <3>1, <3>2
    <3>4. ~unique'
      BY <3>2 DEF LedgerInv
    <3>5. TypeOK'
      BY <3>2, <3>3 DEF LedgerInv, TypeOK
    <3> QED
      BY <3>2, <3>3, <3>4, <3>5 DEF LedgerInv
  <2>6. ASSUME NEW b \in Bodies, StartVerify(b)
        PROVE  LedgerInv'
    <3> DEFINE keys == Keys(Range(b))
    <3>1. keys \in SUBSET Accounts
      BY <2>4, <2>6 DEF StartVerify
    <3>2. /\ mode = "idle" /\ mode' = "verify" /\ queue' = b
          /\ loaded' = LoadAccounts(db, keys) /\ unique' = AllDistinct(b)
          /\ db' = db /\ txs' = txs /\ writes' = writes /\ valid' = valid
          /\ \A t \in Range(b) : Prepared(t)
      BY <2>6 DEF StartVerify, LoadState
    <3> HIDE DEF keys
    <3>3. /\ IsAccountMap(loaded') /\ b \in Seq(Pool)
          /\ txs' \o valid' = txs \o valid
          /\ \A k \in Accounts : Current(k)' = Current(k)
          /\ \A k \in DOMAIN loaded' : loaded'[k] = AccountIn(db', k)
          /\ DOMAIN writes' = {}
      BY <2>3, <3>1, <3>2
    <3>4. \A i \in DOMAIN b : Prepared(b[i])
      BY <3>2 DEF Range
    <3>5. unique' \in BOOLEAN
      BY <3>2 DEF AllDistinct
    <3>6. TypeOK'
      BY <3>2, <3>3, <3>5 DEF LedgerInv, TypeOK
    <3>7. unique' => AllDistinct(queue')
      BY <3>2
    <3> QED
      BY <3>2, <3>3, <3>4, <3>6, <3>7 DEF LedgerInv
  <2>7. CASE ProposeStep
    <3>1. CASE Prepared(Head(queue)) /\ ApplyTransferOK(Overlay, Head(queue))
      BY <2>2, <2>7, <3>1, TakeKeepsInv DEF ProposeStep
    <3>2. CASE ~(Prepared(Head(queue)) /\ ApplyTransferOK(Overlay, Head(queue)))
      <4>1. /\ queue # <<>> /\ queue' = Tail(queue) /\ mode = "propose"
            /\ UNCHANGED <<db, txs, mode, loaded, unique, writes, valid>>
        BY <2>7, <3>2 DEF ProposeStep
      <4>2. TypeOK'
        BY <2>2, <4>1 DEF LedgerInv, TypeOK
      <4>3. \A k \in Accounts : Current(k)' = Current(k)
        BY <4>1 DEF Current
      <4> QED
        BY <4>1, <4>2, <4>3 DEF LedgerInv
    <3> QED
      BY <3>1, <3>2
  <2>8. CASE VerifyStep
    <3>1. CASE ApplyTransferOK(Overlay, Head(queue))
      BY <2>2, <2>8, <3>1, TakeKeepsInv DEF VerifyStep
    <3>2. CASE ~ApplyTransferOK(Overlay, Head(queue))
      <4>1. Idle /\ db' = db /\ txs' = txs
        BY <2>8, <3>2 DEF VerifyStep
      <4> QED
        BY <2>1, <4>1, IdleKeepsInv DEF LedgerInv
    <3> QED
      BY <3>1, <3>2
  <2>9. CASE Finalize
    <3>1. Idle /\ db' = Override(db, writes) /\ txs' = txs \o valid
      BY <2>9 DEF Finalize
    <3>2. IsAccountMap(db') /\ txs' \in Seq(Pool)
      <4>1. \A s, t \in Seq(Pool) : s \o t \in Seq(Pool)
        OBVIOUS
      <4>2. txs \in Seq(Pool) /\ valid \in Seq(Pool)
        BY <2>1 DEF LedgerInv, TypeOK
      <4>3. IsAccountMap(db')
        BY <2>1, <3>1, OverrideReads, Zenon DEF LedgerInv, TypeOK
      <4> QED
        BY <3>1, <4>1, <4>2, <4>3
    <3>3. \A k \in Accounts : AccountIn(db', k) = Current(k)
      BY <3>1 DEF Current
    <3>4. \A k \in Accounts : Tracks(AccountIn(db', k).nonce, UsedIn(txs', k))
      BY <3>1, <3>3 DEF LedgerInv
    <3>5. Once(txs')
      BY <3>1 DEF LedgerInv
    <3> QED
      BY <3>1, <3>2, <3>4, <3>5, IdleKeepsInv
  <2>10. CASE Abandon
    <3>1. Idle /\ db' = db /\ txs' = txs
      BY <2>10 DEF Abandon
    <3> QED
      BY <2>1, <3>1, IdleKeepsInv DEF LedgerInv
  <2>11. CASE UNCHANGED vars
    <3>1. UNCHANGED <<db, txs, mode, queue, loaded, unique, writes, valid>>
      BY <2>11 DEF vars
    <3>2. TypeOK' /\ \A k \in Accounts : Current(k)' = Current(k)
      BY <3>1 DEF LedgerInv, TypeOK, Current
    <3> QED
      BY <3>1, <3>2 DEF LedgerInv
  <2> QED
    BY <2>5, <2>6, <2>7, <2>8, <2>9, <2>10, <2>11 DEF Next
<1> QED
    BY <1>1, <1>2, PTL DEF Spec

\* Databases, changesets and loaded states stay well formed: in particular no
\* balance and no nonce leaves u64.
THEOREM LedgerTypeCorrect == Spec => []TypeOK
    BY LedgerInvariant, PTL DEF LedgerInv

\* Every transaction executes at most once.
THEOREM ExecutesOnceCorrect == Spec => []ExecutesOnce
<1>1. LedgerInv => ExecutesOnce
    BY DEF LedgerInv, Once, ExecutesOnce
<1> QED
    BY <1>1, LedgerInvariant, PTL

\* The step takes from one account what it gives to another.
Moves ==
    \E s, r \in Accounts :
        /\ \A k \in Accounts \ {s, r} : Current(k)'.balance = Current(k).balance
        /\ Current(s)'.balance + Current(r)'.balance
               = Current(s).balance + Current(r).balance
        /\ Current(s)'.balance <= Current(s).balance

\* A step of a loop that executes a transfer moves balance and creates none.
LEMMA TransferMoves ==
    ASSUME LedgerInv, Next, valid' # valid, mode' = mode
    PROVE  Moves
<1>1. mode # "idle" /\ queue # <<>> /\ Take(Head(queue)) /\ ApplyTransferOK(Overlay, Head(queue))
  BY Zenon DEF Next, StartPropose, StartVerify, ProposeStep, VerifyStep, Finalize, Abandon, Idle
<1>2. PICK t \in Pool : t = Head(queue) /\ t = queue[1] /\ 1 \in DOMAIN queue
  BY <1>1 DEF LedgerInv, TypeOK
<1>3. unique => TouchedBy(t) \cap DOMAIN writes = {}
  BY <1>2 DEF LedgerInv
<1>4. /\ t.sender \in Accounts /\ t.recipient \in Accounts
      /\ \A k \in Accounts : Current(k) \in AccountStates
      /\ CanSpend(Current(t.sender), t)
      /\ \A k \in Accounts \ TouchedBy(t) : Current(k)' = Current(k)
      /\ t.sender = t.recipient =>
             Current(t.sender)'
                 = [Current(t.sender) EXCEPT !.nonce = NextNonceState(@, t.nonce)]
      /\ t.sender # t.recipient =>
             /\ Current(t.sender)' = Spent(Current(t.sender), t)
             /\ Current(t.recipient)' = Received(Current(t.recipient), t)
  BY <1>1, <1>2, <1>3, TakeEffect, Zenon
<1>5. t.value \in Nat
  BY <1>2, PoolAssumption, MaxU64Assumption DEF Transactions, U64
<1>6. /\ Current(t.sender).balance \in Nat
      /\ Current(t.recipient).balance \in Nat
      /\ Current(t.sender).balance >= t.value
  BY <1>4, MaxU64Assumption DEF AccountStates, U64, CanSpend
<1>7. \A k \in Accounts \ {t.sender, t.recipient} : Current(k)'.balance = Current(k).balance
  BY <1>4 DEF TouchedBy
<1>8. CASE t.sender = t.recipient
  <2>1. Current(t.sender)'.balance = Current(t.sender).balance
    BY <1>4, <1>8 DEF AccountStates
  <2> QED
    BY <1>4, <1>6, <1>7, <1>8, <2>1 DEF Moves
<1>9. CASE t.sender # t.recipient
  <2>1. /\ Current(t.sender)'.balance = Current(t.sender).balance - t.value
        /\ Current(t.recipient)'.balance = Current(t.recipient).balance + t.value
    BY <1>4, <1>9 DEF Spent, Received, AccountStates
  <2> QED
    BY <1>4, <1>5, <1>6, <1>7, <2>1 DEF Moves
<1> QED
  BY <1>8, <1>9

\* Every executed transfer moves balance between two accounts and creates none.
THEOREM MovesBetweenTwoCorrect == Spec => MovesBetweenTwo
<1>1. LedgerInv /\ [Next]_vars => [valid' # valid /\ mode' = mode => Moves]_vars
    BY TransferMoves
<1> QED
    BY <1>1, LedgerInvariant, PTL DEF Spec, MovesBetweenTwo, Moves

\* What all accounts hold together when account k is account[k].
Supply(account) == SumFunctionOnSet([k \in Accounts |-> account[k].balance], Accounts)

Stored == [k \in Accounts |-> AccountIn(db, k)]
Building == [k \in Accounts |-> Current(k)]

\* Conservation is inductive together with conservation in the database, which
\* is what an abandoned or refused block goes back to.
SupplyInv ==
    /\ Supply(Stored) = Cardinality(Accounts) * DefaultBalance
    /\ Supply(Building) = Cardinality(Accounts) * DefaultBalance

\* Moving an amount from one element to another leaves the sum alone.
LEMMA SumMove ==
    ASSUME NEW D, IsFiniteSet(D), NEW f, NEW g,
           \A x \in D : f[x] \in Nat /\ g[x] \in Nat,
           NEW s \in D, NEW r \in D, f[s] + f[r] = g[s] + g[r],
           \A x \in D \ {s, r} : g[x] = f[x]
    PROVE  SumFunctionOnSet(f, D) = SumFunctionOnSet(g, D)
<1>1. \A x \in D : f[x] \in Nat
    OBVIOUS
<1>2. \A x \in D : g[x] \in Nat
    OBVIOUS
<1>3. CASE s = r
  <2>1. \A x \in D : f[x] \in Nat /\ g[x] = f[x]
    <3>1. g[s] = f[s]
      BY <1>3
    <3> QED
      BY <1>3, <3>1
  <2> QED
    BY <2>1, SumSame
<1>4. CASE s # r
  <2> DEFINE C == (D \ {s}) \ {r}
  <2>1. /\ D \in SUBSET D /\ D \ {s} \in SUBSET D /\ r \in D \ {s} /\ C \in SUBSET D
        /\ IsFiniteSet(C)
    BY <1>4, FS_Subset
  <2>2. SumFunctionOnSet(f, D) = f[s] + (f[r] + SumFunctionOnSet(f, C))
    <3>1. SumFunctionOnSet(f, D) = f[s] + SumFunctionOnSet(f, D \ {s})
      BY <1>1, <2>1, SumRemove
    <3>2. SumFunctionOnSet(f, D \ {s}) = f[r] + SumFunctionOnSet(f, C)
      BY <1>1, <2>1, SumRemove
    <3> QED
      BY <3>1, <3>2
  <2>3. SumFunctionOnSet(g, D) = g[s] + (g[r] + SumFunctionOnSet(g, C))
    <3>1. SumFunctionOnSet(g, D) = g[s] + SumFunctionOnSet(g, D \ {s})
      BY <1>2, <2>1, SumRemove
    <3>2. SumFunctionOnSet(g, D \ {s}) = g[r] + SumFunctionOnSet(g, C)
      BY <1>2, <2>1, SumRemove
    <3> QED
      BY <3>1, <3>2
  <2>4. SumFunctionOnSet(f, C) = SumFunctionOnSet(g, C)
    <3>1. \A x \in C : f[x] \in Nat /\ g[x] = f[x]
      OBVIOUS
    <3> HIDE DEF C
    <3> QED
      BY <2>1, <3>1, SumSame
  <2>5. SumFunctionOnSet(f, C) \in Nat
    BY <1>1, <2>1, SumBasics
  <2> QED
    BY <2>2, <2>3, <2>4, <2>5
<1> QED
    BY <1>3, <1>4

\* A constant sums to its multiple.
LEMMA SumConstant ==
    ASSUME NEW D, IsFiniteSet(D), NEW c \in Nat, NEW f, \A x \in D : f[x] = c
    PROVE  SumFunctionOnSet(f, D) = Cardinality(D) * c
<1> DEFINE F == {S \in SUBSET D : SumFunctionOnSet(f, S) = Cardinality(S) * c}
<1>1. \A x \in D : f[x] \in Nat
    OBVIOUS
<1>2. {} \in F
    BY <1>1, SumBasics, FS_EmptySet
<1>3. ASSUME NEW S \in SUBSET D, S # {}, \A x \in S : S \ {x} \in F
      PROVE  S \in F
  <2>1. PICK x \in S : TRUE
    BY <1>3
  <2>2. SumFunctionOnSet(f, S) = f[x] + SumFunctionOnSet(f, S \ {x})
    BY <1>1, SumRemove
  <2>3. Cardinality(S \ {x}) = Cardinality(S) - 1 /\ Cardinality(S) \in Nat
    BY SubsetSizes
  <2>4. \A n \in Nat : c + (n - 1) * c = n * c
    OBVIOUS
  <2>5. f[x] = c /\ SumFunctionOnSet(f, S \ {x}) = Cardinality(S \ {x}) * c
    BY <1>3
  <2> QED
    BY <2>2, <2>3, <2>4, <2>5
<1> HIDE DEF F
<1>4. \A S \in SUBSET D : S \in F
    BY <1>2, <1>3, FiniteInduction, Zenon
<1> QED
    BY <1>4 DEF F

\* Balances are natural numbers.
LEMMA BalancesAreNumbers ==
    ASSUME NEW m \in [Accounts -> AccountStates]
    PROVE  \A k \in Accounts : m[k].balance \in Nat
    BY MaxU64Assumption DEF AccountStates, U64

\* A step that moves balance between two accounts keeps the supply.
LEMMA MovesKeepSupply ==
    ASSUME LedgerInv, LedgerInv', Moves
    PROVE  Supply(Building') = Supply(Building)
<1> DEFINE old == Building
           new == Building'
           f == [k \in Accounts |-> old[k].balance]
           g == [k \in Accounts |-> new[k].balance]
<1>1. old \in [Accounts -> AccountStates] /\ new \in [Accounts -> AccountStates]
  <2>1. IsAccountMap(db) /\ IsAccountMap(writes) /\ IsAccountMap(db') /\ IsAccountMap(writes')
    BY DEF LedgerInv, TypeOK
  <2>2. IsAccountMap(Override(db, writes)) /\ IsAccountMap(Override(db', writes'))
    BY <2>1, OverrideReads, Zenon
  <2> QED
    BY <2>2, AccountInType DEF Building, Current
<1>2. PICK s \in Accounts, r \in Accounts :
        /\ \A k \in Accounts \ {s, r} : new[k].balance = old[k].balance
        /\ new[s].balance + new[r].balance = old[s].balance + old[r].balance
    BY DEF Moves, Building
<1> HIDE DEF old, new
<1>3. \A k \in Accounts : f[k] \in Nat /\ g[k] \in Nat
    BY <1>1, BalancesAreNumbers
<1>4. f[s] + f[r] = g[s] + g[r] /\ \A k \in Accounts \ {s, r} : g[k] = f[k]
    BY <1>2
<1>5. SumFunctionOnSet(f, Accounts) = SumFunctionOnSet(g, Accounts)
  <2> HIDE DEF f, g
  <2> QED
    BY <1>3, <1>4, SumMove, AccountsAssumption
<1> QED
    BY <1>5 DEF Supply, old, new

\* Every other step leaves the accounts alone, or ends the block.
LEMMA SupplyCases ==
    ASSUME LedgerInv, [Next]_vars
    PROVE  \/ Moves /\ Stored' = Stored
           \/ Building' = Building /\ Stored' = Stored
           \/ Building' = Stored /\ Stored' = Stored
           \/ Building' = Building /\ Stored' = Building
<1>1. ASSUME Idle, IsAccountMap(db')
      PROVE  Building' = Stored'
  <2>1. writes' = EmptyMap
    BY <1>1 DEF Idle
  <2>2. \A k \in Accounts : Current(k)' = AccountIn(db', k)
    BY <1>1, <2>1, OverrideEmpty DEF Current
  <2> QED
    BY <2>2 DEF Building, Stored
<1>2. ASSUME db' = db, writes' = writes
      PROVE  Building' = Building /\ Stored' = Stored
    BY <1>2 DEF Building, Stored, Current
<1>3. IsAccountMap(db) /\ IsAccountMap(writes)
    BY DEF LedgerInv, TypeOK
<1>4. ASSUME NEW t, Take(t), Next
      PROVE  Moves /\ Stored' = Stored
  <2>1. valid' = Append(valid, t) /\ mode' = mode /\ db' = db /\ valid \in Seq(Pool)
    BY <1>4 DEF Take, LedgerInv, TypeOK
  <2>2. valid' # valid
    BY <2>1
  <2> QED
    BY <1>4, <2>1, <2>2, TransferMoves DEF Stored
<1>5. CASE \E b \in Bodies : StartPropose(b) \/ StartVerify(b)
    BY <1>2, <1>5 DEF StartPropose, StartVerify
<1>6. CASE ProposeStep
    BY <1>2, <1>4, <1>6 DEF ProposeStep, Next
<1>7. CASE VerifyStep
    BY <1>1, <1>3, <1>4, <1>7 DEF VerifyStep, Next, Stored
<1>8. CASE Finalize
  <2>1. Idle /\ db' = Override(db, writes) /\ IsAccountMap(db')
    BY <1>3, <1>8, OverrideReads, Zenon DEF Finalize
  <2>2. Stored' = Building
    BY <2>1 DEF Stored, Building, Current
  <2> QED
    BY <1>1, <2>1, <2>2
<1>9. CASE Abandon
    BY <1>1, <1>3, <1>9 DEF Abandon, Stored
<1>10. CASE UNCHANGED vars
    BY <1>2, <1>10 DEF vars
<1> QED
    BY <1>5, <1>6, <1>7, <1>8, <1>9, <1>10 DEF Next

\* No sequence of blocks, proposed, verified, refused or abandoned, creates or
\* destroys balance.
THEOREM SupplyConservedCorrect == Spec => []SupplyConserved
<1>1. Init => SupplyInv
  <2> SUFFICES ASSUME Init
               PROVE  SupplyInv
    OBVIOUS
  <2>1. \A k \in Accounts : AccountIn(db, k) = DefaultAccount /\ Current(k) = DefaultAccount
    BY EmptyMapReads, OverrideEmpty DEF Init, AccountIn, Current
  <2> DEFINE f == [k \in Accounts |-> DefaultBalance]
  <2>2. Supply(Stored) = SumFunctionOnSet(f, Accounts)
        /\ Supply(Building) = SumFunctionOnSet(f, Accounts)
    <3>1. [k \in Accounts |-> Stored[k].balance] = f
      BY <2>1 DEF Stored, DefaultAccount
    <3>2. [k \in Accounts |-> Building[k].balance] = f
      BY <2>1 DEF Building, DefaultAccount
    <3> QED
      BY <3>1, <3>2 DEF Supply
  <2>3. DefaultBalance \in Nat /\ \A k \in Accounts : f[k] = DefaultBalance
    BY DefaultBalanceAssumption, MaxU64Assumption DEF U64
  <2> HIDE DEF f
  <2>4. SumFunctionOnSet(f, Accounts) = Cardinality(Accounts) * DefaultBalance
    BY <2>3, SumConstant, AccountsAssumption
  <2> QED
    BY <2>2, <2>4 DEF SupplyInv
<1>2. LedgerInv /\ LedgerInv' /\ SupplyInv /\ [Next]_vars => SupplyInv'
  <2> SUFFICES ASSUME LedgerInv, LedgerInv', SupplyInv, [Next]_vars
               PROVE  SupplyInv'
    OBVIOUS
  <2>1. \/ Supply(Building') = Supply(Building) /\ Stored' = Stored
        \/ Building' = Stored /\ Stored' = Stored
        \/ Building' = Building /\ Stored' = Building
    BY SupplyCases, MovesKeepSupply
  <2> QED
    BY <2>1 DEF SupplyInv, Supply
<1>3. SupplyInv => SupplyConserved
  <2>1. [k \in Accounts |-> Building[k].balance] = [k \in Accounts |-> Current(k).balance]
    BY DEF Building
  <2>2. SumFunctionOnSet([k \in Accounts |-> Current(k).balance], Accounts)
            = SumFunction([k \in Accounts |-> Current(k).balance])
    BY DEF SumFunction
  <2> QED
    BY <2>1, <2>2 DEF SupplyInv, Supply, SupplyConserved
<1> QED
    BY <1>1, <1>2, <1>3, LedgerInvariant, PTL DEF Spec

-----------------------------------------------------------------------------
\* The unique path is an optimisation for every body of every state the chain
\* can reach.
THEOREM PathsAgreeCorrect == Spec => []PathsAgree
<1>1. TypeOK => PathsAgree
  <2> SUFFICES ASSUME TypeOK, NEW b \in Bodies, AllDistinct(b), \A t \in Range(b) : Prepared(t)
               PROVE  ExecuteUnique(LoadState(db, b), b) = Execute(LoadState(db, b), b)
    BY DEF PathsAgree
  <2>1. b \in Seq(Transactions)
    BY MaxBodyAssumption, PoolAssumption DEF Bodies
  <2> QED
    BY <2>1, PathsAgreeAlways DEF TypeOK
<1> QED
    BY <1>1, LedgerTypeCorrect, PTL

\* The strengthening ProposalReplays needs: the transactions taken so far ran, one
\* by one, on the accounts that were loaded, and left the writes of the overlay.
ReplayInv ==
    mode = "propose" => /\ \A i \in DOMAIN valid : Prepared(valid[i])
                        /\ RanTo(loaded, valid, writes)

\* Every step keeps it.
LEMMA ReplayStep ==
    ASSUME LedgerInv, ReplayInv, [Next]_vars
    PROVE  ReplayInv'
<1> SUFFICES ASSUME mode' = "propose"
             PROVE  /\ \A i \in DOMAIN valid' : Prepared(valid'[i])
                    /\ RanTo(loaded', valid', writes')
    BY DEF ReplayInv
<1>1. ASSUME NEW b \in Bodies, StartPropose(b)
      PROVE  valid' = <<>> /\ writes' = EmptyMap
    BY <1>1 DEF StartPropose, LedgerInv
<1>2. ASSUME valid' = valid, writes' = writes, loaded' = loaded, mode = "propose"
      PROVE  /\ \A i \in DOMAIN valid' : Prepared(valid'[i])
             /\ RanTo(loaded', valid', writes')
    BY <1>2 DEF ReplayInv
<1>3. CASE ProposeStep /\ Prepared(Head(queue)) /\ ApplyTransferOK(Overlay, Head(queue))
  <2>1. /\ mode = "propose" /\ queue # <<>> /\ loaded' = loaded
        /\ valid' = Append(valid, Head(queue))
        /\ writes' = Override(writes, ApplyTransfer(Overlay, Head(queue)).writes)
    BY <1>3 DEF ProposeStep, Take
  <2>2. Overlay = OverlayOf(loaded, writes)
    BY <2>1 DEF Overlay, OverlayOf, LedgerInv
  <2>3. PICK t \in Pool : t = Head(queue)
    BY <2>1 DEF LedgerInv, TypeOK
  <2>4. t \in Transactions /\ valid \in Seq(Transactions) /\ valid \in Seq(Pool)
    BY PoolAssumption DEF LedgerInv, TypeOK
  <2>5. RanTo(loaded, Append(valid, t), ApplyTransfer(OverlayOf(loaded, writes), t).writes)
    BY <1>3, <2>1, <2>2, <2>3, <2>4, RanOneMore DEF ReplayInv
  <2>6. writes' = ApplyTransfer(OverlayOf(loaded, writes), t).writes
    BY <2>1, <2>2, <2>3, ApplyWrites, OverrideTwice
  <2>7. \A i \in DOMAIN Append(valid, t) : Prepared(Append(valid, t)[i])
    <3>1. \A i \in DOMAIN Append(valid, t) :
              \/ Append(valid, t)[i] = t
              \/ i \in DOMAIN valid /\ Append(valid, t)[i] = valid[i]
      BY <2>4
    <3> QED
      BY <1>3, <2>1, <2>3, <3>1 DEF ReplayInv
  <2> QED
    BY <2>1, <2>3, <2>5, <2>6, <2>7
<1>4. CASE ProposeStep /\ ~(Prepared(Head(queue)) /\ ApplyTransferOK(Overlay, Head(queue)))
    BY <1>2, <1>4 DEF ProposeStep
<1>5. CASE \E b \in Bodies : StartPropose(b)
    BY <1>1, <1>5, RanNothing DEF StartPropose
<1>6. CASE (\E b \in Bodies : StartVerify(b)) \/ VerifyStep \/ Finalize \/ Abandon
    BY <1>6 DEF StartVerify, VerifyStep, Take, Finalize, Abandon, Idle
<1>7. CASE UNCHANGED vars
    BY <1>2, <1>7 DEF vars
<1> QED
    BY <1>3, <1>4, <1>5, <1>6, <1>7 DEF Next

\* Whatever a leader has built at any moment, every verifier accepts, with the
\* changeset the leader computed.
THEOREM ProposalReplaysCorrect == Spec => []ProposalReplays
<1>1. Init => ReplayInv
    BY DEF Init, ReplayInv
<1>2. LedgerInv /\ ReplayInv /\ [Next]_vars => ReplayInv'
    BY ReplayStep
<1>3. LedgerInv /\ ReplayInv => ProposalReplays
  <2> SUFFICES ASSUME LedgerInv, ReplayInv, mode = "propose"
               PROVE  ExecuteBody(db, valid) = Done(writes)
    BY DEF ProposalReplays, Done
  <2>1. /\ IsAccountMap(db) /\ valid \in Seq(Transactions)
        /\ \A k \in DOMAIN loaded : loaded[k] = AccountIn(db, k)
    BY PoolAssumption DEF LedgerInv, TypeOK
  <2>2. \A t \in Range(valid) : Prepared(t)
    BY DEF ReplayInv, Range
  <2>3. PICK ws : Runs(loaded, valid, ws, Len(valid)) /\ ws[Len(valid)] = writes
    BY DEF ReplayInv, RanTo
  <2> QED
    BY <2>1, <2>2, <2>3, BodyReplays
<1> QED
    BY <1>1, <1>2, <1>3, LedgerInvariant, PTL DEF Spec

-----------------------------------------------------------------------------
(***************************************************************************)
(* The life of one account (module Nonce), for every bitmap capacity and   *)
(* every integer width.  The inductive invariant says that the tracker     *)
(* represents the set of accepted nonces, in the sense of Tracks.          *)
(***************************************************************************)

\* Every step consumes a nonce or changes nothing.
LEMMA NonceSteps ==
    ASSUME [NonceNext]_nonceVars
    PROVE  (\E n \in U64 : Consume(n)) \/ UNCHANGED nonceVars
    BY DEF NonceNext, Refuse

NonceInv == Tracks(nonce, accepted)

\* The inductive invariant holds of every account history.
THEOREM NonceInvariant == NonceSpec => []NonceInv
<1>1. NonceInit => NonceInv
    BY EmptyTracks DEF NonceInit, NonceInv
<1>2. NonceInv /\ [NonceNext]_nonceVars => NonceInv'
  <2> SUFFICES ASSUME NonceInv, [NonceNext]_nonceVars
               PROVE  NonceInv'
    OBVIOUS
  <2>1. ASSUME NEW n \in U64, Consume(n)
        PROVE  NonceInv'
    BY <2>1, ConsumeKeepsTracks DEF NonceInv, Consume
  <2>2. CASE UNCHANGED nonceVars
    BY <2>2 DEF nonceVars, NonceInv
  <2> QED
    BY <2>1, <2>2, NonceSteps
<1> QED
    BY <1>1, <1>2, PTL DEF NonceSpec

\* The tracker stays in its type: base and bitmap fit their integers.
THEOREM NonceTypeCorrect == NonceSpec => []NonceTypeOK
<1>1. NonceInv => NonceTypeOK
    BY DEF NonceInv, Tracks, NonceTypeOK
<1> QED
    BY <1>1, NonceInvariant, PTL

\* The base is the next unused nonce, and the one below it was used.
THEOREM BaseCorrect == NonceSpec => []BaseIsNext
<1>1. NonceInv => BaseIsNext
    BY DEF NonceInv, Tracks, BaseIsNext
<1> QED
    BY <1>1, NonceInvariant, PTL

\* Compaction of the bitmap loses no nonce and invents none.
THEOREM BitmapCorrect == NonceSpec => []BitmapExact
<1>1. NonceInv => BitmapExact
  <2> SUFFICES ASSUME NonceInv
               PROVE  {nonce.base + d : d \in nonce.bitmap} = {n \in accepted : n > nonce.base}
    BY DEF BitmapExact
  <2>1. /\ nonce.base \in Nat
        /\ nonce.bitmap \in SUBSET (Nat \ {0})
        /\ accepted \subseteq Nat
    BY CapacityAssumption, MaxU64Assumption DEF NonceInv, Tracks, NonceStates, U64
  <2>2. ASSUME NEW d \in nonce.bitmap
        PROVE  nonce.base + d \in accepted /\ nonce.base + d > nonce.base
    BY <2>1 DEF NonceInv, Tracks
  <2>3. ASSUME NEW n \in accepted, n > nonce.base
        PROVE  n - nonce.base \in nonce.bitmap /\ n = nonce.base + (n - nonce.base)
    BY <2>1, <2>3 DEF NonceInv, Tracks
  <2> QED
    BY <2>2, <2>3
<1> QED
    BY <1>1, NonceInvariant, PTL

\* A nonce is refused only when it is spent, skipped or u64::MAX.
THEOREM RefusalCorrect == NonceSpec => []RefusesOnlySpent
<1>1. NonceInv => RefusesOnlySpent
    BY AcceptsExactlyUnused DEF NonceInv, RefusesOnlySpent
<1> QED
    BY <1>1, NonceInvariant, PTL

\* No transaction nonce is ever accepted twice.
THEOREM ReplayProtection == NonceSpec => NoReplay
<1>1. NonceInv /\ [NonceNext]_nonceVars
        => [nonce' # nonce => \E n \in U64 : n \notin accepted /\ accepted' = accepted \cup {n}]_nonceVars
  <2> SUFFICES ASSUME NonceInv, NonceNext, nonce' # nonce
               PROVE  \E n \in U64 : n \notin accepted /\ accepted' = accepted \cup {n}
    OBVIOUS
  <2>1. PICK n \in U64 : Consume(n)
    BY NonceSteps DEF nonceVars
  <2> QED
    BY <2>1, AcceptsExactlyUnused DEF NonceInv, Consume
<1> QED
    BY <1>1, NonceInvariant, PTL DEF NonceSpec, NoReplay

\* The base is monotone, and unused nonces fall below it only by a jump.
THEOREM SkipCorrect == NonceSpec => SkipOnlyByJump
<1> DEFINE Step == /\ nonce'.base >= nonce.base
                   /\ \A n \in nonce.base .. nonce'.base :
                          n < nonce'.base /\ n \notin accepted' =>
                              nonce'.base > nonce.base + Capacity + 1
<1>1. NonceInv /\ [NonceNext]_nonceVars => [Step]_nonceVars
  <2> SUFFICES ASSUME NonceInv, NonceNext
               PROVE  Step
    OBVIOUS
  <2>1. nonce.base \in U64
    BY DEF NonceInv, Tracks, NonceStates
  <2>2. ASSUME NEW n \in U64, Consume(n)
        PROVE  Step
    <3>1. n >= nonce.base /\ n < MaxU64
      BY <2>2, AcceptsExactlyUnused DEF NonceInv, Consume
    <3>2. CASE n = nonce.base
      <4>1. nonce' = ConsumeCurrentNonce(nonce) /\ accepted' = accepted \cup {nonce.base}
        BY <2>2, <3>2 DEF Consume, NextNonceState
      <4>2. /\ nonce' \in NonceStates
            /\ nonce'.base > nonce.base
            /\ \A m \in nonce.base .. nonce'.base - 1 : m \in accepted'
        BY <3>1, <3>2, <4>1, ConsumeBase DEF NonceInv
      <4>3. nonce'.base \in U64
        BY <4>2 DEF NonceStates
      <4> QED
        BY <2>1, <4>2, <4>3, MaxU64Assumption DEF U64
    <3>3. CASE n - nonce.base > Capacity
      <4>1. nonce' = [base |-> n + 1, bitmap |-> {}]
        BY <2>1, <2>2, <3>3, CapacityAssumption, MaxU64Assumption
           DEF Consume, NextNonceState, U64
      <4> QED
        BY <2>1, <3>1, <3>3, <4>1, CapacityAssumption, MaxU64Assumption DEF U64
    <3>4. CASE n # nonce.base /\ ~(n - nonce.base > Capacity)
      <4>1. nonce'.base = nonce.base
        BY <2>2, <3>4 DEF Consume, NextNonceState, NonceInv, Tracks, NonceStates
      <4> QED
        BY <2>1, <4>1, MaxU64Assumption DEF U64
    <3> QED
      BY <3>2, <3>3, <3>4
  <2>3. CASE UNCHANGED nonceVars
    BY <2>1, <2>3, MaxU64Assumption DEF nonceVars, U64
  <2> QED
    BY <2>2, <2>3, NonceSteps
<1> QED
    BY <1>1, NonceInvariant, PTL DEF NonceSpec, SkipOnlyByJump

=============================================================================
