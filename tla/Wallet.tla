------------------------------- MODULE Wallet -------------------------------
(***************************************************************************)
(* The wallet of the explorer (explorer/src/App.tsx, nonce.ts).  The page  *)
(* reserves a nonce from its local tracker, waits for the passkey prompt,  *)
(* submits, waits for the verdict and fetches the account; all the while   *)
(* the user may submit again, sign out, sign in as another wallet, or load *)
(* the page anew.  Submitted transactions are listed in a history, one per *)
(* wallet in the browser's storage, and finalized ones are proved one by   *)
(* one.  A state change and the effects React runs for it are one step.    *)
(* The balance shown and the messages are left out.                        *)
(***************************************************************************)
EXTENDS NonceOps, SequencesExt

CONSTANTS
    Wallets, NoWallet,
    Precision,       \* bits a JSON number keeps: 53, for a window of 64
    HistoryLimit,    \* entries of the history, 100 in the code
    MaxSubmissions,  \* bounds: transfers, sign-ins and page loads, fetches
    MaxEpochs,       \* under way, nonces spent from other devices
    MaxFetches,
    MaxForeign

VARIABLES
    wallet,          \* NoWallet when signed out
    accountKey,      \* walletAccountKey, the wallet whose key it is
    epoch,           \* sign-ins and page loads so far
    nonce,           \* nextNonceRef
    history,         \* submitted transactions, latest first
    stored,          \* the browser's storage: a history per wallet
    tasks,           \* calls of submitTransfer
    fetches,         \* account fetches under way
    provers,         \* transaction proofs under way
    committed,       \* the chain: nonce state of each account
    requests,        \* submissions the mempool has
    answers,         \* verdicts on their way to the page
    foreign          \* nonces spent from other devices

vars == <<wallet, accountKey, epoch, nonce, history, stored, tasks, fetches, provers,
          committed, requests, answers, foreign>>
page == <<wallet, accountKey, epoch, history, stored, provers>>
chain == <<committed, requests, answers, foreign>>

Submissions == 1 .. MaxSubmissions
Unused == [phase |-> "unused"]
Done(t) == [phase |-> "done", wallet |-> t.wallet]
Unread == [base |-> 0, bitmap |-> {0}]

Init == /\ wallet = NoWallet /\ accountKey = NoWallet /\ epoch = 0
        /\ nonce = EmptyNonce
        /\ history = <<>> /\ stored = [w \in Wallets |-> <<>>]
        /\ tasks = [i \in Submissions |-> Unused]
        /\ fetches = {} /\ provers = {}
        /\ committed = [w \in Wallets |-> EmptyNonce]
        /\ requests = {} /\ answers = {} /\ foreign = 0

---------------------------------------------------------------------------
(* nonce.ts.  consumeNonce is the arithmetic of the tracker itself.        *)

consumeNonce(state, n) == IF CanConsume(state, n) THEN NextNonceState(state, n) ELSE state

\* Nonces of the bitmap from base on, in the order the generator yields them.
consumedBitmapNonces(state, base) ==
    SetToSortSeq({n \in {state.base + d : d \in state.bitmap} : n >= base}, <)

mergeNonceStates(left, right) ==
    LET start == [base |-> IF left.base > right.base THEN left.base ELSE right.base,
                  bitmap |-> {}]
        mid   == FoldLeft(consumeNonce, start, consumedBitmapNonces(left, start.base))
    IN  FoldLeft(consumeNonce, mid, consumedBitmapNonces(right, mid.base))

\* An integer as a JSON number: its Precision leading bits, ties to even.
AsNumber(v) ==
    LET e    == CHOOSE k \in 0 .. Capacity :
                    /\ v < 2 ^ (Precision + k)
                    /\ k > 0 => v >= 2 ^ (Precision + k - 1)
        unit == 2 ^ e
        q    == v \div unit
        up   == \/ 2 * (v % unit) > unit
                \/ 2 * (v % unit) = unit /\ q % 2 = 1
    IN  (IF up THEN q + 1 ELSE q) * unit

\* response.json() and accountNonceState: the bitmap arrives as a number.
accountNonceState(state) ==
    LET v == AsNumber(SumSet({2 ^ (d - 1) : d \in state.bitmap}))
    IN  [base |-> state.base, bitmap |-> {d \in 1 .. Capacity : (v \div 2 ^ (d - 1)) % 2 = 1}]

---------------------------------------------------------------------------
(* The history and the effects on it. *)

Pending(i) == [digest |-> i, sender |-> tasks[i].wallet, status |-> "pending", proof |-> "waiting"]

prependTransaction(tx, current) ==
    LET all == <<tx>> \o SelectSeq(current, LAMBDA item : item.digest # tx.digest)
    IN  SubSeq(all, 1, IF Len(all) < HistoryLimit THEN Len(all) ELSE HistoryLimit)

updateTransactionStatus(i, status, current) ==
    [k \in DOMAIN current |->
        IF current[k].digest = i
        THEN [current[k] EXCEPT !.status = status, !.proof = "waiting"] ELSE current[k]]

updateTransactionProof(i, proof, current) ==
    [k \in DOMAIN current |->
        IF current[k].digest = i THEN [current[k] EXCEPT !.proof = proof] ELSE current[k]]

\* Mutant: the state of the proof is read as it was stored.
readHistoryAsStored(w) == stored[w]

\* readHistory: a proof that was under way, or had failed, is to be fetched again.
readHistory(w) ==
    [k \in DOMAIN stored[w] |->
        IF stored[w][k].proof \in {"fetching", "error"}
        THEN [stored[w][k] EXCEPT !.proof = "waiting"] ELSE stored[w][k]]

hasFetchingProof(h, sender) ==
    \E k \in DOMAIN h : h[k].sender = sender /\ h[k].proof = "fetching"

shouldFetchTransactionProof(tx, sender) ==
    tx.sender = sender /\ tx.status = "finalized" /\ tx.proof = "waiting"

\* setHistory(h), the effect that fetches a proof and the one that stores;
\* running are the proofs under way.
Show(h, running) ==
    LET due   == SelectSeq(h, LAMBDA tx : shouldFetchTransactionProof(tx, accountKey'))
        fetch == ~hasFetchingProof(h, accountKey') /\ due # <<>>
    IN  /\ history' = IF fetch THEN updateTransactionProof(due[1].digest, "fetching", h) ELSE h
        /\ provers' = running \cup
               IF fetch THEN {[digest |-> due[1].digest, epoch |-> epoch, phase |-> "fetching"]}
               ELSE {}
        /\ stored' = IF accountKey' = NoWallet THEN stored
                     ELSE [stored EXCEPT ![accountKey'] = history']

---------------------------------------------------------------------------
(* Signing in and out. *)

\* fetchAccount for w is called; at the bound, it fails at once.
Fetch(w, effect, running) ==
    fetches' = running \cup
        IF Cardinality(running) = MaxFetches THEN {}
        ELSE {[wallet |-> w, effect |-> effect, epoch |-> epoch', read |-> Unread]}

\* External: the browser has one passkey prompt at a time.
PromptIsFree == \A i \in Submissions : tasks[i].phase # "signing"

\* handleSignIn, handleCreateWallet and the effect on [wallet] that fetches
\* the account.  The local nonces stay what they are.
SignIn(w) ==
    /\ wallet = NoWallet /\ PromptIsFree
    /\ epoch < MaxEpochs /\ epoch' = epoch + 1
    /\ wallet' = w
    /\ Fetch(w, TRUE, fetches)
    /\ UNCHANGED <<accountKey, nonce, history, stored, tasks, provers, chain>>

\* accountKeyFromPublicKey resolves: the history of the wallet is loaded.
DeriveKey ==
    /\ wallet # NoWallet /\ accountKey # wallet
    /\ accountKey' = wallet
    /\ Show(readHistory(wallet), provers)
    /\ UNCHANGED <<wallet, epoch, nonce, tasks, fetches, chain>>

\* handleSignOut and the effects on [wallet], [historyKey].
SignOut ==
    /\ wallet # NoWallet
    /\ wallet' = NoWallet /\ accountKey' = NoWallet /\ nonce' = EmptyNonce
    /\ Show(<<>>, provers)
    /\ UNCHANGED <<epoch, tasks, fetches, chain>>

\* The page is loaded anew: nothing under way survives, the session does.
Reload ==
    /\ wallet # NoWallet
    /\ epoch < MaxEpochs /\ epoch' = epoch + 1
    /\ accountKey' = NoWallet /\ nonce' = EmptyNonce /\ history' = <<>> /\ provers' = {}
    /\ tasks' = [i \in Submissions |->
                    IF tasks[i].phase = "unused" THEN Unused ELSE Done(tasks[i])]
    /\ Fetch(wallet, TRUE, {}) /\ answers' = {}
    /\ UNCHANGED <<wallet, stored, committed, requests, foreign>>

---------------------------------------------------------------------------
(* submitTransfer. *)

\* A nonce is reserved; the passkey prompt opens.
Submit(i) ==
    /\ tasks[i].phase = "unused" /\ \A j \in 1 .. i - 1 : tasks[j].phase # "unused"
    /\ wallet # NoWallet /\ accountKey # NoWallet
    /\ CanConsume(nonce, nonce.base)
    /\ nonce' = consumeNonce(nonce, nonce.base)
    /\ tasks' = [tasks EXCEPT ![i] = [phase |-> "signing", wallet |-> wallet, epoch |-> epoch,
                                      nonce |-> nonce.base, previous |-> nonce, next |-> nonce']]
    /\ UNCHANGED <<page, fetches, chain>>

\* The signature is made: the transaction is listed and sent.
Signed(i) ==
    /\ tasks[i].phase = "signing"
    /\ tasks' = [tasks EXCEPT ![i].phase = "submitting"]
    /\ requests' = requests \cup {[digest |-> i, sender |-> tasks[i].wallet, nonce |-> tasks[i].nonce]}
    /\ accountKey' = accountKey
    /\ Show(prependTransaction(Pending(i), history), provers)
    /\ UNCHANGED <<wallet, epoch, nonce, fetches, committed, answers, foreign>>

\* The verdict arrives; refreshAccount is called for the wallet that submitted.
Answered(i) ==
    /\ \E a \in answers :
        /\ a.digest = i /\ answers' = answers \ {a}
        /\ accountKey' = accountKey
        /\ Show(updateTransactionStatus(i, a.status, history), provers)
    /\ tasks' = [tasks EXCEPT ![i] = Done(@)]
    /\ epoch' = epoch
    /\ Fetch(tasks[i].wallet, FALSE, fetches)
    /\ UNCHANGED <<wallet, nonce, committed, requests, foreign>>

\* Mutant: the counter goes back by one, whatever was reserved since.
RollbackOne(i) == [nonce EXCEPT !.base = IF @ = 0 THEN 0 ELSE @ - 1]

\* The catch: the reservation is taken back if it is the last.
Rollback(i) == IF nonce = tasks[i].next THEN tasks[i].previous ELSE nonce

\* The prompt is cancelled, or the submission fails or its answer is lost.
Failed(i) ==
    /\ tasks[i].phase \in {"signing", "submitting"}
    /\ tasks' = [tasks EXCEPT ![i] = Done(@)]
    /\ answers' = {a \in answers : a.digest # i}
    /\ nonce' = Rollback(i)
    /\ UNCHANGED <<page, fetches, committed, requests, foreign>>

---------------------------------------------------------------------------
(* The account. *)

\* The refresh button.
Refresh ==
    /\ wallet # NoWallet
    /\ epoch' = epoch
    /\ Fetch(wallet, FALSE, fetches)
    /\ UNCHANGED <<wallet, accountKey, nonce, history, stored, tasks, provers, chain>>

\* External: the mempool reads the account.
ReadAccount(f) ==
    /\ f.read = Unread
    /\ fetches' = (fetches \ {f}) \cup {[f EXCEPT !.read = committed[f.wallet]]}
    /\ UNCHANGED <<page, nonce, tasks, chain>>

\* An effect of an earlier wallet is cancelled; a refresh never is.
Cancelled(f) == f.effect /\ (f.epoch # epoch \/ wallet = NoWallet)

\* mergeLocalNonceState with what was fetched.
Fetched(f) ==
    /\ f.read # Unread
    /\ fetches' = fetches \ {f}
    /\ nonce' = IF Cancelled(f) THEN nonce ELSE mergeNonceStates(nonce, accountNonceState(f.read))
    /\ UNCHANGED <<page, tasks, chain>>

FetchFails(f) == fetches' = fetches \ {f} /\ UNCHANGED <<page, nonce, tasks, chain>>

\* clearSubmittedTransactionHistory.
Reset ==
    /\ wallet # NoWallet /\ history # <<>>
    /\ accountKey' = accountKey
    /\ Show(<<>>, provers)
    /\ UNCHANGED <<wallet, epoch, nonce, tasks, fetches, chain>>

---------------------------------------------------------------------------
(* Proofs of finalized transactions: fetchAndVerifyTransactionProof ends.  *)

ProofStep(p, proof, running) ==
    /\ accountKey' = accountKey
    /\ Show(updateTransactionProof(p.digest, proof, history), running)
    /\ UNCHANGED <<wallet, epoch, nonce, tasks, fetches, chain>>

Verified(p) == p.phase = "fetching" /\ ProofStep(p, "verified", provers \ {p})

\* An error that is not retried.
ProofError(p) == p.phase = "fetching" /\ ProofStep(p, "error", provers \ {p})

\* A retryable error, and the timer of one second.
Retry(p) == /\ p.phase = "fetching"
            /\ ProofStep(p, "fetching", (provers \ {p}) \cup {[p EXCEPT !.phase = "sleeping"]})
Wake(p) == p.phase = "sleeping" /\ ProofStep(p, "waiting", provers \ {p})

---------------------------------------------------------------------------
(* External: mempool and chain. *)

Answer(r, status) ==
    /\ requests' = requests \ {r}
    /\ answers' = answers \cup
           IF tasks[r.digest].phase = "submitting" THEN {[digest |-> r.digest, status |-> status]}
           ELSE {}
    /\ UNCHANGED <<page, nonce, tasks, fetches, foreign>>

Execute(r) ==
    IF CanConsume(committed[r.sender], r.nonce)
    THEN /\ committed' = [committed EXCEPT ![r.sender] = NextNonceState(@, r.nonce)]
         /\ Answer(r, "finalized")
    ELSE committed' = committed /\ Answer(r, "filtered")

DropRequest(r) == committed' = committed /\ Answer(r, "dropped")

\* The account is used from another device, within the window.
SpendElsewhere(w, d) ==
    /\ foreign < MaxForeign /\ foreign' = foreign + 1
    /\ CanConsume(committed[w], committed[w].base + d)
    /\ committed' = [committed EXCEPT ![w] = NextNonceState(@, @.base + d)]
    /\ UNCHANGED <<page, nonce, tasks, fetches, requests, answers>>

User == \/ \E w \in Wallets : SignIn(w)
        \/ SignOut \/ Reload \/ Refresh \/ Reset
        \/ \E i \in Submissions : Submit(i)

Next == \/ User \/ DeriveKey
        \/ \E i \in Submissions : Signed(i) \/ Answered(i) \/ Failed(i)
        \/ \E r \in requests : Execute(r) \/ DropRequest(r)
        \/ \E f \in fetches : ReadAccount(f) \/ Fetched(f) \/ FetchFails(f)
        \/ \E p \in provers : Verified(p) \/ ProofError(p) \/ Retry(p) \/ Wake(p)
        \/ \E w \in Wallets, d \in 0 .. Capacity : SpendElsewhere(w, d)

Spec == Init /\ [][Next]_vars

\* Provers that may exist.
Provers == [digest : Submissions, epoch : 1 .. MaxEpochs, phase : {"fetching", "sleeping"}]

---------------------------------------------------------------------------
(* Properties. *)

InFlight(i) == tasks[i].phase \in {"signing", "submitting"}

\* Every variable of the wallet has its type, and a verdict is for a call that waits.
WalletTypeOK ==
    /\ wallet \in Wallets \cup {NoWallet} /\ accountKey \in {wallet, NoWallet}
    /\ epoch \in 0 .. MaxEpochs /\ nonce \in NonceStates
    /\ committed \in [Wallets -> NonceStates]
    /\ \A a \in answers : InFlight(a.digest)
    /\ provers \subseteq Provers
    /\ \A h \in {history} \cup Range(stored) : Len(h) <= HistoryLimit

\* Two transfers of one signed-in session that are under way at the same
\* time never hold the same nonce, whatever fails, is fetched or is spent
\* elsewhere between (submitTransfer and its catch).
ReservationsDiffer ==
    \A i, j \in Submissions :
        (i # j /\ InFlight(i) /\ InFlight(j) /\ tasks[i].epoch = tasks[j].epoch)
            => tasks[i].nonce # tasks[j].nonce

\* What a wallet stores lists transactions of that wallet only, though
\* verdicts and proofs arrive after another wallet has signed in
\* (updateTransactionStatus, the effects on historyKey).
HistoryStaysHome ==
    \A w \in Wallets : \A k \in DOMAIN stored[w] : stored[w][k].sender = w

\* A transaction that is shown as being proved has a prover that will end, in
\* particular after the page was left while a proof was under way: otherwise it
\* would hold up every later one (normalizeTransactionProof, hasFetchingProof).
ProofsAreUnderWay ==
    \A k \in DOMAIN history : history[k].proof = "fetching" =>
        \E p \in provers : p.digest = history[k].digest

\* What a history shows is true of its wallet: its own transactions only, and
\* proofs that are really under way.
HistoryIsTrue == HistoryStaysHome /\ ProofsAreUnderWay
=============================================================================
