---------------------------- MODULE AccountPage ----------------------------
(***************************************************************************)
(* The account page of the explorer (explorer/src/App.tsx, qmdb.ts) over   *)
(* the index while it is being written (IndexRows).  One effect proves the *)
(* account against the latest finalization, another fetches a page of its  *)
(* activity and proves each row; both run again when what they depend on   *)
(* changes, and drop the answers of the run before.  A user action and the *)
(* effects it triggers are one step, as React runs them.  A service may be *)
(* unreachable at any time; the numbers, keys and words of an error are    *)
(* left out, all but what tells the kinds apart.                           *)
(***************************************************************************)
EXTENDS IndexRows

CONSTANTS
    Modes,         \* of the activity page: "all", "sent", "received"
    PageSize,      \* ACCOUNT_PAGE_SIZE
    Attempts,      \* of retryAccountPageStep, 12 in the code
    Outages,       \* how a service that cannot be reached fails: a subset of Unreachable
    MaxProvers,    \* bounds: runs of each effect whose answers are under way
    MaxFetchers

VARIABLES
    lookup,        \* lookupAccount, NoKey for none
    mode,          \* accountActivityMode
    cursors,       \* accountCursorStack
    target,        \* accountTarget, a height; 0 for null
    proof,         \* accountProof
    page,          \* accountTransactions, accountNextCursor
    provers,       \* runs of the proof effect
    fetchers,      \* runs of the activity effect
    walk           \* history: rows indexed when the first page came, rows shown since

page_vars == <<lookup, mode, cursors, target, proof, page, provers, fetchers, walk>>

NoCursor == <<>>
Waiting == [status |-> "waiting"]
NoPage == [rows |-> <<>>, next |-> NoCursor, loaded |-> FALSE, error |-> FALSE]

PageInit == /\ Init
            /\ lookup = NoKey /\ mode = "all" /\ cursors = <<NoCursor>> /\ target = 0
            /\ proof = Waiting /\ page = NoPage
            /\ provers = {} /\ fetchers = {} /\ walk = [known |-> {}, shown |-> {}]

---------------------------------------------------------------------------
(* Effects. *)

Abort(tasks) == {[t EXCEPT !.aborted = TRUE] : t \in tasks}

\* The effect on [lookupAccount].
ProofEffect ==
    /\ Cardinality(provers) < MaxProvers
    /\ target' = 0
    /\ proof' = IF lookup' = NoKey THEN Waiting ELSE [status |-> "fetching"]
    /\ provers' = Abort(provers) \cup
           IF lookup' = NoKey THEN {}
           ELSE {[aborted |-> FALSE, account |-> lookup', attempt |-> 1, at |-> 0, row |-> <<>>]}

\* The effect on [lookupAccount, currentAccountCursor, accountActivityMode, accountTarget].
ActivityEffect ==
    /\ Cardinality(fetchers) < MaxFetchers
    /\ page' = NoPage
    /\ fetchers' = Abort(fetchers) \cup
           IF lookup' = NoKey THEN {}
           ELSE {[aborted |-> FALSE, account |-> lookup', mode |-> mode', cursor |-> Last(cursors'),
                  target |-> target', rows |-> <<>>, fetched |-> FALSE]}

---------------------------------------------------------------------------
(* What the user does. *)

\* openAccountPage, clearAccountLookup and the browser's back button.
Open(a) == /\ lookup' = a /\ lookup # a
           /\ cursors' = <<NoCursor>> /\ mode' = mode
           /\ ProofEffect /\ ActivityEffect
           /\ UNCHANGED <<vars, walk>>

\* Paging leaves target and proof alone.
Turn == /\ lookup' = lookup /\ target' = target
        /\ ActivityEffect
        /\ UNCHANGED <<vars, proof, provers, walk>>

NextPage == /\ page.next # NoCursor
            /\ cursors' = Append(cursors, page.next) /\ mode' = mode
            /\ Turn

PreviousPage == /\ Len(cursors) > 1
                /\ cursors' = Front(cursors) /\ mode' = mode
                /\ Turn

\* openAccountPage for the account that is open.
Reopen == /\ lookup # NoKey /\ Len(cursors) > 1
          /\ cursors' = <<NoCursor>> /\ mode' = mode
          /\ Turn

\* changeAccountActivityMode.
ChangeMode(m) == /\ m # mode /\ lookup # NoKey
                 /\ mode' = m /\ cursors' = <<NoCursor>>
                 /\ Turn

---------------------------------------------------------------------------
(* Errors, and which of them are tried again. *)

Error(detail, attempt) == [status |-> "error", detail |-> detail, attempt |-> attempt]

\* The index is behind the Store or the Store behind the index.
CatchUp == {"finalization_missing", "state_range", "out_of_range", "tx_missing"}
\* A service that cannot be reached: Connect's [unavailable], or any other failure.
Unreachable == {"unavailable", "network"}

\* Only what a service itself says is tried again.
IsRetryableServiceError(detail) == detail \in {"out_of_range", "unavailable"}
IsRetryableAccountProofError(detail) == detail \in CatchUp \cup {"unavailable"}

\* retryAccountPageStep goes round its loop again.
Again(detail, attempt, aborted) ==
    IsRetryableAccountProofError(detail) /\ attempt < Attempts /\ ~aborted

---------------------------------------------------------------------------
(* The account's proof: target, row and proof are read one after another.  *)

StateRange(h) == chain[h].state_range

InStateRange(location, h) == StateRange(h).start <= location /\ location < StateRange(h).end

\* getFixedUnorderedUpdate: the server has the log up to the watermark, and the
\* browser accepts the operation that the root of the target holds there.
StateProof(location, h) ==
    IF h > mark THEN "out_of_range"
    ELSE IF location >= StateRange(h).end THEN "root_mismatch" ELSE "proven"

\* A run whose answer is kept after another run has started.
KeptAlways(t) == TRUE
Kept(t) == ~t.aborted

\* The setters of a run that has ended: nothing if it was aborted.
ProofEnds(t, state, height) ==
    /\ provers' = provers \ {t}
    /\ IF Kept(t)
       THEN /\ proof' = state /\ target' = height
            /\ lookup' = lookup /\ mode' = mode /\ cursors' = cursors
            /\ IF height # target THEN ActivityEffect ELSE UNCHANGED <<page, fetchers>>
       ELSE UNCHANGED <<lookup, mode, cursors, target, proof, page, fetchers>>
    /\ UNCHANGED <<vars, walk>>

\* The step of run t throws: it starts over or is shown as an error.
Fails(t, detail) ==
    IF Again(detail, t.attempt, t.aborted)
    THEN /\ provers' = (provers \ {t}) \cup {[t EXCEPT !.attempt = @ + 1, !.at = 0, !.row = <<>>]}
         /\ UNCHANGED <<vars, lookup, mode, cursors, target, proof, page, fetchers, walk>>
    ELSE ProofEnds(t, Error(detail, t.attempt), target)

\* Whichever request of the run is under way.
ProofUnreachable(t) == \E detail \in Outages : Fails(t, detail)

FetchTarget(t) ==
    /\ t.at = 0
    /\ IF LatestHeight = {} THEN Fails(t, "finalization_missing")
       ELSE /\ provers' = (provers \ {t}) \cup {[t EXCEPT !.at = Max(LatestHeight)]}
            /\ UNCHANGED <<vars, lookup, mode, cursors, target, proof, page, fetchers, walk>>

\* fetchAccountProofRow and the check of its location; no row is no error.
FetchRow(t) ==
    /\ t.at # 0 /\ t.row = <<>>
    /\ IF t.account \notin DOMAIN tables.account_meta
       THEN ProofEnds(t, [status |-> "missing"], t.at)
       ELSE LET row == tables.account_meta[t.account]
            IN IF ~InStateRange(row.qmdb_location, t.at) THEN Fails(t, "state_range")
               ELSE /\ provers' = (provers \ {t}) \cup {[t EXCEPT !.row = <<row>>]}
                    /\ UNCHANGED <<vars, lookup, mode, cursors, target, proof, page, fetchers, walk>>

FetchProof(t) ==
    /\ t.row # <<>>
    /\ LET row    == Head(t.row)
           answer == StateProof(row.qmdb_location, t.at)
       IN IF answer # "proven" THEN Fails(t, answer)
          ELSE IF stateLog[row.qmdb_location + 1] # Update(t.account, row.state)
          THEN Fails(t, "value_mismatch")
          ELSE ProofEnds(t, [status |-> "verified", account |-> t.account, height |-> t.at,
                             row |-> row], t.at)

---------------------------------------------------------------------------
(* The activity page. *)

\* ORDER BY height, index, role, all descending.
Before(k, l) == \/ k[2] > l[2]
                \/ k[2] = l[2] /\ k[3] > l[3]
                \/ k[2] = l[2] /\ k[3] = l[3] /\ k[4] > l[4]

ModeRole(m) == CASE m = "all" -> {0, 1} [] m = "sent" -> {0} [] m = "received" -> {1}

\* A cursor that only knows the height.
PastCursorByHeight(k, cursor) == cursor = NoCursor \/ k[2] < cursor[2]
\* activityCursorPredicate.
PastCursor(k, cursor) == cursor = NoCursor \/ Before(cursor, k)

Activity(a, m) == {k \in DOMAIN tables.tx_activity : k[1] = a /\ k[4] \in ModeRole(m)}

\* fetchAccountActivityRows without the limit.
ActivityRowsFor(a, m, cursor) ==
    SetToSortSeq({k \in Activity(a, m) : PastCursor(k, cursor)}, Before)

\* fetchAccountTransactionsPage reads one row more than it shows.
PageOf(rows, status) ==
    LET visible == SubSeq(rows, 1, Min({PageSize, Len(rows)}))
    IN [rows |-> [i \in DOMAIN visible |-> [key |-> visible[i], proof |-> [status |-> status]]],
        next |-> IF Len(rows) > PageSize THEN Last(visible) ELSE NoCursor,
        loaded |-> TRUE, error |-> FALSE]

FetchPage(t) ==
    /\ ~t.fetched
    /\ LET rows == ActivityRowsFor(t.account, t.mode, t.cursor)
           new  == PageOf(rows, IF t.target = 0 THEN "waiting" ELSE "fetching")
       IN IF Kept(t)
          THEN /\ page' = new
               /\ fetchers' = (fetchers \ {t}) \cup
                      IF t.target = 0 THEN {}
                      ELSE {[t EXCEPT !.fetched = TRUE,
                                      !.rows = [i \in DOMAIN new.rows |->
                                          [key |-> new.rows[i].key, attempt |-> 1, result |-> <<>>]]]}
               /\ walk' = [known |-> IF t.cursor = NoCursor THEN Range(rows) ELSE walk.known,
                           shown |-> {r.key : r \in Range(new.rows)}
                                       \cup IF t.cursor = NoCursor THEN {} ELSE walk.shown]
          ELSE /\ fetchers' = fetchers \ {t}
               /\ UNCHANGED <<page, walk>>
    /\ UNCHANGED <<vars, lookup, mode, cursors, target, proof, provers>>

\* The catch of the effect: no rows, and accountActivityError.
FetchPageFails(t) ==
    /\ ~t.fetched /\ Outages # {}
    /\ fetchers' = fetchers \ {t}
    /\ page' = IF Kept(t) THEN [NoPage EXCEPT !.error = TRUE] ELSE page
    /\ UNCHANGED <<vars, lookup, mode, cursors, target, proof, provers, walk>>

\* fetchAndVerifyTransactionRowProof, against the end of the target's range.
RowProof(key, h) ==
    LET digest == tables.tx_activity[key].digest
    IN IF digest \notin DOMAIN tables.tx_meta THEN "tx_missing"
       ELSE IF tables.tx_meta[digest].qmdb_location >= TransactionsEnd(h) THEN "transaction_range"
       ELSE IF h > mark THEN "out_of_range" ELSE "verified"

\* One try at the proof of row i; the rows are tried side by side.  To abort a
\* run ends its requests.
TryRow(t, i) ==
    /\ t.fetched /\ ~t.aborted /\ t.rows[i].result = <<>>
    /\ LET row == t.rows[i]
       IN \E answer \in {RowProof(row.key, t.target)} \cup Outages :
              fetchers' = (fetchers \ {t}) \cup
                  {[t EXCEPT !.rows[i] =
                      IF answer = "verified"
                      THEN [row EXCEPT !.result = <<[status |-> "verified", key |-> row.key, height |-> t.target]>>]
                      ELSE IF Again(answer, row.attempt, t.aborted) THEN [row EXCEPT !.attempt = @ + 1]
                      ELSE [row EXCEPT !.result = <<Error(answer, row.attempt)>>]]}
    /\ UNCHANGED <<vars, lookup, mode, cursors, target, proof, page, provers, walk>>

\* Promise.allSettled: the results are put next to the rows by their positions.
ShowRows(t) ==
    /\ t.fetched
    /\ t.aborted \/ \A i \in DOMAIN t.rows : t.rows[i].result # <<>>
    /\ fetchers' = fetchers \ {t}
    /\ page' = IF Kept(t)
               THEN [page EXCEPT !.rows = [i \in DOMAIN page.rows |->
                        IF i \in DOMAIN t.rows /\ t.rows[i].result # <<>>
                        THEN [page.rows[i] EXCEPT !.proof = Head(t.rows[i].result)]
                        ELSE page.rows[i]]]
               ELSE page
    /\ UNCHANGED <<vars, lookup, mode, cursors, target, proof, provers, walk>>

PageSteps == \/ \E a \in Accounts \cup {NoKey} : Open(a)
             \/ \E m \in Modes : ChangeMode(m)
             \/ NextPage \/ PreviousPage \/ Reopen
             \/ \E t \in provers : FetchTarget(t) \/ FetchRow(t) \/ FetchProof(t) \/ ProofUnreachable(t)
             \/ \E t \in fetchers : FetchPage(t) \/ FetchPageFails(t) \/ ShowRows(t)
                                      \/ \E i \in DOMAIN t.rows : TryRow(t, i)

Next == (IndexSteps /\ UNCHANGED page_vars) \/ PageSteps

PageSpec == PageInit /\ [][Next]_<<vars, page_vars>>

---------------------------------------------------------------------------
(* Properties. *)

\* What the page shows belongs to the account, the direction and the position
\* that are selected now, in whatever order the answers of earlier selections
\* arrive: the rows, the proof of the account, and next to each row a proof of
\* that row, both for the target that is shown.
PageIsOfSelection ==
    /\ \A r \in Range(page.rows) : /\ r.key \in Activity(lookup, mode)
                                  /\ PastCursor(r.key, Last(cursors))
                                  /\ r.proof.status = "verified" => /\ r.proof.key = r.key
                                                                    /\ r.proof.height = target
    /\ proof.status = "verified" => proof.account = lookup /\ proof.height = target

\* A reader who turns pages to the end has been shown every transfer that was
\* indexed when the first page came, while batches of blocks keep being written
\* and pages are fetched again when the target arrives.
NothingIsSkipped == page.loaded /\ page.next = NoCursor => walk.known \subseteq walk.shown

\* However far the rows, the certificates and the published logs are from each
\* other, an error is never a proof that was refused: it is shown because the
\* index was behind at every one of the attempts, because a service could not be
\* reached, or, next to a row, because the row is newer than the target.  (No row
\* of the account yet is no error: it is shown as missing, and not tried again.)
ErrorsHaveReasons ==
    LET tried(e) == e.attempt = Attempts /\ e.detail \in CatchUp
    IN /\ proof.status = "error" => tried(proof) \/ proof.detail \in Unreachable
       /\ \A r \in Range(page.rows) :
              r.proof.status = "error" =>
                  \/ tried(r.proof) \/ r.proof.detail \in Unreachable
                  \/ r.proof.detail = "transaction_range" /\ r.key[2] > target
=============================================================================
