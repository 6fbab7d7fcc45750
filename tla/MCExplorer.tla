----------------------------- MODULE MCExplorer -----------------------------
(***************************************************************************)
(* Instances of what users of the explorer depend on, for TLC: the rows of *)
(* the index (IndexRows), the account page over them (AccountPage) and the *)
(* wallet (Wallet), the last two with bounds for each of their questions.  *)
(* A behavior is of one part, and the variables of the others stay as they *)
(* are initially.                                                          *)
(***************************************************************************)
EXTENDS Naturals, TLC

CONSTANTS NoKey, MaxHeight, Window, a, b, NoWallet

VARIABLES part,
          chain, accounts, stateLog, floor, tables, mark, certified,
          lookup, mode, cursors, target, proof, page, provers, fetchers, walk,
          wallet, accountKey, epoch, nonce, history, stored, tasks, fetches, proving, committed,
          requests, answers, foreign

page_vars == <<lookup, mode, cursors, target, proof, page, provers, fetchers, walk>>
rowVars == <<chain, accounts, stateLog, floor, tables, mark, certified, page_vars>>
walletVars == <<wallet, accountKey, epoch, nonce, history, stored, tasks, fetches, proving,
                committed, requests, answers, foreign>>

Transfer(from, to, n) == [sender |-> from, recipient |-> to, value |-> 1, nonce |-> n]
Signed(t, sig) == [message |-> t, signature |-> sig]

\* Two signatures of one message, a transfer to oneself, an unknown sender and
\* a transaction without value.
SignedPool == {Signed(Transfer(1, 2, 0), "a"), Signed(Transfer(1, 2, 0), "b"),
               Signed(Transfer(2, 2, 0), "a"), Signed(Transfer(2, 1, 1), "a"),
               Signed(Transfer(3, 1, 0), "a"), Signed(Transfer(NoKey, 1, 0), "a"),
               Signed([Transfer(1, 3, 1) EXCEPT !.value = 0], "a")}
UpToTwo == UNION {[1..n -> SignedPool] : n \in 0..2}

\* The second body executes after the first: its nonce is out of reach before.
TwoBodies == {<<Signed(Transfer(1, 2, 0), "a"), Signed(Transfer(1, 2, 1), "a")>>,
              <<Signed(Transfer(1, 2, 3), "a")>>}
Singles == {<<Signed(Transfer(1, 2, 0), "a")>>, <<Signed(Transfer(1, 2, 3), "a")>>}

\* Every kind of transaction.
I == INSTANCE IndexRows WITH Capacity <- 2, MaxU64 <- 6, DefaultBalance <- 2, Accounts <- 1..3,
         Bodies <- UpToTwo, Raises <- BOOLEAN
\* Pages of one row that are turned while answers are under way.
T == INSTANCE AccountPage WITH Capacity <- 2, MaxU64 <- 8, DefaultBalance <- 3,
         Accounts <- {1, 2}, Bodies <- TwoBodies, Raises <- {FALSE},
         Modes <- {"sent"}, PageSize <- 1, Attempts <- 1, Outages <- {}, MaxProvers <- 1, MaxFetchers <- 2
\* Proofs that are retried while the index catches up.
V == INSTANCE AccountPage WITH Capacity <- 2, MaxU64 <- 8, DefaultBalance <- 3,
         Accounts <- {1, 2}, Bodies <- Singles, Raises <- {TRUE},
         Modes <- {"all"}, PageSize <- 4, Attempts <- 2, Outages <- {"unavailable", "network"},
         MaxProvers <- 2, MaxFetchers <- 1

\* Several transfers of one session.
S == INSTANCE Wallet WITH Capacity <- 3, MaxU64 <- 9, Precision <- 2, provers <- proving,
         Wallets <- {a}, HistoryLimit <- 0, MaxSubmissions <- 3, MaxEpochs <- 1,
         MaxFetches <- 1, MaxForeign <- 1
\* Two wallets that sign in one after the other.
H == INSTANCE Wallet WITH Capacity <- 3, MaxU64 <- 9, Precision <- 2, provers <- proving,
         Wallets <- {a, b}, HistoryLimit <- 2, MaxSubmissions <- 2, MaxEpochs <- 3,
         MaxFetches <- 0, MaxForeign <- 0

MCInit == /\ T!PageInit
          /\ part \in {"rows", "turning", "proving", "transfers", "histories"}
          /\ IF part = "histories" THEN H!Init ELSE S!Init

MCNext == /\ UNCHANGED part
          /\ \/ part = "rows" /\ I!IndexSteps /\ UNCHANGED <<page_vars, walletVars>>
             \/ part = "turning" /\ T!Next /\ UNCHANGED walletVars
             \/ part = "proving" /\ V!Next /\ UNCHANGED walletVars
             \/ part = "transfers" /\ S!Next /\ UNCHANGED rowVars
             \/ part = "histories" /\ H!Next /\ UNCHANGED rowVars

MCSpec == MCInit /\ [][MCNext]_<<part, rowVars, walletVars>>

---------------------------------------------------------------------------
(* The properties of the parts, which their modules explain. *)

\* IndexRows: what a reader looks up is what was finalized.
RowsAreTrue == part = "rows" => I!RowsAreTrue

\* AccountPage: all that is shown belongs to what is selected, and an index that
\* is catching up is shown as an error only after it was behind at every attempt.
PageIsTrue == /\ part = "turning" => T!PageIsOfSelection /\ T!ErrorsHaveReasons
              /\ part = "proving" => V!PageIsOfSelection /\ V!ErrorsHaveReasons

\* AccountPage: who turns all pages has seen every transfer of the first look.
NothingIsSkipped == T!NothingIsSkipped

\* Wallet: transfers under way in one session hold different nonces.
ReservationsDiffer == part = "transfers" => S!ReservationsDiffer

\* Wallet: a stored history is of its wallet, and shown proofs are under way.
HistoryIsTrue == part = "histories" => H!HistoryIsTrue
=============================================================================
