------------------------------- MODULE Nonce -------------------------------
(***************************************************************************)
(* The life of one account: transactions with any nonce are executed in    *)
(* any order (Nonce::consume of crates/primitives/src/account.rs).         *)
(***************************************************************************)
EXTENDS NonceOps

VARIABLES
    nonce,       \* the account's Nonce
    accepted     \* history: every nonce consume() returned true for

nonceVars == <<nonce, accepted>>

NonceInit ==
    /\ nonce = EmptyNonce
    /\ accepted = {}

\* Nonce::consume when next_nonce_state returns Some.
Consume(n) ==
    /\ CanConsume(nonce, n)
    /\ nonce' = NextNonceState(nonce, n)
    /\ accepted' = accepted \cup {n}

\* Nonce::consume when it returns None: false, and the state is kept.
Refuse(n) ==
    /\ ~CanConsume(nonce, n)
    /\ UNCHANGED nonceVars

NonceNext == \E n \in U64 : Consume(n) \/ Refuse(n)

NonceSpec == NonceInit /\ [][NonceNext]_nonceVars

-----------------------------------------------------------------------------
\* base is a u64 and the bitmap has at most Capacity bits, at every boundary.
NonceTypeOK ==
    /\ nonce \in NonceStates
    /\ accepted \subseteq U64

\* No nonce is consumed twice: every step that changes the tracker accepts a
\* nonce that was never accepted before, whatever was compacted out of the
\* bitmap in between (replay protection of Nonce::consume).
NoReplay ==
    [][nonce' # nonce => \E n \in U64 : n \notin accepted /\ accepted' = accepted \cup {n}]_nonceVars

\* The base is "the next nonce that has not been consumed" although accounts
\* may run ahead of it, and it is tight: the nonce just below it was consumed.
BaseIsNext ==
    /\ nonce.base \notin accepted
    /\ nonce.base > 0 => nonce.base - 1 \in accepted

\* The bitmap holds exactly the accepted nonces past the base: compaction in
\* consume_current_nonce neither forgets a nonce nor invents one.
BitmapExact ==
    {nonce.base + d : d \in nonce.bitmap} = {n \in accepted : n > nonce.base}

\* consume() refuses a nonce only for a reason a user can see: it was used, it
\* is below the base, or it is u64::MAX.  In particular the checked_add of
\* consume_current_nonce never makes an account unable to use its base.
RefusesOnlySpent ==
    \A n \in U64 : CanConsume(nonce, n) <=> n >= nonce.base /\ n \notin accepted /\ n < MaxU64

\* The base never moves back, and an accepted nonce moves it past an unused one
\* only by a jump of more than Capacity.
SkipOnlyByJump ==
    [][/\ nonce'.base >= nonce.base
       /\ \A n \in nonce.base .. nonce'.base :
              n < nonce'.base /\ n \notin accepted' => nonce'.base > nonce.base + Capacity + 1]_nonceVars

=============================================================================
