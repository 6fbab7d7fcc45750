------------------------------ MODULE NonceOps ------------------------------
(***************************************************************************)
(* The run-ahead nonce tracker of one account                              *)
(* (crates/primitives/src/account.rs).                                     *)
(*                                                                         *)
(* An account remembers which transaction nonces it has consumed with a    *)
(* base, the next nonce in order, and a bitmap of the nonces after the     *)
(* base that were consumed out of order.  The bitmap is modelled as the    *)
(* set of distances from the base whose bit is set: bit i of the code is   *)
(* the distance i + 1.  Each definition named a mutant is a plausible      *)
(* error in the definition that follows it; no specification uses it.      *)
(***************************************************************************)
EXTENDS Naturals

CONSTANTS
    Capacity,    \* NONCE_BITMAP_CAPACITY, 64 in the code
    MaxU64       \* u64::MAX

ASSUME CapacityAssumption == Capacity \in Nat \ {0}
ASSUME MaxU64Assumption   == MaxU64 \in Nat

U64 == 0 .. MaxU64

NonceStates == [base : U64, bitmap : SUBSET (1 .. Capacity)]

\* Nonce::default.
EmptyNonce == [base |-> 0, bitmap |-> {}]

\* The loop of consume_current_nonce: one more than the number of
\* consecutive low bits that are set.
Advance(bitmap) ==
    CHOOSE a \in 1 .. Capacity + 1 :
        /\ a \notin bitmap
        /\ \A d \in 1 .. Capacity + 1 : d < a => d \in bitmap

\* base.checked_add(advance) and the shift of the bitmap.
ConsumeCurrentNonceOK(s) == s.base + Advance(s.bitmap) <= MaxU64

\* Mutant: compaction drops every run-ahead nonce.
ConsumeCurrentNonceForgets(s) == [base |-> s.base + Advance(s.bitmap), bitmap |-> {}]

ConsumeCurrentNonce(s) ==
    LET advance == Advance(s.bitmap)
    IN  [base   |-> s.base + advance,
         bitmap |-> IF advance >= Capacity
                    THEN {}
                    ELSE {d \in 1 .. Capacity : d + advance \in s.bitmap}]

\* Mutant: the bitmap is not consulted.
CanConsumeIgnoresBitmap(s, nonce) ==
    /\ nonce + 1 <= MaxU64
    /\ nonce >= s.base
    /\ nonce = s.base => ConsumeCurrentNonceOK(s)

\* next_nonce_state returns Some ...
CanConsume(s, nonce) ==
    /\ nonce + 1 <= MaxU64
    /\ nonce >= s.base
    /\ IF nonce = s.base
       THEN ConsumeCurrentNonceOK(s)
       ELSE nonce - s.base > Capacity \/ nonce - s.base \notin s.bitmap

\* Mutant: the last bit of the window is treated as beyond it.
NextNonceStateEarlyJump(s, nonce) ==
    IF nonce = s.base
    THEN ConsumeCurrentNonce(s)
    ELSE IF nonce - s.base >= Capacity
         THEN [base |-> nonce + 1, bitmap |-> {}]
         ELSE [s EXCEPT !.bitmap = @ \cup {nonce - s.base}]

\* ... and the state it returns.
NextNonceState(s, nonce) ==
    IF nonce = s.base
    THEN ConsumeCurrentNonce(s)
    ELSE IF nonce - s.base > Capacity
         THEN [base |-> nonce + 1, bitmap |-> {}]
         ELSE [s EXCEPT !.bitmap = @ \cup {nonce - s.base}]

=============================================================================
