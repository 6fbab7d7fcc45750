---------------------------- MODULE NodeRelayer ----------------------------
(***************************************************************************)
(* The relayer next to the other parts of a validator: module Relayer with *)
(* names of its own for its state and bounds.                              *)
(***************************************************************************)
CONSTANTS Leaders, Txs, MaxRetryViews, PinnedRetries, Ahead, RelayHeight

VARIABLES view, valid, relay, seen, retry, attempts, sends, merged, included, height, accepted, refused,
          answer, known, final, chainHead

relayVars == <<view, valid, relay, seen, retry, attempts, sends, merged, included, height, accepted,
               refused, answer, known, final, chainHead>>

R == INSTANCE Relayer WITH phase <- relay, status <- known, head <- chainHead, MaxHeight <- RelayHeight

\* Relayer: what the client is told to be included is finalized at that height.
AnswerIsTrue == R!AnswerIsTrue

=============================================================================
