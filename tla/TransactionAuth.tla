--------------------------- MODULE TransactionAuth ---------------------------
(***************************************************************************)
(* Reading, writing and authenticating signed transactions                 *)
(* (crates/primitives/src/{auth,signed,transaction,block}.rs).             *)
(*                                                                         *)
(* An encoded transaction is a record of what its bytes say:               *)
(*   len     bytes of the transaction with its signature,                  *)
(*   digest  hash of the transaction, a sequence of bytes,                 *)
(*   value   amount,                                                       *)
(*   key     sender: [scheme, pad, parses], pad is the byte after the key, *)
(*   sig     [scheme, parses, raw, shown, auth, client, uv, type].         *)
(* raw says that the holder of key made the signature over what comes with *)
(* it, shown is the digest the signer was shown.  A passkey assertion has  *)
(* auth and client bytes of data, the flag "user verified" and a type, and *)
(* its challenge is the base64url text of shown, written by a browser.     *)
(* Sizes are constants, so that limits can be met and passed.              *)
(***************************************************************************)
EXTENDS Integers, Sequences, SequencesExt

CONSTANTS
    TxSize,      \* Transaction::SIZE
    SigSize,     \* 1 + SIGNATURE_BYTES
    LenSize,     \* u16::SIZE
    AuthMin,     \* bytes an authenticator sends at least
    AuthMax, ClientMax   \* WEBAUTHN_AUTHENTICATOR_DATA_BYTES, WEBAUTHN_CLIENT_DATA_JSON_BYTES

Ed25519 == 0
Secp256r1 == 1

---------------------------------------------------------------------------
(* Keys and signatures. *)

\* TransactionPublicKey::read_cfg.
ReadPublicKey(key) == \/ key.scheme = Ed25519 /\ key.pad = 0 /\ key.parses
                      \/ key.scheme = Secp256r1 /\ key.parses

\* AccountKey::from_public_key_bytes reads the scheme and no more.
DerivesAccount(key) == key.scheme \in {Ed25519, Secp256r1}

\* TransactionSignature::secp256r1 refuses data that would not be read.
CanBuild(sig) == sig.scheme = Secp256r1 => sig.auth <= AuthMax /\ sig.client <= ClientMax

MinSize == SigSize
MaxSize == SigSize + LenSize + AuthMax + LenSize + ClientMax

\* encode_size of a signature.
SignatureLen(sig) == IF sig.scheme = Ed25519 THEN SigSize
                     ELSE SigSize + LenSize + sig.auth + LenSize + sig.client

\* TransactionSignature::read_cfg on what remains: the bytes taken, if it succeeds.
ReadSignature(sig, remaining) ==
    LET afterSig  == remaining - SigSize
        afterAuth == afterSig - LenSize - sig.auth
        ed   == sig.scheme = Ed25519 /\ sig.parses
        p256 == /\ sig.scheme = Secp256r1 /\ sig.parses
                /\ afterSig >= LenSize /\ sig.auth <= AuthMax
                /\ afterAuth >= LenSize /\ sig.client <= ClientMax
                /\ afterAuth - LenSize >= sig.client
    IN IF remaining >= SigSize /\ (ed \/ p256) THEN {SignatureLen(sig)} ELSE {}

---------------------------------------------------------------------------
(* Transactions and bodies. *)

\* Transaction::read_cfg; the key stays encoded.
ReadTransaction(tx) == tx.value > 0

\* SignedTransaction::decode: both parts, and nothing left over.
Decode(tx) == ReadTransaction(tx) /\ tx.len - TxSize \in ReadSignature(tx.sig, tx.len - TxSize)

\* LazySignedTransaction::read_cfg looks at the length only.
ReadLazy(tx) == tx.len \in TxSize + MinSize .. TxSize + MaxSize

\* LazySignedTransaction::write of a transaction that was built here.
Write(tx) == [tx EXCEPT !.len = TxSize + SignatureLen(tx.sig)]

\* Block::read_cfg.
ReadBlock(body) == \A i \in DOMAIN body : ReadLazy(body[i])

---------------------------------------------------------------------------
(* base64_url_no_pad: characters are their places in the alphabet. *)

Chunk3(bytes, k) == SubSeq(bytes, 3 * k + 1, IF 3 * k + 3 < Len(bytes) THEN 3 * k + 3 ELSE Len(bytes))

Base64Chunk(chunk) ==
    LET first  == chunk[1]
        second == IF Len(chunk) > 1 THEN chunk[2] ELSE 0
        third  == IF Len(chunk) > 2 THEN chunk[3] ELSE 0
    IN SubSeq(<<first \div 4, (first % 4) * 16 + second \div 16,
                (second % 16) * 4 + third \div 64, third % 64>>, 1, Len(chunk) + 1)

Base64UrlNoPad(bytes) == FlattenSeq([k \in 1 .. (Len(bytes) + 2) \div 3 |-> Base64Chunk(Chunk3(bytes, k - 1))])

\* What a browser writes: the bits of the bytes, six at a time, zeros after the last.
Base64Url(bytes) ==
    LET bit(j) == IF j \div 8 < Len(bytes) THEN (bytes[(j \div 8) + 1] \div 2^(7 - (j % 8))) % 2 ELSE 0
    IN [c \in 1 .. (8 * Len(bytes) + 5) \div 6 |->
            LET j == 6 * (c - 1)
            IN 32 * bit(j) + 16 * bit(j + 1) + 8 * bit(j + 2) + 4 * bit(j + 3) + 2 * bit(j + 4) + bit(j + 5)]

---------------------------------------------------------------------------
(* Verification. *)

\* verify_webauthn_assertion.
VerifyAssertion(tx) ==
    /\ tx.sig.auth >= AuthMin /\ tx.sig.uv
    /\ tx.sig.type = "webauthn.get"
    /\ Base64Url(tx.sig.shown) = Base64UrlNoPad(tx.digest)
    /\ tx.sig.raw

\* TransactionBatchVerifier::add queues by scheme, if key and signature have the same.
Add(tx) == tx.key.scheme = tx.sig.scheme

\* Passkeys are left to the batch of the other scheme.
VerifyQueuedEd25519(txs) == \A tx \in txs : tx.sig.scheme = Ed25519 => tx.sig.raw /\ tx.sig.shown = tx.digest
\* TransactionBatchVerifier::verify, one scheme after the other.
VerifyQueued(txs) ==
    /\ \A tx \in txs : tx.sig.scheme = Ed25519 => tx.sig.raw /\ tx.sig.shown = tx.digest
    /\ \A tx \in txs : tx.sig.scheme = Secp256r1 => VerifyAssertion(tx)

\* verify_transaction_batch.
VerifyTransactionBatch(body) ==
    /\ \A i \in DOMAIN body : Decode(body[i]) /\ ReadPublicKey(body[i].key) /\ Add(body[i])
    /\ VerifyQueued(Range(body))

\* signature_inputs_decode, of a transaction that was decoded.
SignatureInputsDecode(tx) == ReadPublicKey(tx.key)

\* verify_transaction_chunks: the answer, whatever the strategies.
VerifyTransactionChunks(body) ==
    /\ \A i \in DOMAIN body : Decode(body[i]) /\ SignatureInputsDecode(body[i])
    /\ VerifyTransactionBatch(body)

---------------------------------------------------------------------------
\* What a client may send: it fits, its sender has a key, and the holder of the
\* key was shown this transaction and agreed, on a device that checked who asks.
Genuine(tx) ==
    /\ tx.value > 0 /\ tx.key.parses
    /\ tx.key.scheme \in {Ed25519, Secp256r1} /\ tx.sig.scheme = tx.key.scheme
    /\ tx.key.scheme = Ed25519 => tx.key.pad = 0
    /\ tx.sig.parses /\ tx.sig.raw /\ tx.sig.shown = tx.digest
    /\ CanBuild(tx.sig) /\ tx.len = Write(tx).len
    /\ tx.sig.scheme = Secp256r1 =>
           tx.sig.auth >= AuthMin /\ tx.sig.uv /\ tx.sig.type = "webauthn.get"
=============================================================================
