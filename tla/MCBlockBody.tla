----------------------------- MODULE MCBlockBody -----------------------------
(* Bodies for BlockBody: every kind of transaction alone, and a few together. *)
EXTENDS BlockBody

CONSTANTS Bytes, MaxTogether

Digests == {<<a, b, c, d, e>> : a \in Bytes, b \in Bytes, c \in {0}, d \in Bytes, e \in Bytes}
D == <<1, 2, 3, 4, 5>>

EdSig == [scheme |-> Ed25519, parses |-> TRUE, raw |-> TRUE, shown |-> D, auth |-> 0, client |-> 0,
          uv |-> FALSE, type |-> "none"]
Passkey == [EdSig EXCEPT !.scheme = Secp256r1, !.auth = AuthMin, !.client = 1, !.uv = TRUE, !.type = "webauthn.get"]
Tx(scheme, sig) == Write([len |-> 0, digest |-> D, value |-> 1,
                          key |-> [scheme |-> scheme, pad |-> 0, parses |-> TRUE], sig |-> sig])
Ed == Tx(Ed25519, EdSig)
P256 == Tx(Secp256r1, Passkey)

\* Transactions with one thing wrong.
Altered == {[Ed EXCEPT !.value = 0], [Ed EXCEPT !.len = @ + 1], [Ed EXCEPT !.len = @ - 1],
            [Ed EXCEPT !.key.pad = 1], [Ed EXCEPT !.key.parses = FALSE], [Ed EXCEPT !.key.scheme = 2],
            [Ed EXCEPT !.sig.raw = FALSE], [Ed EXCEPT !.sig.parses = FALSE], [Ed EXCEPT !.sig.shown = <<1, 2, 3, 4, 6>>],
            [P256 EXCEPT !.sig.uv = FALSE], [P256 EXCEPT !.sig.type = "webauthn.create"],
            [P256 EXCEPT !.sig.raw = FALSE], [P256 EXCEPT !.sig.parses = FALSE], [P256 EXCEPT !.key.parses = FALSE],
            Tx(Ed25519, Passkey), Tx(Secp256r1, EdSig), Tx(2, [EdSig EXCEPT !.scheme = 2])}

\* Assertions of every size, those too large included, and of lengths that lie.
Sized == {Tx(Secp256r1, [Passkey EXCEPT !.auth = a, !.client = c]) : a \in 0 .. AuthMax + 1, c \in 0 .. ClientMax + 1}
Lying == {[t EXCEPT !.len = @ + n] : t \in Sized, n \in {-2, -1, 1, 2}}

\* Assertions shown one digest and sent with another.
Shown == {[P256 EXCEPT !.digest = d, !.sig.shown = s] : d \in Digests, s \in Digests}

Together == {Ed, P256, [Ed EXCEPT !.value = 0], [P256 EXCEPT !.sig.raw = FALSE], [Ed EXCEPT !.key.parses = FALSE]}

MCBodies == {<<>>} \cup {<<t>> : t \in Altered \cup Sized \cup Lying \cup Shown}
              \cup UNION {[1 .. n -> Together] : n \in 1 .. MaxTogether}
=============================================================================
