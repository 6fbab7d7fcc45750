---------------------------- MODULE NodeUploader ----------------------------
(***************************************************************************)
(* The certificate uploader next to the other parts of a validator: module *)
(* Certificates with names of its own for its state and bounds.            *)
(***************************************************************************)
CONSTANTS Final, Forks, Channel, MaxReports

VARIABLES reports, sending, inbox, entries, working, byDigest, notarized, finalizedBy

uploaderVars == <<reports, sending, inbox, entries, working, byDigest, notarized, finalizedBy>>

C == INSTANCE Certificates WITH pending <- entries, blocks <- byDigest, Buffer <- Channel

\* Certificates: a certificate is found with its block, and written once it can be.
CertificatesPaired == C!CertificatesPaired

=============================================================================
