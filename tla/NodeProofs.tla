----------------------------- MODULE NodeProofs -----------------------------
(***************************************************************************)
(* Proofs about the parts of a validator that stand alone: Startup,        *)
(* Relayer and Certificates, for every number of validators, leaders,      *)
(* transactions and digests, and every number of crashes.                  *)
(***************************************************************************)
EXTENDS Startup, NodeUploader, NodeRelayer, WellFoundedInduction, TLAPS

\* A leaf that names no prover is given to these, one after the other.
USE SMT, Z3, Zenon

\* The larger of two numbers.
LEMMA MaxOfTwo ==
    ASSUME NEW a \in Int, NEW b \in Int
    PROVE  Max({a, b}) = IF a >= b THEN a ELSE b
<1> DEFINE m == IF a >= b THEN a ELSE b
<1>1. m \in {a, b} /\ \A y \in {a, b} : m >= y
    OBVIOUS
<1>2. \A x \in {a, b} : (\A y \in {a, b} : x >= y) => x = m
    OBVIOUS
<1> QED
    BY <1>1, <1>2 DEF Max

\* The smaller of two numbers.
LEMMA MinOfTwo ==
    ASSUME NEW a \in Int, NEW b \in Int
    PROVE  Min({a, b}) = IF a <= b THEN a ELSE b
<1> DEFINE m == IF a <= b THEN a ELSE b
<1>1. m \in {a, b} /\ \A y \in {a, b} : m <= y
    OBVIOUS
<1>2. \A x \in {a, b} : (\A y \in {a, b} : x <= y) => x = m
    OBVIOUS
<1> QED
    BY <1>1, <1>2 DEF Min

-----------------------------------------------------------------------------
(* Startup. *)

\* The types of what a node has, in memory and on disk.
NodeMaps ==
    /\ phase \in [Nodes -> {"off", "probing", "starting", "syncing", "running"}]
    /\ step \in [Nodes -> {"idle", "hook", "prune", "pruneState", "ack"}]
    /\ probed \in [Nodes -> Nat] /\ floor \in [Nodes -> Nat] /\ delivered \in [Nodes -> Nat]
    /\ prevEnd \in [Nodes -> Nat] /\ target \in [Nodes -> Nat]
    /\ archived \in [Nodes -> Nat] /\ archiveLow \in [Nodes -> Nat] /\ synced \in [Nodes -> BOOLEAN]
    /\ applied \in [Nodes -> Nat] /\ captured \in [Nodes -> Nat] /\ acked \in [Nodes -> Nat]
    /\ pruned \in [Nodes -> Nat]

\* A node goes through a block in order: it is acknowledged after it was applied,
\* and applied after it was delivered from the archive.  The hook of a node that
\* indexes has run before anything is pruned, so that its state is pruned only below
\* what was captured; archives are pruned only below what was acknowledged.
NodeInv(n) ==
    /\ probed[n] <= head /\ floor[n] <= head /\ archived[n] <= head /\ captured[n] <= head
    /\ acked[n] <= applied[n] /\ applied[n] <= delivered[n] /\ delivered[n] <= archived[n]
    /\ delivered[n] <= acked[n] + 1
    /\ archiveLow[n] <= acked[n]
    /\ n \in Indexers /\ step[n] \in {"prune", "pruneState", "ack"} => applied[n] <= captured[n]
    /\ n \in Indexers => pruned[n] <= StateEnd(captured[n])
    /\ pruned[n] <= StateEnd(head)
    /\ prevEnd[n] <= StateEnd(head)

StartupInv == head \in 0 .. MaxHeight /\ NodeMaps /\ \A n \in Nodes : NodeInv(n)

\* What is next after each step.
LEMMA StepsInOrder ==
    /\ StepAfter("hook") = "prune" /\ StepAfter("pruneState") = "ack" /\ Steps[1] = "hook"
<1>1. \A i \in 1 .. 3 : Steps[i] = "hook" <=> i = 1
    BY DEF Steps
<1>2. \A i \in 1 .. 3 : Steps[i] = "pruneState" <=> i = 3
    BY DEF Steps
<1>3. (CHOOSE i \in 1 .. 3 : Steps[i] = "hook") = 1
    BY <1>1
<1>4. (CHOOSE i \in 1 .. 3 : Steps[i] = "pruneState") = 3
    BY <1>2
<1> QED
    BY <1>3, <1>4 DEF StepAfter, Steps

\* The invariant holds before anybody starts.
LEMMA StartupInitial == Init => StartupInv
    BY StartupAssumption DEF Init, StartupInv, NodeMaps, NodeInv, StateEnd

\* Every step of a node, of the chain and of a crash keeps it.
LEMMA StartupStep == StartupInv /\ [Next]_vars => StartupInv'
<1> SUFFICES ASSUME StartupInv, [Next]_vars
             PROVE  StartupInv'
    OBVIOUS
<1> USE StartupAssumption DEF StartupInv
<1>1. CASE FinalizeBlock
    BY <1>1 DEF FinalizeBlock, memory, disk, NodeMaps, NodeInv, StateEnd
<1>2. ASSUME NEW n \in Nodes, SelectStartup(n)
      PROVE  StartupInv'
    BY <1>2 DEF SelectStartup, StartBy, disk, NodeMaps, NodeInv, StateEnd
<1>3. ASSUME NEW n \in Nodes, NEW m \in Nodes, Probe(n, m)
      PROVE  StartupInv'
  <2> DEFINE x == Max({archived[m], floor[m]})
  <2>1. archived[m] \in Int /\ floor[m] \in Int
    BY DEF NodeMaps
  <2>2. x = IF archived[m] >= floor[m] THEN archived[m] ELSE floor[m]
    BY <2>1, MaxOfTwo, Zenon
  <2>3. x \in Nat /\ x <= head
    BY <2>2 DEF NodeMaps, NodeInv
  <2>4. /\ probed' = [probed EXCEPT ![n] = x] /\ phase' = [phase EXCEPT ![n] = "starting"]
        /\ UNCHANGED <<head, floor, step, delivered, prevEnd, target, disk>>
    BY <1>3 DEF Probe
  <2> HIDE DEF x
  <2> QED
    BY <2>3, <2>4 DEF disk, NodeMaps, NodeInv, StateEnd
<1>4. ASSUME NEW n \in Nodes, NewEngine(n)
      PROVE  StartupInv'
    BY <1>4 DEF NewEngine, Floor, NodeMaps, NodeInv, StateEnd
<1>5. ASSUME NEW n \in Nodes, FinishSync(n)
      PROVE  StartupInv'
  <2>1. PICK x \in Nat : x = floor[n] /\ x <= head
    BY DEF NodeMaps, NodeInv
  <2>2. PICK b \in Nat : b = Boundary[x] /\ b < StateEnd(x)
    BY <2>1 DEF Heights
  <2>3. /\ phase' = [phase EXCEPT ![n] = "running"] /\ synced' = [synced EXCEPT ![n] = TRUE]
        /\ applied' = [applied EXCEPT ![n] = x] /\ captured' = [captured EXCEPT ![n] = x]
        /\ acked' = [acked EXCEPT ![n] = x] /\ delivered' = [delivered EXCEPT ![n] = x]
        /\ archived' = [archived EXCEPT ![n] = x] /\ archiveLow' = [archiveLow EXCEPT ![n] = x]
        /\ pruned' = [pruned EXCEPT ![n] = b]
        /\ UNCHANGED <<head, probed, floor, step, prevEnd, target>>
    BY <1>5, <2>1, <2>2 DEF FinishSync
  <2>4. NodeMaps'
    BY <2>1, <2>2, <2>3 DEF NodeMaps
  <2>5. NodeInv(n)'
    BY <2>1, <2>2, <2>3 DEF NodeMaps, NodeInv, StateEnd
  <2>6. \A m \in Nodes \ {n} : NodeInv(m)'
    BY <2>3 DEF NodeMaps, NodeInv, StateEnd
  <2> QED
    BY <2>3, <2>4, <2>5, <2>6
<1>6. ASSUME NEW n \in Nodes, Archive(n)
      PROVE  StartupInv'
    BY <1>6 DEF Archive, memory, NodeMaps, NodeInv, StateEnd
<1>7. ASSUME NEW n \in Nodes, Deliver(n)
      PROVE  StartupInv'
    BY <1>7 DEF Deliver, disk, MaxPendingAcks, NodeMaps, NodeInv, StateEnd
<1>8. ASSUME NEW n \in Nodes, Apply(n)
      PROVE  StartupInv'
    BY <1>8, StepsInOrder DEF Apply, NodeMaps, NodeInv, StateEnd
<1>9. ASSUME NEW n \in Nodes, Hook(n)
      PROVE  StartupInv'
  <2> DEFINE x == IF n \in Indexers THEN applied[n] ELSE captured[n]
  <2>1. captured \in [Nodes -> Nat] /\ applied[n] \in Nat
    BY DEF NodeMaps
  <2>2. x \in Nat /\ x <= head /\ (n \in Indexers => x = applied[n] /\ x > captured[n])
    BY <1>9, <2>1 DEF Hook, NodeMaps, NodeInv
  <2>3. n \notin Indexers => x = captured[n]
    OBVIOUS
  <2>4. /\ captured' = [captured EXCEPT ![n] = x] /\ step' = [step EXCEPT ![n] = "prune"]
        /\ UNCHANGED <<head, phase, probed, floor, delivered, prevEnd, target, archived, archiveLow, synced,
                       applied, acked, pruned>>
    BY <1>9, <2>1, StepsInOrder DEF Hook
  <2> HIDE DEF x
  <2>5. NodeMaps'
    BY <2>2, <2>4 DEF NodeMaps
  <2>6. NodeInv(n)'
    BY <2>2, <2>3, <2>4 DEF NodeMaps, NodeInv, StateEnd
  <2>7. \A m \in Nodes \ {n} : NodeInv(m)'
    BY <2>4 DEF NodeMaps, NodeInv, StateEnd
  <2> QED
    BY <2>4, <2>5, <2>6, <2>7
<1>10. ASSUME NEW n \in Nodes, Prune(n)
       PROVE  StartupInv'
  <2> DEFINE x == Max({archiveLow[n], PruneHeight(n)})
  <2>1. archiveLow[n] \in Int /\ PruneHeight(n) \in Int /\ PruneHeight(n) <= acked[n]
    BY DEF PruneHeight, NodeMaps, NodeInv
  <2>2. x = IF archiveLow[n] >= PruneHeight(n) THEN archiveLow[n] ELSE PruneHeight(n)
    BY <2>1, MaxOfTwo, Zenon
  <2>3. x \in Nat /\ x <= acked[n]
    BY <2>1, <2>2 DEF NodeMaps, NodeInv
  <2>4. /\ step[n] = "prune"
        /\ UNCHANGED <<head, phase, probed, floor, delivered, archived, synced, applied, captured, acked, pruned>>
    BY <1>10 DEF Prune
  <2>5. CASE ShouldPrune(applied[n])
    <3>1. /\ target' = [target EXCEPT ![n] = prevEnd[n]]
          /\ prevEnd' = [prevEnd EXCEPT ![n] = StateEnd(applied[n])]
          /\ archiveLow' = [archiveLow EXCEPT ![n] = x] /\ step' = [step EXCEPT ![n] = "pruneState"]
      BY <1>10, <2>5 DEF Prune
    <3> HIDE DEF x
    <3>2. NodeMaps'
      BY <2>3, <2>4, <3>1 DEF NodeMaps, StateEnd
    <3>3. NodeInv(n)'
      BY <2>3, <2>4, <3>1 DEF NodeMaps, NodeInv, StateEnd
    <3>4. \A m \in Nodes \ {n} : NodeInv(m)'
      BY <2>4, <3>1 DEF NodeMaps, NodeInv, StateEnd
    <3> QED
      BY <2>4, <3>2, <3>3, <3>4
  <2>6. CASE ~ShouldPrune(applied[n])
    <3>1. step' = [step EXCEPT ![n] = "ack"] /\ UNCHANGED <<target, prevEnd, archiveLow>>
      BY <1>10, <2>6, StepsInOrder DEF Prune
    <3> QED
      BY <2>4, <3>1 DEF NodeMaps, NodeInv, StateEnd
  <2> QED
    BY <2>5, <2>6
<1>11. ASSUME NEW n \in Nodes, PruneState(n)
       PROVE  StartupInv'
  <2> DEFINE low == PruneTo(n)
             x   == Max({pruned[n], low})
  <2>1. step[n] = "pruneState" /\ applied[n] \in Heights /\ applied[n] <= head
        /\ (n \in Indexers => applied[n] <= captured[n])
    BY <1>11 DEF PruneState, Heights, NodeMaps, NodeInv
  <2>2. /\ Boundary[applied[n]] \in Nat /\ Boundary[applied[n]] <= StateEnd(head)
        /\ n \in Indexers => Boundary[applied[n]] <= StateEnd(captured[n])
        /\ target[n] \in Nat /\ pruned[n] \in Nat
    <3>1. Boundary[applied[n]] \in Nat /\ Boundary[applied[n]] < StateEnd(applied[n])
      BY <2>1
    <3>2. applied[n] \in Nat /\ captured[n] \in Nat /\ target[n] \in Nat /\ pruned[n] \in Nat
      BY DEF NodeMaps
    <3> QED
      BY <2>1, <3>1, <3>2 DEF StateEnd
  <2>3. low = IF target[n] <= Boundary[applied[n]] THEN target[n] ELSE Boundary[applied[n]]
    <3>1. target[n] \in Int /\ Boundary[applied[n]] \in Int
      BY <2>2
    <3> QED
      BY <3>1, MinOfTwo, Zenon DEF PruneTo
  <2>4. low \in Nat /\ low <= StateEnd(head) /\ (n \in Indexers => low <= StateEnd(captured[n]))
    BY <2>2, <2>3 DEF NodeMaps, StateEnd
  <2> HIDE DEF low
  <2>5. x = IF pruned[n] >= low THEN pruned[n] ELSE low
    BY <2>2, <2>4, MaxOfTwo
  <2>6. x \in Nat /\ x <= StateEnd(head) /\ (n \in Indexers => x <= StateEnd(captured[n]))
    BY <2>2, <2>4, <2>5 DEF NodeInv
  <2>7. /\ pruned' = [pruned EXCEPT ![n] = x] /\ step' = [step EXCEPT ![n] = "ack"]
        /\ UNCHANGED <<head, phase, probed, floor, delivered, prevEnd, target, archived, archiveLow, synced,
                       applied, captured, acked>>
    BY <1>11, StepsInOrder, Zenon DEF PruneState, low
  <2> HIDE DEF x
  <2>8. NodeMaps'
    BY <2>6, <2>7 DEF NodeMaps
  <2>9. NodeInv(n)'
    BY <2>1, <2>6, <2>7 DEF NodeMaps, NodeInv, StateEnd
  <2>10. \A m \in Nodes \ {n} : NodeInv(m)'
    BY <2>7 DEF NodeMaps, NodeInv, StateEnd
  <2> QED
    BY <2>7, <2>8, <2>9, <2>10
<1>12. ASSUME NEW n \in Nodes, Finish(n)
       PROVE  StartupInv'
    BY <1>12 DEF Finish, disk, NodeMaps, NodeInv, StateEnd
<1>13. ASSUME NEW n \in Nodes, PersistAck(n)
       PROVE  StartupInv'
    BY <1>13 DEF PersistAck, memory, NodeMaps, NodeInv, StateEnd
<1>14. ASSUME NEW n \in Nodes, Crash(n)
       PROVE  StartupInv'
    BY <1>14 DEF Crash, disk, NodeMaps, NodeInv, StateEnd
<1>15. CASE UNCHANGED vars
    BY <1>15 DEF vars, memory, disk, NodeMaps, NodeInv, StateEnd
<1> QED
    BY <1>1, <1>2, <1>3, <1>4, <1>5, <1>6, <1>7, <1>8, <1>9, <1>10, <1>11, <1>12, <1>13, <1>14, <1>15
       DEF Next, NodeStep

\* What the invariant says about restarts.
LEMMA StartupRecovers == StartupInv => Recoverable
    BY StartupAssumption
       DEF StartupInv, NodeMaps, NodeInv, Recoverable, RedeliverableFromArchive, RewindFits, RewindWindow,
           DeltaReadable, StateEnd

\* What it says about types.
LEMMA StartupTyped == StartupInv => TypeOK
    BY DEF StartupInv, NodeMaps, NodeInv, TypeOK, StateEnd

\* Every field of a node keeps its type.
THEOREM StartupTypeCorrect == Spec => []TypeOK
    BY StartupInitial, StartupStep, StartupTyped, PTL DEF Spec

\* Whatever a node acknowledged, persisted or pruned before it stopped, the floor it
\* finds on its disk lets it start again: its blocks can be delivered again and the
\* state can be rewound to it (Startup's Recoverable), for every number of nodes,
\* cadence and height.
THEOREM RecoverableCorrect == Spec => []Recoverable
    BY StartupInitial, StartupStep, StartupRecovers, PTL DEF Spec
-----------------------------------------------------------------------------
(* The certificate uploader. *)

\* C!TypeOK without the bound on reports.
UploaderTypes ==
    /\ sending \subseteq C!Inputs /\ inbox \in Seq(C!Inputs)
    /\ entries \in [C!Digests -> SUBSET C!Kinds] /\ working \in C!Digests \cup {C!NoDigest}
    /\ byDigest \subseteq Final /\ notarized \subseteq Final /\ finalizedBy \subseteq Final

\* Its inductive invariant: a block joins its entry after it was written by digest.
UploaderInv ==
    /\ UploaderTypes /\ C!NothingReadyWaits
    /\ finalizedBy \subseteq byDigest
    /\ \A d \in C!Digests : "block" \in entries[d] => d \in byDigest

\* What an input is: only finalized blocks come with their bodies.
LEMMA InputIs ==
    ASSUME NEW i \in C!Inputs
    PROVE  i.digest \in C!Digests /\ i.kind \in C!Kinds /\ (i.kind = "block" => i.digest \in Final)
    BY DEF C!Inputs, C!Input, C!Digests, C!Kinds

\* The invariant holds of an uploader that has nothing.
LEMMA UploaderInitial == C!Init => UploaderInv
<1> SUFFICES ASSUME C!Init
             PROVE  UploaderInv
    OBVIOUS
<1>1. inbox \in Seq(C!Inputs)
    BY DEF C!Init
<1> QED
    BY <1>1 DEF C!Init, UploaderInv, UploaderTypes, C!NothingReadyWaits

\* Every step of the uploader keeps the invariant.
LEMMA UploaderStep ==
    ASSUME C!NoDigest \notin C!Digests
    PROVE  UploaderInv /\ [C!Next]_C!vars => UploaderInv'
<1> SUFFICES ASSUME UploaderInv, [C!Next]_C!vars
             PROVE  UploaderInv'
    OBVIOUS
<1> USE DEF UploaderInv
<1>1. ASSUME NEW i \in C!Inputs, C!Report(i)
      PROVE  UploaderInv'
    BY <1>1 DEF C!Report, C!stored, UploaderTypes, C!NothingReadyWaits
<1>2. ASSUME NEW i \in C!Inputs, C!Send(i)
      PROVE  UploaderInv'
  <2>1. inbox' \in Seq(C!Inputs)
    BY <1>2 DEF C!Send, UploaderTypes
  <2> QED
    BY <1>2, <2>1 DEF C!Send, C!stored, UploaderTypes, C!NothingReadyWaits
<1>3. CASE C!Receive
  <2>1. Head(inbox) \in C!Inputs /\ Tail(inbox) \in Seq(C!Inputs)
    BY <1>3 DEF C!Receive, UploaderTypes
  <2>2. PICK i \in C!Inputs : i = Head(inbox)
    BY <2>1
  <2>3. /\ working = C!NoDigest /\ working' = i.digest /\ inbox' = Tail(inbox)
        /\ entries' = [entries EXCEPT ![i.digest] = @ \cup {i.kind}]
        /\ byDigest' = IF i.kind = "block" THEN byDigest \cup {i.digest} ELSE byDigest
        /\ UNCHANGED <<reports, sending, notarized, finalizedBy>>
    BY <1>3, <2>2 DEF C!Receive, C!UploadBlockByDigest
  <2>4. i.digest \in C!Digests /\ i.kind \in C!Kinds /\ (i.kind = "block" => i.digest \in Final)
    BY InputIs
  <2>5. \A d \in C!Digests : entries'[d] = IF d = i.digest THEN entries[d] \cup {i.kind} ELSE entries[d]
    BY <2>3, Zenon DEF UploaderTypes
  <2>6. UploaderTypes'
    BY <2>1, <2>2, <2>3, <2>4 DEF UploaderTypes
  <2>7. C!NothingReadyWaits'
    BY <2>3, <2>5 DEF C!NothingReadyWaits
  <2>8. \A d \in C!Digests : "block" \in entries'[d] => d \in byDigest'
    BY <2>3, <2>5
  <2> QED
    BY <2>3, <2>6, <2>7, <2>8
<1>4. CASE C!PrepareReadyUpload
  <2>1. working \in C!Digests /\ working' = C!NoDigest
    BY <1>4 DEF C!PrepareReadyUpload, UploaderTypes
  <2>2. UNCHANGED <<reports, sending, inbox, byDigest>>
    BY <1>4 DEF C!PrepareReadyUpload
  <2>3. CASE "block" \in entries[working]
    <3>1. /\ notarized' \subseteq notarized \cup {working}
          /\ finalizedBy' \subseteq finalizedBy \cup {working}
          /\ entries' = [entries EXCEPT ![working] =
                             IF "finalization" \in entries[working] THEN {}
                             ELSE entries[working] \ {"notarization"}]
      BY <1>4, <2>3 DEF C!PrepareReadyUpload, C!Ready
    <3>2. working \in byDigest /\ working \in Final
      BY <2>1, <2>3 DEF UploaderTypes
    <3>3. \A d \in C!Digests : /\ entries'[d] \subseteq entries[d]
                               /\ d # working => entries'[d] = entries[d]
      BY <2>1, <3>1 DEF UploaderTypes
    <3>4. entries'[working] \subseteq {"block"}
      BY <2>1, <3>1 DEF UploaderTypes, C!Kinds
    <3>5. UploaderTypes'
      BY <2>1, <2>2, <3>1, <3>2 DEF UploaderTypes
    <3>6. C!NothingReadyWaits'
      BY <2>1, <3>3, <3>4 DEF C!NothingReadyWaits
    <3> QED
      BY <2>2, <3>1, <3>2, <3>3, <3>5, <3>6
  <2>4. CASE "block" \notin entries[working]
    <3>1. UNCHANGED <<notarized, finalizedBy, entries>>
      BY <1>4, <2>4 DEF C!PrepareReadyUpload, C!Ready
    <3>2. C!NothingReadyWaits'
      BY <2>1, <2>4, <3>1 DEF C!NothingReadyWaits
    <3> QED
      BY <2>1, <2>2, <3>1, <3>2 DEF UploaderTypes
  <2> QED
    BY <2>3, <2>4
<1>5. CASE C!Restart
  <2>1. inbox' \in Seq(C!Inputs)
    BY <1>5 DEF C!Restart
  <2> QED
    BY <1>5, <2>1 DEF C!Restart, C!stored, UploaderTypes, C!NothingReadyWaits
<1>6. CASE UNCHANGED C!vars
    BY <1>6 DEF C!vars, UploaderTypes, C!NothingReadyWaits
<1> QED
    BY <1>1, <1>2, <1>3, <1>4, <1>5, <1>6 DEF C!Next

\* A finalization is found with its block, and nothing that could be written waits,
\* in whatever order the parts arrive and wherever a restart falls (certificate.rs).
\* A digest is never the mark of an idle uploader.
THEOREM CertificatesPairedCorrect ==
    ASSUME C!NoDigest \notin C!Digests
    PROVE  C!Spec => []CertificatesPaired
<1>1. UploaderInv => CertificatesPaired
  <2> SUFFICES ASSUME UploaderInv
               PROVE  CertificatesPaired
    OBVIOUS
  <2>1. ASSUME NEW d \in Final, C!DigestByHeight(d) # {}
        PROVE  C!BlockByHeight(d) = {d}
    <3>1. d \in finalizedBy /\ C!DigestByHeight(d) = {d}
      BY <2>1 DEF C!DigestByHeight
    <3>2. C!BlockByDigest(d) = {d}
      BY <3>1 DEF UploaderInv, C!BlockByDigest
    <3> QED
      BY <3>1, <3>2 DEF C!BlockByHeight
  <2> QED
    BY <2>1 DEF CertificatesPaired, C!CertificatesPaired, C!CertifiedHasBlock, UploaderInv
<1> QED
    BY <1>1, UploaderInitial, UploaderStep, PTL DEF C!Spec

-----------------------------------------------------------------------------
(* The relayer. *)

\* The transactions of S are finalized at height h or below.
Holds(S, h) == h \in Nat /\ S \subseteq Txs /\ \A t \in S : final[t] \in 1 .. h

\* What an answer says is included.
Told(a) == IF a.code = "finalized" THEN Txs ELSE a.included

\* What is asked of the leaders is among what was offered to them.
Offers(all, asked, n, p) ==
    /\ all \in Seq([batch : SUBSET Txs, leader : R!Names])
    /\ asked \subseteq DOMAIN all
    /\ n \in Nat
    /\ p = "pinned" => 1 \in DOMAIN all

\* Whatever a leader remembers of any batch is true, and so is what was merged from
\* the leaders' statuses and what the client was told.
RelayInv ==
    /\ view \in Nat /\ chainHead \in Nat /\ final \in [Txs -> 0 .. chainHead]
    /\ Offers(attempts, sends, merged, relay)
    /\ DOMAIN known = R!Names
    /\ \A l \in R!Names : \A b \in DOMAIN known[l] : Holds(known[l][b].included, known[l][b].height)
    /\ Holds(included, height)
    /\ Holds(Told(answer), answer.height)

\* A set of naturals that is not empty has a least element.
LEMMA LeastNatural ==
    ASSUME NEW T, T \subseteq Nat, T # {}
    PROVE  \E n \in T : \A m \in T : n <= m
<1> DEFINE Less == {p \in Nat \X Nat : p[1] < p[2]}
<1>1. OpToRel(<, Nat) = Less
    BY Zenon DEF OpToRel
<1>2. IsWellFoundedOn(Less, Nat)
    BY <1>1, NatLessThanWellFounded, Zenon
<1>3. PICK n \in T : \A m \in T : <<m, n>> \notin Less
    BY <1>2, WFMin, Zenon
<1>4. \A m \in T : ~(m < n)
    BY <1>3, Zenon
<1> QED
    BY <1>4

\* A bounded set of numbers has a largest one.
LEMMA MaxOfMany ==
    ASSUME NEW m \in Nat, NEW S \in SUBSET (0 .. m), S # {}
    PROVE  R!Max(S) \in S /\ \A x \in S : x <= R!Max(S)
<1> DEFINE T == {m - x : x \in S}
<1>1. T \subseteq Nat /\ T # {}
  <2>1. \A x \in S : m - x \in Nat
    OBVIOUS
  <2> QED
    BY <2>1, Zenon
<1>2. PICK d \in T : \A e \in T : d <= e
    BY <1>1, LeastNatural, Zenon
<1>3. PICK y \in S : d = m - y
    OBVIOUS
<1>4. \A x \in S : m - y <= m - x
    BY <1>2, <1>3, Zenon
<1>5. \A x \in S : y >= x
    BY <1>4
<1> QED
    BY <1>5, Zenon DEF R!Max

\* The two leaders of a round are leaders, for a view of any number.
LEMMA RoundAttempts ==
    ASSUME Leaders \in Seq(R!Names), Leaders # <<>>,
           NEW v \in Nat, NEW old \in Seq([batch : SUBSET Txs, leader : R!Names]), NEW batch \in SUBSET Txs
    PROVE  R!WithAttempts(old, batch, v) \in Seq([batch : SUBSET Txs, leader : R!Names])
<1>1. Len(Leaders) \in Nat \ {0}
    OBVIOUS
<1>2. \A k \in Nat, n \in Nat \ {0} : k % n \in 0 .. n - 1
    OBVIOUS
<1>3. (v + 1) % Len(Leaders) \in 0 .. Len(Leaders) - 1 /\ (v + 2) % Len(Leaders) \in 0 .. Len(Leaders) - 1
  <2>1. v + 1 \in Nat /\ v + 2 \in Nat
    OBVIOUS
  <2> QED
    BY <1>1, <1>2, <2>1, Zenon
<1>4. /\ Leaders[((v + 1) % Len(Leaders)) + 1] \in R!Names
      /\ Leaders[((v + 2) % Len(Leaders)) + 1] \in R!Names
  <2>1. \A j \in 1 .. Len(Leaders) : Leaders[j] \in R!Names
    OBVIOUS
  <2>2. \A i \in 0 .. Len(Leaders) - 1 : i + 1 \in 1 .. Len(Leaders)
    BY <1>1
  <2> QED
    BY <1>3, <2>1, <2>2
<1> DEFINE two  == R!NextTwoLeaders(v)
           more == [i \in DOMAIN two |-> [batch |-> batch, leader |-> two[i]]]
<1>5. two \in Seq(R!Names)
    BY <1>4 DEF R!NextTwoLeaders
<1> HIDE DEF two
<1>6. more \in Seq([batch : SUBSET Txs, leader : R!Names])
  <2>1. DOMAIN two = 1 .. Len(two) /\ Len(two) \in Nat /\ \A i \in DOMAIN two : two[i] \in R!Names
    BY <1>5
  <2>2. more \in [1 .. Len(two) -> [batch : SUBSET Txs, leader : R!Names]]
    BY <2>1
  <2> QED
    BY <2>1, <2>2
<1>7. R!WithAttempts(old, batch, v) = old \o more
    BY DEF R!WithAttempts, two
<1> HIDE DEF more
<1> QED
    BY <1>6, <1>7

\* At first nothing is known and nothing was said.
LEMMA RelayInitial == R!Init => RelayInv
<1> SUFFICES ASSUME R!Init
             PROVE  RelayInv
    OBVIOUS
<1>1. Told(answer) = {} /\ answer.height = 0
    BY DEF R!Init, Told, R!NoAnswer
<1>2. \A l \in R!Names : DOMAIN known[l] = {}
    BY DEF R!Init
<1> QED
    BY <1>1, <1>2 DEF R!Init, RelayInv, Holds, Offers

\* A step that leaves the chain, the leaders and what was merged alone.
LEMMA RelayKeeps ==
    ASSUME RelayInv, UNCHANGED <<known, included, height, final, chainHead>>, view' \in Nat,
           Offers(attempts', sends', merged', relay'),
           Holds(Told(answer'), answer'.height)
    PROVE  RelayInv'
    BY DEF RelayInv, Holds, Told, Offers

\* What two leaders know together.
LEMMA HoldsTogether ==
    ASSUME NEW S, NEW T, NEW h, NEW k, Holds(S, h), Holds(T, k)
    PROVE  Holds(S \cup T, R!Max({h, k}))
<1>1. h \in Nat /\ k \in Nat
    BY DEF Holds
<1>2. R!Max({h, k}) \in Nat /\ h <= R!Max({h, k}) /\ k <= R!Max({h, k})
  <2>1. PICK m \in Nat : h <= m /\ k <= m
    BY <1>1
  <2>2. {h, k} \in SUBSET (0 .. m) /\ {h, k} # {}
    BY <1>1, <2>1
  <2>3. R!Max({h, k}) \in {h, k} /\ \A x \in {h, k} : x <= R!Max({h, k})
    BY <2>1, <2>2, MaxOfMany
  <2> QED
    BY <1>1, <2>3
<1>3. \A t \in S : final[t] \in 1 .. h
    BY DEF Holds
<1>4. \A t \in T : final[t] \in 1 .. k
    BY DEF Holds
<1>5. \A t \in S \cup T : final[t] \in 1 .. R!Max({h, k})
    BY <1>1, <1>2, <1>3, <1>4
<1> QED
    BY <1>2, <1>5 DEF Holds

\* What a leader answers holds, for the transactions it knows to be finalized.
LEMMA HoldsResolved ==
    ASSUME RelayInv, NEW S \in SUBSET {t \in Txs : final[t] > 0}
    PROVE  Holds(S, R!Max({0} \cup {final[t] : t \in S}))
<1> DEFINE heights == {0} \cup {final[t] : t \in S}
<1>1. /\ chainHead \in Nat /\ heights \in SUBSET (0 .. chainHead) /\ heights # {}
      /\ \A x \in heights : x \in 0 .. chainHead
  <2>1. chainHead \in Nat /\ \A t \in S : final[t] \in 0 .. chainHead
    BY DEF RelayInv
  <2>2. \A x \in heights : x \in 0 .. chainHead
    BY <2>1
  <2>3. 0 \in heights
    OBVIOUS
  <2> QED
    BY <2>1, <2>2, <2>3
<1>2. R!Max(heights) \in heights /\ \A x \in heights : x <= R!Max(heights)
    BY <1>1, MaxOfMany, Zenon
<1>3. \A t \in S : final[t] \in 0 .. chainHead /\ final[t] > 0 /\ final[t] \in heights
    BY DEF RelayInv
<1>4. R!Max(heights) \in Nat
  <2>1. \A x \in heights : x \in Nat
    BY <1>1
  <2> QED
    BY <1>2, <2>1, Zenon
<1> HIDE DEF heights
<1>5. \A t \in S : final[t] \in 1 .. R!Max(heights)
    BY <1>2, <1>3, <1>4
<1> QED
    BY <1>4, <1>5 DEF Holds, heights

\* Every step of the relayer, the leaders and consensus keeps the invariant.
LEMMA RelayStep ==
    ASSUME Leaders \in Seq(R!Names), Leaders # <<>>
    PROVE  RelayInv /\ [R!Next]_R!vars => RelayInv'
<1> SUFFICES ASSUME RelayInv, [R!Next]_R!vars
             PROVE  RelayInv'
    OBVIOUS
<1> DEFINE Attempts == Seq([batch : SUBSET Txs, leader : R!Names])
<1>1. view \in Nat /\ Offers(attempts, sends, merged, relay) /\ Holds(included, height) /\ Holds(Told(answer), answer.height)
    BY DEF RelayInv
<1>2. Holds(Told(R!Code("bad_request")), R!Code("bad_request").height)
      /\ Holds(Told(R!Code("dropped")), R!Code("dropped").height)
      /\ Holds(Told(R!Code("unavailable")), R!Code("unavailable").height)
    BY DEF Holds, Told, R!Code, R!NoAnswer
<1>3. ASSUME NEW S, NEW h, Holds(S, h), NEW rest
      PROVE  LET a == [code |-> "partial", height |-> h, included |-> S, filtered |-> rest]
             IN Holds(Told(a), a.height)
    BY <1>3 DEF Told
<1>4. ASSUME NEW S, NEW h, Holds(S, h), Txs \subseteq S
      PROVE  LET a == [R!Code("finalized") EXCEPT !.height = h]
             IN Holds(Told(a), a.height)
    BY <1>4 DEF Holds, Told, R!Code, R!NoAnswer
<1>5. ASSUME NEW l \in R!Names, NEW b, NEW s, Holds(s.included, s.height), R!Remember(l, b, s),
             UNCHANGED <<view, included, height, answer, final, chainHead>>,
             Offers(attempts', sends', merged', relay')
      PROVE  RelayInv'
  <2>1. /\ DOMAIN known' = R!Names
        /\ \A m \in R!Names \ {l} : known'[m] = known[m]
        /\ known'[l] = [c \in DOMAIN known[l] \cup {b} |-> IF c = b THEN s ELSE known[l][c]]
    BY <1>5 DEF R!Remember, RelayInv
  <2>2. \A c \in DOMAIN known[l] : Holds(known[l][c].included, known[l][c].height)
    BY DEF RelayInv
  <2>3. \A c \in DOMAIN known'[l] : Holds(known'[l][c].included, known'[l][c].height)
    BY <1>5, <2>1, <2>2
  <2>4. \A m \in R!Names \ {l} : \A c \in DOMAIN known'[m] : Holds(known'[m][c].included, known'[m][c].height)
    BY <2>1 DEF RelayInv
  <2> QED
    BY <1>5, <2>1, <2>3, <2>4, Zenon DEF RelayInv, Holds, Told, Offers
<1>6. ASSUME NEW old \in Attempts, NEW S, R!Round(old, S, view),
             UNCHANGED <<view, known, included, height, answer, final, chainHead>>
      PROVE  RelayInv'
  <2>1. R!EncodePending(S) \in SUBSET Txs
    BY DEF R!EncodePending
  <2>2. R!WithAttempts(old, R!EncodePending(S), view) \in Attempts
    BY <1>1, <2>1, RoundAttempts, Zenon
  <2>3. Offers(attempts', sends', merged', relay')
    BY <1>6, <2>2 DEF R!Round, Offers
  <2> QED
    BY <1>1, <1>6, <2>3, RelayKeeps
<1>7. CASE R!Submit
  <2>1. <<>> \in Attempts
    OBVIOUS
  <2> QED
    BY <1>6, <1>7, <2>1, Zenon DEF R!Submit
<1>8. ASSUME NEW i \in DOMAIN attempts
      PROVE  attempts[i].leader \in R!Names
  <2>1. attempts \in Attempts
    BY <1>1, Zenon DEF Offers
  <2>2. attempts[i] \in [batch : SUBSET Txs, leader : R!Names]
    <3>1. \A E : \A q \in Seq(E) : \A j \in DOMAIN q : q[j] \in E
      OBVIOUS
    <3> QED
      BY <2>1, <3>1, Zenon
  <2> QED
    BY <2>2
<1>9. Holds(R!Accepted.included, R!Accepted.height)
    BY DEF R!Accepted, Holds
<1>10. ASSUME NEW i \in sends, NEW o \in {"taken", "lost", "refused", "down"}, R!ForwardToLeader(i, o)
       PROVE  RelayInv'
  <2>1. attempts[i].leader \in R!Names
    BY <1>1, <1>8 DEF Offers
  <2>2. UNCHANGED <<view, included, height, answer, final, chainHead>>
    BY <1>10 DEF R!ForwardToLeader
  <2>3. Offers(attempts', sends', merged', relay')
    BY <1>1, <1>10 DEF R!ForwardToLeader, Offers
  <2>4. CASE UNCHANGED known
    BY <1>1, <2>2, <2>3, <2>4, RelayKeeps
  <2>5. CASE R!Remember(attempts[i].leader, attempts[i].batch, R!Accepted)
    BY <1>5, <1>9, <2>1, <2>2, <2>3, <2>5
  <2> QED
    BY <1>10, <2>4, <2>5, Zenon DEF R!ForwardToLeader
<1>11. CASE R!Forwarded
  <2>1. Offers(attempts', sends', merged', relay')
    BY <1>1, <1>11 DEF R!Forwarded, Offers
  <2> QED
    BY <1>1, <1>2, <1>11, <2>1, RelayKeeps DEF R!Forwarded
<1>12. ASSUME NEW answered \in BOOLEAN, R!MergeStatus(answered)
       PROVE  RelayInv'
  <2> DEFINE a == attempts[merged + 1]
             s == known[a.leader][a.batch]
  <2>1. UNCHANGED <<view, attempts, answer, known, final, chainHead>>
    BY <1>12, Zenon DEF R!MergeStatus
  <2>2. Offers(attempts', sends', merged', relay') /\ merged + 1 \in DOMAIN attempts
    <3>1. merged < Len(attempts) /\ merged' = merged + 1 /\ UNCHANGED <<attempts, sends, relay>>
      BY <1>12, Zenon DEF R!MergeStatus
    <3> QED
      BY <1>1, <3>1 DEF Offers
  <2>3. CASE ~answered
    <3>1. UNCHANGED <<included, height>>
      BY <1>12, <2>3 DEF R!MergeStatus
    <3> QED
      BY <1>1, <2>1, <2>2, <3>1, RelayKeeps
  <2>4. CASE answered
    <3>1. a.leader \in R!Names
      BY <1>8, <2>2
    <3>2. /\ a.batch \in DOMAIN known[a.leader]
          /\ included' = included \cup s.included /\ height' = R!Max({height, s.height})
      BY <1>12, <2>4, Zenon DEF R!MergeStatus, R!Reports
    <3>3. Holds(s.included, s.height)
      BY <3>1, <3>2, Zenon DEF RelayInv
    <3>4. Holds(included', height')
      BY <1>1, <3>2, <3>3, HoldsTogether, Zenon
    <3> HIDE DEF s, a
    <3> QED
      BY <2>1, <2>2, <3>4 DEF RelayInv, Holds, Told, Offers
  <2> QED
    BY <2>3, <2>4
<1>13. CASE R!EndRound
  <2>1. UNCHANGED <<view, attempts, known, included, height, final, chainHead>>
    BY <1>13 DEF R!EndRound
  <2>2. Offers(attempts', sends', merged', relay')
    BY <1>1, <1>13 DEF R!EndRound, Offers
  <2>3. CASE Txs \subseteq included
    <3>1. answer' = [R!Code("finalized") EXCEPT !.height = height]
      BY <1>13, <2>3 DEF R!EndRound
    <3>2. Holds(Told(answer'), answer'.height)
      BY <1>1, <1>4, <2>3, <3>1
    <3> QED
      BY <2>1, <2>2, <3>2, RelayKeeps, <1>1
  <2>4. CASE ~(Txs \subseteq included)
    <3>1. \/ answer' = answer \/ answer' = R!Code("unavailable") \/ answer' = R!Code("dropped")
          \/ answer' = [code |-> "partial", height |-> height, included |-> included, filtered |-> Txs \ included]
      BY <1>13, <2>4 DEF R!EndRound, R!BestEffortStatus
    <3>2. Holds(Told(answer'), answer'.height)
      BY <1>1, <1>2, <1>3, <3>1
    <3> QED
      BY <2>1, <2>2, <3>2, RelayKeeps, <1>1
  <2> QED
    BY <2>3, <2>4
<1>14. CASE R!WaitForViewAdvance
  <2>1. attempts \in Attempts
    BY <1>1 DEF Offers
  <2> QED
    BY <1>6, <1>14, <2>1 DEF R!WaitForViewAdvance
<1>15. ASSUME NEW l \in R!Names, R!SubmitPinned(l)
       PROVE  RelayInv'
  <2>1. Offers(attempts', sends', merged', relay')
    BY <1>1, <1>15 DEF R!SubmitPinned, Offers
  <2> QED
    BY <1>1, <1>15, <2>1, RelayKeeps DEF R!SubmitPinned
<1>16. CASE R!PinnedTaken
  <2>1. attempts[1].leader \in R!Names
    BY <1>1, <1>8, <1>16 DEF R!PinnedTaken, Offers
  <2>2. UNCHANGED <<view, included, height, answer, final, chainHead>>
    BY <1>16, Zenon DEF R!PinnedTaken
  <2>3. Offers(attempts', sends', merged', relay')
    BY <1>1, <1>16 DEF R!PinnedTaken, Offers
  <2>4. CASE UNCHANGED known
    BY <1>1, <2>2, <2>3, <2>4, RelayKeeps
  <2>5. CASE R!Remember(attempts[1].leader, Txs, R!Accepted)
    BY <1>5, <1>9, <2>1, <2>2, <2>3, <2>5
  <2> QED
    BY <1>16, <2>4, <2>5 DEF R!PinnedTaken
<1>17. CASE R!PinnedAnswer
  <2> DEFINE l == attempts[1].leader
             s == known[l][Txs]
  <2>1. l \in R!Names
    BY <1>1, <1>8, <1>17 DEF R!PinnedAnswer, Offers
  <2>2. UNCHANGED <<view, attempts, known, included, height, final, chainHead>>
    BY <1>17 DEF R!PinnedAnswer
  <2>3. Offers(attempts', sends', merged', relay')
    BY <1>1, <1>17 DEF R!PinnedAnswer, Offers
  <2>4. \/ answer' = R!Code("bad_request")
        \/ /\ Txs \in DOMAIN known[l]
           /\ \/ answer' = R!Code("dropped")
              \/ s.included = Txs /\ answer' = [R!Code("finalized") EXCEPT !.height = s.height]
              \/ answer' = [code |-> "partial", height |-> s.height,
                            included |-> s.included, filtered |-> Txs \ s.included]
    BY <1>17, Zenon DEF R!PinnedAnswer
  <2>5. Txs \in DOMAIN known[l] => Holds(s.included, s.height)
    BY <2>1 DEF RelayInv
  <2> HIDE DEF s, l
  <2>6. Holds(Told(answer'), answer'.height)
    BY <1>2, <1>3, <1>4, <2>4, <2>5, Zenon
  <2> QED
    BY <2>2, <2>3, <2>6, RelayKeeps, <1>1
<1>18. CASE R!PinnedFails
  <2>1. Offers(attempts', sends', merged', relay')
    BY <1>1, <1>18 DEF R!PinnedFails, Offers
  <2> QED
    BY <1>1, <1>2, <1>18, <2>1, RelayKeeps DEF R!PinnedFails
<1>19. ASSUME NEW v \in 0 .. view + Ahead, R!Report(v)
       PROVE  RelayInv'
  <2>1. Offers(attempts', sends', merged', relay') /\ view' \in Nat
    BY <1>1, <1>19 DEF R!Report, R!submission, Offers, R!Advances
  <2> QED
    BY <1>1, <1>19, <2>1, RelayKeeps DEF R!Report, R!submission
<1>20. ASSUME NEW body \in R!Batches, R!FinalizeBlock(body)
       PROVE  RelayInv'
  <2>1. UNCHANGED <<view, attempts, sends, merged, relay, included, height, answer, known>>
    BY <1>20, Zenon DEF R!FinalizeBlock, R!submission
  <2>2. /\ chainHead \in Nat /\ chainHead' = chainHead + 1
        /\ final' = [t \in Txs |-> IF t \in body THEN chainHead + 1 ELSE final[t]]
        /\ \A t \in body : final[t] = 0
        /\ final \in [Txs -> 0 .. chainHead]
    BY <1>20, Zenon DEF R!FinalizeBlock, RelayInv
  <2>3. final' \in [Txs -> 0 .. chainHead']
    BY <2>2
  <2>4. ASSUME NEW S, NEW h, Holds(S, h)
        PROVE  Holds(S, h)'
    <3>1. h \in Nat /\ S \subseteq Txs /\ \A t \in S : final[t] \in 1 .. h
      BY <2>4 DEF Holds
    <3>2. \A t \in S : t \notin body
      BY <2>2, <3>1
    <3>3. \A t \in S : final'[t] = final[t]
      BY <2>2, <3>1, <3>2
    <3> QED
      BY <3>1, <3>3 DEF Holds
  <2>5. view' \in Nat /\ chainHead' \in Nat /\ Offers(attempts, sends, merged, relay)'
    BY <2>1, <2>2 DEF RelayInv, Offers
  <2>6. Holds(included, height)' /\ Holds(Told(answer), answer.height)'
    BY <2>1, <2>4 DEF RelayInv, Told
  <2>7. \A l \in R!Names : \A b \in DOMAIN known'[l] :
            Holds(known[l][b].included, known[l][b].height)'
    BY <2>1, <2>4 DEF RelayInv
  <2>8. DOMAIN known' = R!Names
    BY <2>1, Zenon DEF RelayInv
  <2> QED
    BY <2>3, <2>5, <2>6, <2>7, <2>8, Zenon DEF RelayInv
<1>21. ASSUME NEW l \in R!Names, NEW b \in R!Batches, R!Forget(l, b)
       PROVE  RelayInv'
  <2>1. /\ DOMAIN known' = R!Names
        /\ \A m \in R!Names \ {l} : known'[m] = known[m]
        /\ known'[l] = [c \in DOMAIN known[l] \ {b} |-> known[l][c]]
    BY <1>21 DEF R!Forget, RelayInv
  <2>2. \A m \in R!Names : \A c \in DOMAIN known'[m] : c \in DOMAIN known[m] /\ known'[m][c] = known[m][c]
    BY <2>1
  <2>3. UNCHANGED <<view, attempts, sends, merged, relay, included, height, answer, final, chainHead>>
    BY <1>21 DEF R!Forget, R!submission
  <2> QED
    BY <2>1, <2>2, <2>3 DEF RelayInv, Holds, Told, Offers
<1>22. ASSUME NEW l \in R!Names, NEW b \in R!Batches, NEW inc \in SUBSET b, R!Resolve(l, b, inc)
       PROVE  RelayInv'
  <2> DEFINE s == [state    |-> IF inc = {} THEN "dropped" ELSE "included",
                   included |-> inc,
                   height   |-> R!Max({0} \cup {final[t] : t \in inc})]
  <2>1. inc \in SUBSET {t \in Txs : final[t] > 0}
    BY <1>22 DEF R!Resolve, R!Batches
  <2>2. Holds(inc, R!Max({0} \cup {final[t] : t \in inc}))
    BY <2>1, HoldsResolved
  <2>3. Holds(s.included, s.height)
    BY <2>2
  <2>4. R!Remember(l, b, s)
    BY <1>22 DEF R!Resolve
  <2> HIDE DEF s
  <2>5. /\ UNCHANGED <<view, included, height, answer, final, chainHead>>
        /\ Offers(attempts', sends', merged', relay')
    BY <1>1, <1>22 DEF R!Resolve, R!submission, Offers
  <2> QED
    BY <1>5, <2>3, <2>4, <2>5
<1>23. CASE UNCHANGED R!vars
  <2>1. Offers(attempts', sends', merged', relay')
    BY <1>1, <1>23 DEF R!vars, R!submission, Offers
  <2> QED
    BY <1>1, <1>23, <2>1, RelayKeeps DEF R!vars, R!submission
<1>24. CASE R!Relay
    BY <1>7, <1>10, <1>11, <1>12, <1>13, <1>14, <1>24 DEF R!Relay
<1>25. CASE R!Pinned
    BY <1>15, <1>16, <1>17, <1>18, <1>25 DEF R!Pinned
<1>26. CASE R!Surroundings
    BY <1>19, <1>20, <1>21, <1>22, <1>26 DEF R!Surroundings
<1> QED
    BY <1>23, <1>24, <1>25, <1>26 DEF R!Next

\* What the relayer tells a client is true of the chain, for every list of leaders,
\* every batch and every number of retries: whatever it puts together from what
\* several leaders remember was finalized, at the height it reports or below.
THEOREM AnswerIsTrueCorrect ==
    ASSUME Leaders \in Seq(R!Names), Leaders # <<>>
    PROVE  R!Spec => []AnswerIsTrue
<1>1. RelayInv => AnswerIsTrue
    BY DEF RelayInv, AnswerIsTrue, R!AnswerIsTrue, Holds, Told
<1>2. RelayInv /\ [R!Next]_R!vars => RelayInv'
    BY RelayStep
<1> QED
    BY <1>1, <1>2, RelayInitial, PTL DEF R!Spec

=============================================================================
