------------------------------ MODULE Startup ------------------------------
(***************************************************************************)
(* Starting, crashing and restarting validators (bin/validator/src/run.rs, *)
(* crates/engine/src/engine.rs), and what each does with a finalized block *)
(* (crates/application/src/consensus/glue.rs): apply it, run the hook,     *)
(* prune, acknowledge.                                                      *)
(*                                                                         *)
(* External: consensus finalizes with a quorum of running validators; the   *)
(* marshal archives finalized blocks, delivers them in order, a window of   *)
(* unacknowledged ones at a time, and again after a restart; a database     *)
(* that is ahead of the acknowledged block is rewound; the probe returns    *)
(* the finalization of a peer whose engine is assembled.                    *)
(***************************************************************************)
EXTENDS Integers, FiniteSets, FiniteSetsExt, Sequences

CONSTANTS
    Nodes,
    Mode,         \* startup of each node's configuration
    Indexers,     \* the nodes whose configuration names an indexer
    Quorum,       \* how many running validators finalize
    Cadence,      \* prune_cadence_blocks
    Boundary,     \* sync_boundary of the state database after each block
    MaxHeight,    \* bound: finalized blocks
    MaxCrashes    \* bound

Heights == 0 .. MaxHeight
\* header.state_range.end(): an update and a commit for each block.
StateEnd(h) == 2 * (h + 1)

ASSUME StartupAssumption ==
    /\ Mode \in [Nodes -> {"marshal_sync", "state_sync"}] /\ Indexers \subseteq Nodes
    /\ Cadence \in Nat \ {0} /\ Quorum \in Nat /\ MaxHeight \in Nat
    /\ Boundary \in [Heights -> Nat] /\ \A h \in Heights : Boundary[h] < StateEnd(h)

VARIABLES
    head,       \* consensus: the last finalized height
    phase,      \* off, probing, starting, syncing or running
    probed,     \* the finalization the probe selected, or 0
    floor,      \* where consensus and marshal start, 0 is genesis
    step,       \* what is done next with the delivered block
    delivered,  \* marshal: the last block handed to the application
    prevEnd,    \* previous_prune_cadence_state_end
    target,     \* state_prune_target, while the archives are pruned
    archived,   \* disk: the last archived finalization, or 0
    archiveLow, \* disk: archives are pruned below this height
    synced,     \* disk: state sync is done
    applied,    \* disk: the block the databases are at
    captured,   \* disk: the last block the hook captured
    acked,      \* disk: the last acknowledged block
    pruned,     \* disk: the state database is pruned below this location
    crashes

memory == <<phase, probed, floor, step, delivered, prevEnd, target>>
disk == <<archived, archiveLow, synced, applied, captured, acked, pruned>>
vars == <<head, memory, disk, crashes>>

Running == {n \in Nodes : phase[n] = "running"}

Init == /\ head = 0 /\ crashes = 0
        /\ phase = [n \in Nodes |-> "off"] /\ probed = [n \in Nodes |-> 0]
        /\ floor = [n \in Nodes |-> 0] /\ step = [n \in Nodes |-> "idle"]
        /\ delivered = [n \in Nodes |-> 0] /\ prevEnd = [n \in Nodes |-> 0] /\ target = [n \in Nodes |-> 0]
        /\ archived = [n \in Nodes |-> 0] /\ archiveLow = [n \in Nodes |-> 0]
        /\ synced = [n \in Nodes |-> FALSE]
        /\ applied = [n \in Nodes |-> 0] /\ captured = [n \in Nodes |-> 0]
        /\ acked = [n \in Nodes |-> 0] /\ pruned = [n \in Nodes |-> 0]

---------------------------------------------------------------------------
(* Startup: run_with_config, then Engine::new. *)

\* Everybody asks.
StartByProbing(n) == "probing"
\* The probe is asked first when the configuration says so, whatever is on disk.
StartBy(n) == IF Mode[n] = "state_sync" THEN "probing" ELSE "starting"

SelectStartup(n) ==
    /\ phase[n] = "off"
    /\ phase' = [phase EXCEPT ![n] = StartBy(n)]
    /\ UNCHANGED <<head, probed, floor, step, delivered, prevEnd, target, disk, crashes>>

\* probe_mailbox.subscribe(): a peer's probe answers once its marshal is attached.
Probe(n, m) ==
    /\ phase[n] = "probing"
    /\ phase[m] \in {"syncing", "running"} /\ Max({archived[m], floor[m]}) > 0
    /\ probed' = [probed EXCEPT ![n] = Max({archived[m], floor[m]})]
    /\ phase' = [phase EXCEPT ![n] = "starting"]
    /\ UNCHANGED <<head, floor, step, delivered, prevEnd, target, disk, crashes>>

StateSyncs(n) == Mode[n] = "state_sync" /\ ~synced[n]

\* recovered_floor, or the state-sync floor, or genesis.
Floor(n) == IF archived[n] > 0 THEN archived[n]
            ELSE IF StateSyncs(n) THEN probed[n] ELSE 0

\* Application::new: the prune target starts at the end of the floor's state;
\* without a recovered floor it is that of the genesis database.
NewEngine(n) ==
    /\ phase[n] = "starting"
    /\ floor' = [floor EXCEPT ![n] = Floor(n)]
    /\ prevEnd' = [prevEnd EXCEPT ![n] = StateEnd(archived[n])]
    /\ phase' = [phase EXCEPT ![n] = IF archived[n] = 0 /\ StateSyncs(n) THEN "syncing" ELSE "running"]
    /\ delivered' = [delivered EXCEPT ![n] = acked[n]]
    /\ applied' = [applied EXCEPT ![n] = acked[n]]
    /\ step' = [step EXCEPT ![n] = "idle"]
    /\ UNCHANGED <<head, probed, target, archived, archiveLow, synced, captured, acked, pruned, crashes>>

\* The databases have fetched the state of the floor from peers.
FinishSync(n) ==
    /\ phase[n] = "syncing"
    /\ phase' = [phase EXCEPT ![n] = "running"]
    /\ synced' = [synced EXCEPT ![n] = TRUE]
    /\ applied' = [applied EXCEPT ![n] = floor[n]]
    /\ captured' = [captured EXCEPT ![n] = floor[n]]
    /\ acked' = [acked EXCEPT ![n] = floor[n]]
    /\ delivered' = [delivered EXCEPT ![n] = floor[n]]
    /\ archived' = [archived EXCEPT ![n] = floor[n]]
    /\ archiveLow' = [archiveLow EXCEPT ![n] = floor[n]]
    /\ pruned' = [pruned EXCEPT ![n] = Boundary[floor[n]]]
    /\ UNCHANGED <<head, probed, floor, step, prevEnd, target, crashes>>

Crash(n) ==
    /\ phase[n] # "off" /\ crashes < MaxCrashes
    /\ crashes' = crashes + 1
    /\ phase' = [phase EXCEPT ![n] = "off"]
    /\ step' = [step EXCEPT ![n] = "idle"]
    /\ probed' = [probed EXCEPT ![n] = 0]
    /\ UNCHANGED <<head, floor, delivered, prevEnd, target, disk>>

---------------------------------------------------------------------------
(* Consensus and the marshal. *)

FinalizeBlock == /\ head < MaxHeight
                 /\ Cardinality(Running) >= Quorum
                 /\ head' = head + 1
                 /\ UNCHANGED <<memory, disk, crashes>>

\* The archive may run ahead of what was delivered.
Archive(n) == /\ n \in Running /\ archived[n] < head
              /\ archived' = [archived EXCEPT ![n] = @ + 1]
              /\ UNCHANGED <<head, memory, archiveLow, synced, applied, captured, acked, pruned, crashes>>

\* MAX_PENDING_ACKS, and what the transaction history can be rewound by.
MaxPendingAcks == 1
RewindWindow == 1

Deliver(n) == /\ n \in Running /\ step[n] = "idle"
              /\ delivered[n] < archived[n] /\ delivered[n] - acked[n] < MaxPendingAcks
              /\ delivered' = [delivered EXCEPT ![n] = @ + 1]
              /\ UNCHANGED <<head, phase, probed, floor, step, prevEnd, target, disk, crashes>>

---------------------------------------------------------------------------
(* A delivered block: the databases commit it, then `finalized` runs. *)

\* Pruning before the hook.
StepsPruneFirst == <<"prune", "pruneState", "hook", "ack">>
Steps == <<"hook", "prune", "pruneState", "ack">>
StepAfter(s) == Steps[1 + CHOOSE i \in 1 .. 3 : Steps[i] = s]

Apply(n) == /\ n \in Running /\ step[n] = "idle" /\ applied[n] < delivered[n]
            /\ applied' = [applied EXCEPT ![n] = @ + 1]
            /\ step' = [step EXCEPT ![n] = Steps[1]]
            /\ UNCHANGED <<head, phase, probed, floor, delivered, prevEnd, target, archived, archiveLow, synced,
                           captured, acked, pruned, crashes>>

\* FinalizedUploadProducer::enqueue reads the block's operations.  A block that was
\* captured before a crash is prepared again and again, and the hook never returns
\* (HookReturns of Indexing).  Without an indexer there is nothing to do.
Hook(n) == /\ n \in Running /\ step[n] = "hook"
           /\ n \in Indexers => captured[n] < applied[n]
           /\ captured' = IF n \in Indexers THEN [captured EXCEPT ![n] = applied[n]] ELSE captured
           /\ step' = [step EXCEPT ![n] = StepAfter("hook")]
           /\ UNCHANGED <<head, phase, probed, floor, delivered, prevEnd, target, archived, archiveLow, synced,
                          applied, acked, pruned, crashes>>

ShouldPrune(h) == h # 0 /\ h % Cadence = 0

PruneTo(n) == Min({target[n], Boundary[applied[n]]})

PruneHeight(n) == applied[n] - Cadence

Prune(n) ==
    LET h == applied[n]
    IN /\ n \in Running /\ step[n] = "prune"
       /\ IF ShouldPrune(h)
          THEN /\ target' = [target EXCEPT ![n] = prevEnd[n]]
               /\ prevEnd' = [prevEnd EXCEPT ![n] = StateEnd(h)]
               /\ archiveLow' = [archiveLow EXCEPT ![n] = Max({@, PruneHeight(n)})]
               /\ step' = [step EXCEPT ![n] = "pruneState"]
          ELSE /\ step' = [step EXCEPT ![n] = StepAfter("pruneState")]
               /\ UNCHANGED <<target, prevEnd, archiveLow>>
       /\ UNCHANGED <<head, phase, probed, floor, delivered, archived, synced, applied, captured, acked,
                      pruned, crashes>>

\* After the archives, so that a crash can fall in between.
PruneState(n) ==
    /\ n \in Running /\ step[n] = "pruneState"
    /\ pruned' = [pruned EXCEPT ![n] = Max({@, PruneTo(n)})]
    /\ step' = [step EXCEPT ![n] = StepAfter("pruneState")]
    /\ UNCHANGED <<head, phase, probed, floor, delivered, prevEnd, target, archived, archiveLow, synced,
                   applied, captured, acked, crashes>>

\* The application is done with the block; the acknowledgement becomes durable
\* in a step of the marshal's own.
Finish(n) == /\ n \in Running /\ step[n] = "ack"
             /\ step' = [step EXCEPT ![n] = "idle"]
             /\ UNCHANGED <<head, phase, probed, floor, delivered, prevEnd, target, disk, crashes>>

PersistAck(n) == /\ n \in Running
                 /\ acked[n] < applied[n] - IF step[n] = "idle" THEN 0 ELSE 1
                 /\ acked' = [acked EXCEPT ![n] = @ + 1]
                 /\ UNCHANGED <<head, memory, archived, archiveLow, synced, applied, captured, pruned, crashes>>

---------------------------------------------------------------------------
NodeStep(n) == \/ SelectStartup(n) \/ (\E m \in Nodes \ {n} : Probe(n, m)) \/ NewEngine(n) \/ FinishSync(n)
               \/ Archive(n) \/ Deliver(n) \/ Apply(n) \/ Hook(n) \/ Prune(n) \/ PruneState(n) \/ Finish(n) \/ PersistAck(n)

Next == \/ FinalizeBlock
        \/ \E n \in Nodes : NodeStep(n) \/ Crash(n)

Spec == Init /\ [][Next]_vars

---------------------------------------------------------------------------
(* Properties. *)

\* Every variable of a node has its type.
TypeOK == \A n \in Nodes :
    /\ phase[n] \in {"off", "probing", "starting", "syncing", "running"}
    /\ step[n] \in {"idle", "hook", "prune", "pruneState", "ack"}
    /\ \A x \in {probed[n], floor[n], delivered[n], archived[n], archiveLow[n], applied[n], captured[n],
                 acked[n]} : x \in 0 .. head
    /\ prevEnd[n] \in 0 .. StateEnd(head) /\ pruned[n] \in 0 .. StateEnd(head)

\* What a restart must deliver again is still archived: pruning never removes a
\* block the databases have not committed or may be rewound past.
RedeliverableFromArchive ==
    \A n \in Nodes : acked[n] < archived[n] => archiveLow[n] <= acked[n] + 1

\* The databases are never further ahead of the durable acknowledgement than the
\* narrowest of them can be rewound (engine.rs:85-87).
RewindFits == \A n \in Nodes : applied[n] - acked[n] <= RewindWindow

\* When the hook runs, the operations of its block are still in the state
\* database, whatever was pruned before and after restarts (the hook runs "after
\* finalized database application and before prune", crates/indexer/README.md:79).
DeltaReadable ==
    \A n \in Indexers : (step[n] = "hook" /\ captured[n] < applied[n])
                        => pruned[n] <= StateEnd(applied[n] - 1)

\* Wherever a crash falls in the steps of finalizing a block, the restart finds
\* what it needs: blocks to deliver again, databases that can be rewound to the
\* acknowledged block, and a state delta the hook can still read.
Recoverable == RedeliverableFromArchive /\ RewindFits /\ DeltaReadable

\* While a quorum of the validators does not wait for a probe, every validator
\* comes up, and so does one that crashes.
EveryoneRuns == \A n \in Nodes : []<>(phase[n] = "running")
=============================================================================
