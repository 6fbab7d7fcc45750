------------------------------- MODULE MCNode -------------------------------
(***************************************************************************)
(* Instances of what bin/validator and bin/deploy do, for TLC: validators  *)
(* that start and restart (Startup), the relayer one of them runs          *)
(* (Relayer), and the files all of them are started from (Deployment).     *)
(* They share no state, so a behavior is of one part and the others stay   *)
(* as they are initially.                                                  *)
(***************************************************************************)
EXTENDS Startup, NodeRelayer

CONSTANTS n1, n2,
          PortCount, SecondarySeedOffset, Bootstrappers, BasePort, BaseHttpPort, BaseMetricsPort,
          ChainPort, MetadataPort, QmdbPort, Sizes, AccountCounts, MarshalSync

VARIABLES part, args, bundle, hosts, status, settings

deployVars == <<args, bundle, hosts, status, settings>>

OneSyncs == [n \in Nodes |-> IF n = n1 THEN "state_sync" ELSE "marshal_sync"]
\* The boundary stands still and then jumps over several blocks.
Boundaries == [h \in 0 .. MaxHeight |-> IF h < 2 THEN 0 ELSE 2 * h + 1]
TwoLeaders == <<"v1", "v2">>
Arguments == [validators : Sizes, indexer : BOOLEAN, relayer : BOOLEAN, spammer : BOOLEAN,
              target : {"local", "remote"}, startup : {MarshalSync}, accounts : AccountCounts]

D == INSTANCE Deployment WITH Regions <- <<"r1", "r2">>

MCInit == Init /\ R!Init /\ D!Init /\ part \in {"startup", "relayer", "deployment"}

MCNext == /\ UNCHANGED part
          /\ \/ part = "startup" /\ Next /\ UNCHANGED <<relayVars, deployVars>>
             \/ part = "relayer" /\ R!Next /\ UNCHANGED <<vars, deployVars>>
             \/ part = "deployment" /\ D!Next /\ UNCHANGED <<vars, relayVars>>

\* Each validator goes on, and consensus with a quorum does; the requests of the
\* relayer return, with an answer or an error, and views keep advancing.
MCSpec == /\ MCInit /\ [][MCNext]_<<part, vars, relayVars, deployVars>>
          /\ WF_vars(part = "startup" /\ FinalizeBlock)
          /\ \A n \in Nodes : WF_vars(part = "startup" /\ NodeStep(n))
          /\ WF_relayVars(part = "relayer" /\ R!Relay)
          /\ WF_relayVars(part = "relayer" /\ \E v \in 0 .. view + Ahead : R!Report(v))

---------------------------------------------------------------------------
(* The properties of the parts, which Startup, Relayer and Deployment explain. *)

\* Startup: a validator that starts or crashes comes up again.
ValidatorsRun == part = "startup" => EveryoneRuns

\* Relayer: every submission is answered, however views jump.
SubmissionIsAnswered == R!SubmissionIsAnswered

\* Deployment: generated files load and lead to each other, however processes start.
ClusterFits == D!ClusterFits
=============================================================================
