---------------------------- MODULE DeployConfig ----------------------------
(***************************************************************************)
(* What the deployment generator writes (bin/deploy) and what the binaries *)
(* make of it (bin/validator/src/config.rs, crates/indexer/src/bin,        *)
(* bin/spammer/src/config.rs).                                             *)
(*                                                                         *)
(* A name is a pair: a key, which names a node in every file, a shared     *)
(* service, or an IP address.  A URL is a name and a port.  Optional parts *)
(* are sequences of at most one element, and a loader that panics is the   *)
(* empty set.  Hex and YAML are left out; numbers keep their width where   *)
(* the generator adds to ports.                                            *)
(***************************************************************************)
EXTENDS Naturals, Sequences, FiniteSets, SequencesExt

CONSTANTS
    PortCount,               \* 2^16 ports
    SecondarySeedOffset,     \* SECONDARY_SEED_OFFSET
    Bootstrappers,           \* DEFAULT_BOOTSTRAPPERS
    BasePort, BaseHttpPort, BaseMetricsPort,  \* of LocalArgs, and the ports of RemoteArgs
    ChainPort, MetadataPort, QmdbPort,
    Regions                  \* of RemoteArgs, a sequence

Key(seed) == <<"key", seed>>
Host(service) == <<service, 0>>
Ip(n) == <<"ip", n>>
Loopback == Ip(0)
Url(host, port) == [host |-> host, port |-> port]
NoShare == <<>>

---------------------------------------------------------------------------
(* Arguments and key material. *)

\* secondary_roles: the index of a role among the secondaries depends on both flags.
SecondaryRoles(args) == (IF args.indexer THEN <<"indexer">> ELSE <<>>)
                          \o (IF args.relayer THEN <<"relayer">> ELSE <<>>)

ValidGenerateArgs(args) == args.spammer => args.relayer

\* Keys of seeds.  The remote ones are random and sorted: distinct as well.
ClusterMaterial(args) ==
    [primary   |-> [i \in 1 .. args.validators |-> Key(i - 1)],
     secondary |-> [i \in 1 .. Len(SecondaryRoles(args)) |-> Key(SecondarySeedOffset + i - 1)]]

\* The dealing is over the primaries; each gets a share.
BuildClusterMaterial(material) ==
    [dkg_output     |-> Range(material.primary),
     shares         |-> [k \in Range(material.primary) |-> <<"share", k>>],
     genesis_leader |-> material.primary[1]]

DefaultBootstrappers(keys) == SubSeq(keys, 1, IF Bootstrappers < Len(keys) THEN Bootstrappers ELSE Len(keys))

\* The fields of ValidatorConfig that are the same for every node of a bundle.
ValidatorConfig(args, material, key, share, ports, prefix, indexer, relayer) ==
    [private_key |-> key, dkg_output |-> BuildClusterMaterial(material).dkg_output,
     dkg_share |-> share, genesis_leader |-> BuildClusterMaterial(material).genesis_leader,
     num_validators |-> args.validators, startup |-> args.startup,
     primary_validators |-> material.primary, secondary_validators |-> material.secondary,
     bootstrappers |-> DefaultBootstrappers(material.primary), partition_prefix |-> prefix,
     listen_port |-> ports.listen, http_port |-> ports.http, metrics_port |-> ports.metrics,
     indexer |-> indexer, relayer |-> relayer]

---------------------------------------------------------------------------
(* The local bundle: one machine, and a range of each kind of port. *)

\* base.checked_add(index as u16), which panics past the last port.
AddPort(base, index) == base + (index % PortCount)

LocalPorts(offset) == [listen  |-> AddPort(BasePort, offset),
                       http    |-> AddPort(BaseHttpPort, offset),
                       metrics |-> AddPort(BaseMetricsPort, offset)]

PortsFit(ports) == \A p \in {ports.listen, ports.http, ports.metrics} : p < PortCount

LocalValidators(args, material) ==
    [i \in 1 .. args.validators |->
        ValidatorConfig(args, material, material.primary[i],
                        BuildClusterMaterial(material).shares[material.primary[i]],
                        LocalPorts(i - 1), <<"validator", i - 1>>, <<>>, <<>>)]

LocalRelayerConfig(material) ==
    [i \in DOMAIN material.primary |->
        [public_key |-> material.primary[i], url |-> Url(Loopback, AddPort(BaseHttpPort, i - 1))]]

LocalIndexerConfig == Url(Loopback, ChainPort)

SecondaryPrefix(index) == <<"secondary", index>>

\* The ports of the secondaries follow those of the primaries.
LocalSecondaries(args, material) ==
    [i \in DOMAIN material.secondary |->
        LET role == SecondaryRoles(args)[i]
        IN ValidatorConfig(args, material, material.secondary[i], NoShare,
                           LocalPorts(args.validators + i - 1), SecondaryPrefix(i - 1),
                           IF role = "indexer" THEN <<LocalIndexerConfig>> ELSE <<>>,
                           IF role = "relayer" THEN <<LocalRelayerConfig(material)>> ELSE <<>>)]

\* The relayer is taken to be the first secondary.
RelayerHttpPortFirst(args) == BaseHttpPort + args.validators
\* The relayer comes after the indexer, if there is one.
RelayerHttpPort(args) == BaseHttpPort + args.validators + (IF args.indexer THEN 1 ELSE 0)

\* local_run_commands: the arguments of the processes that are not validators.
LocalServices(args, material) ==
    LET store == Url(Loopback, ChainPort)
        relayer == Url(Loopback, RelayerHttpPort(args))
    IN [chain    |-> IF args.indexer THEN <<[port |-> ChainPort]>> ELSE <<>>,
        metadata |-> IF args.indexer THEN <<[port |-> MetadataPort, store_url |-> store]>> ELSE <<>>,
        qmdb     |-> IF args.indexer THEN <<[port |-> QmdbPort, store_url |-> store]>> ELSE <<>>,
        explorer |-> IF args.indexer
                     THEN <<[sql |-> Url(Loopback, MetadataPort), qmdb |-> Url(Loopback, QmdbPort),
                             store |-> store, mempool |-> IF args.relayer THEN <<relayer>> ELSE <<>>,
                             material |-> BuildClusterMaterial(material).dkg_output]>>
                     ELSE <<>>,
        spammer  |-> IF args.spammer
                     THEN <<[relayer_url |-> relayer, relayer_submitters |-> args.validators,
                             targets |-> material.primary, accounts |-> args.accounts]>>
                     ELSE <<>>]

Peers(nodes, keys) ==
    [k \in keys |-> LET n == CHOOSE x \in Range(nodes) : x.private_key = k
                    IN [p2p |-> Url(Loopback, n.listen_port), http |-> Url(Loopback, n.http_port)]]

\* peers.yaml lists every node.
LocalPeers(nodes) == Peers(nodes, {n.private_key : n \in Range(nodes)})

\* local::generate: the two checks, the ports that must fit, and the files.
LocalBundle(args) ==
    LET material == ClusterMaterial(args)
        nodes    == LocalValidators(args, material) \o LocalSecondaries(args, material)
    IN IF ~ValidGenerateArgs(args) \/ args.validators < 1
          \/ \E i \in DOMAIN nodes :
                 ~PortsFit([listen |-> nodes[i].listen_port, http |-> nodes[i].http_port,
                            metrics |-> nodes[i].metrics_port])
       THEN {}
       ELSE {[nodes |-> nodes, services |-> LocalServices(args, material), instances |-> <<>>,
              peers |-> LocalPeers(nodes)]}

---------------------------------------------------------------------------
(* The remote bundle: a machine for each node and service, the same ports on *)
(* each, and names that the deployer's hosts file resolves.                  *)

RemotePorts == [listen |-> BasePort, http |-> BaseHttpPort, metrics |-> BaseMetricsPort]

RemoteValidators(args, material) ==
    [i \in 1 .. args.validators |->
        ValidatorConfig(args, material, material.primary[i],
                        BuildClusterMaterial(material).shares[material.primary[i]],
                        RemotePorts, <<"validator", i - 1>>, <<>>, <<>>)]

RemoteRelayerConfig(material) ==
    [i \in DOMAIN material.primary |->
        [public_key |-> material.primary[i], url |-> Url(material.primary[i], BaseHttpPort)]]

ChainIndexerUrl == Url(Host("chain"), ChainPort)

RemoteSecondaries(args, material) ==
    [i \in DOMAIN material.secondary |->
        LET role == SecondaryRoles(args)[i]
        IN ValidatorConfig(args, material, material.secondary[i], NoShare,
                           RemotePorts, SecondaryPrefix(i - 1),
                           IF role = "indexer" THEN <<ChainIndexerUrl>> ELSE <<>>,
                           IF role = "relayer" THEN <<RemoteRelayerConfig(material)>> ELSE <<>>)]

RelayerUrl(args, material) ==
    Url(material.secondary[IF args.indexer THEN 2 ELSE 1], BaseHttpPort)

\* The configs of the shared services and of the spammer.  No explorer is deployed.
RemoteServices(args, material) ==
    [chain    |-> IF args.indexer THEN <<[port |-> ChainPort]>> ELSE <<>>,
     metadata |-> IF args.indexer THEN <<[port |-> MetadataPort, store_url |-> ChainIndexerUrl]>> ELSE <<>>,
     qmdb     |-> IF args.indexer THEN <<[port |-> QmdbPort, store_url |-> ChainIndexerUrl]>> ELSE <<>>,
     explorer |-> <<>>,
     spammer  |-> IF args.spammer
                  THEN <<[relayer_url |-> RelayerUrl(args, material),
                          relayer_submitters |-> args.validators,
                          targets |-> material.primary, accounts |-> args.accounts]>>
                  ELSE <<>>]

Instance(name, region, group) == [name |-> name, region |-> region, group |-> group]
RegionAt(index) == Regions[(index % Len(Regions)) + 1]

SecondaryRegion(args, index) == IF args.indexer THEN Regions[1] ELSE RegionAt(index)

\* build_deployer_config: the instances, and the group that shares a zone.
BuildDeployerConfig(args, validators, secondaries) ==
    [i \in DOMAIN validators |-> Instance(validators[i].private_key, RegionAt(i - 1), "none")]
      \o [i \in DOMAIN secondaries |->
            Instance(secondaries[i].private_key, SecondaryRegion(args, i - 1),
                     IF secondaries[i].indexer # <<>> THEN "exoware" ELSE "none")]
      \o (IF args.indexer
          THEN <<Instance(Host("chain"), Regions[1], "exoware"),
                 Instance(Host("metadata"), Regions[1], "exoware"),
                 Instance(Host("qmdb"), Regions[1], "exoware")>>
          ELSE <<>>)
      \o (IF args.spammer THEN <<Instance(Host("spammer"), Regions[1], "none")>> ELSE <<>>)

RegionsFilled(args) == Len(Regions) <= args.validators

\* remote::generate.
RemoteBundle(args) ==
    LET material    == ClusterMaterial(args)
        validators  == RemoteValidators(args, material)
        secondaries == RemoteSecondaries(args, material)
    IN IF ~ValidGenerateArgs(args) \/ args.validators < 1 \/ ~RegionsFilled(args)
       THEN {}
       ELSE {[nodes |-> validators \o secondaries, services |-> RemoteServices(args, material),
              instances |-> BuildDeployerConfig(args, validators, secondaries), peers |-> <<>>]}

Generate(args) == IF args.target = "local" THEN LocalBundle(args) ELSE RemoteBundle(args)

---------------------------------------------------------------------------
(* Loading. *)

\* resolve_named_http_url of every binary: a name that is not a host stays.
ResolveNamedHttpUrl(url, hosts) ==
    IF url.host \in DOMAIN hosts THEN Url(hosts[url.host], url.port) ELSE url

\* decode_participants: a node must be listed.
DecodeParticipants(config) ==
    config.private_key \in Range(config.primary_validators) \cup Range(config.secondary_validators)

\* decode_with_network: a relayer is a secondary, and not an indexer too.
DecodeWithNetwork(config, advertise, bootstrappers, indexer, relayer) ==
    IF \/ Cardinality(config.dkg_output) > config.num_validators
       \/ config.dkg_share # NoShare /\ relayer # <<>>
       \/ indexer # <<>> /\ relayer # <<>>
    THEN {}
    ELSE {[key |-> config.private_key, share |-> config.dkg_share, dkg_output |-> config.dkg_output,
           genesis_leader |-> config.genesis_leader, advertise |-> advertise,
           listen |-> config.listen_port, http |-> config.http_port, metrics |-> config.metrics_port,
           primary |-> Range(config.primary_validators), secondary |-> Range(config.secondary_validators),
           bootstrappers |-> bootstrappers, directory |-> config.partition_prefix,
           indexer |-> indexer, relayer |-> relayer]}

\* load_local_config: this node and the bootstrappers are found in the peers file.
LoadLocalConfig(config, peers) ==
    IF ~DecodeParticipants(config)
       \/ ~({config.private_key} \cup Range(config.bootstrappers) \subseteq DOMAIN peers)
    THEN {}
    ELSE DecodeWithNetwork(config, peers[config.private_key].p2p,
                           {[key |-> k, address |-> peers[k].p2p] : k \in Range(config.bootstrappers)},
                           config.indexer, config.relayer)

\* load_deployer_config: likewise in the hosts file, and URLs are resolved.
LoadDeployerConfig(config, hosts) ==
    LET resolved == [i \in DOMAIN config.relayer |->
                        [j \in DOMAIN config.relayer[i] |->
                            [config.relayer[i][j] EXCEPT !.url = ResolveNamedHttpUrl(@, hosts)]]]
    IN IF ~DecodeParticipants(config)
          \/ ~({config.private_key} \cup Range(config.bootstrappers) \subseteq DOMAIN hosts)
       THEN {}
       ELSE DecodeWithNetwork(config, Url(hosts[config.private_key], config.listen_port),
                {[key |-> k, address |-> Url(hosts[k], config.listen_port)] : k \in Range(config.bootstrappers)},
                [i \in DOMAIN config.indexer |-> ResolveNamedHttpUrl(config.indexer[i], hosts)], resolved)

\* load_settings of metadata-indexer: port and Store.  That of qmdb-indexer is its
\* own copy; chain-indexer has nothing to resolve.
LoadMetadataSettings(service, hosts) ==
    [port |-> service.port, store_url |-> ResolveNamedHttpUrl(service.store_url, hosts)]
LoadQmdbSettings(service, hosts) ==
    [port |-> service.port, store_url |-> ResolveNamedHttpUrl(service.store_url, hosts)]
LoadChainSettings(service) == [port |-> service.port]

\* The spammer's settings, unless its assertions fail.  Zero streams mean one
\* for each target.
LoadSpammer(spammer, hosts) ==
    IF spammer.accounts < 2 THEN {}
    ELSE {[relayer_url |-> ResolveNamedHttpUrl(spammer.relayer_url, hosts),
           streams |-> IF spammer.relayer_submitters = 0
                       THEN IF Len(spammer.targets) > 1 THEN Len(spammer.targets) ELSE 1
                       ELSE spammer.relayer_submitters,
           targets |-> spammer.targets]}

\* The streams take turns at the targets.
RelayerTargetFor(targets, index) == targets[(index % Len(targets)) + 1]
=============================================================================
