----------------------------- MODULE Deployment -----------------------------
(***************************************************************************)
(* A deployment from its arguments on: the bundle is generated, on a remote *)
(* target the deployer provides machines and a hosts file, and processes    *)
(* start in any order, bind their ports (bin/validator/src/run.rs and the   *)
(* main functions of the services), exit and start again.                   *)
(***************************************************************************)
EXTENDS DeployConfig

CONSTANT Arguments          \* of constantinople-deploy: records

VARIABLES
    args,       \* <<>>, or the arguments given last
    bundle,     \* {} before, or if the generator panicked, else its files
    hosts,      \* the hosts file; on a local target the machine itself
    status,     \* of each process: "down", "up", or how it failed
    settings    \* what each running process loaded

vars == <<args, bundle, hosts, status, settings>>

Services == {"chain", "metadata", "qmdb", "explorer", "spammer"}
Node(i) == <<"node", i>>
Service(s) == <<s, 0>>

Files == CHOOSE b \in bundle : TRUE
Processes == IF bundle = {} THEN {}
             ELSE {Node(i) : i \in DOMAIN Files.nodes}
                    \cup {Service(s) : s \in {x \in Services : Files.services[x] # <<>>}}
IsNode(p) == p[1] = "node"

Init == args = <<>> /\ bundle = {} /\ hosts = <<>> /\ status = <<>> /\ settings = <<>>

\* constantinople-deploy: an output directory that exists is left alone, and a
\* panic comes before anything is written.
GenerateBundle(a) ==
    /\ bundle = {}
    /\ args' = <<a>> /\ bundle' = Generate(a)
    /\ status' = [p \in Processes' |-> "down"]
    /\ settings' = [p \in Processes' |-> {}]
    /\ UNCHANGED hosts

Local == args[1].target = "local"
Ready == bundle # {} /\ (Local \/ hosts # <<>>)

\* The deployer starts one machine for each instance.
Provision == /\ bundle # {} /\ ~Local /\ hosts = <<>>
             /\ LET instances == Files.instances
                IN hosts' = [n \in {instances[i].name : i \in DOMAIN instances} |->
                                Ip(CHOOSE i \in DOMAIN instances : instances[i].name = n)]
             /\ UNCHANGED <<args, bundle, status, settings>>

HostName(p) == IF IsNode(p) THEN Files.nodes[p[2]].private_key ELSE Host(p[1])
Machine(p) == IF Local THEN Loopback ELSE hosts[HostName(p)]

\* What p loads: a set, empty if it panics.
Load(p) ==
    LET service == Files.services[p[1]][1]
    IN IF IsNode(p) THEN IF Local THEN LoadLocalConfig(Files.nodes[p[2]], Files.peers)
                         ELSE LoadDeployerConfig(Files.nodes[p[2]], hosts)
       ELSE CASE p[1] = "chain"    -> {LoadChainSettings(service)}
              [] p[1] = "metadata" -> {LoadMetadataSettings(service, hosts)}
              [] p[1] = "qmdb"     -> {LoadQmdbSettings(service, hosts)}
              [] p[1] = "spammer"  -> LoadSpammer(service, hosts)
              [] p[1] = "explorer" -> {service}

---------------------------------------------------------------------------
(* Processes. *)

\* Only primaries have a mempool server, and relayers their own.
ServesHttp(node) == node.share # NoShare \/ node.relayer # <<>>

\* The addresses on which a process with these settings listens, and as what.
Serving(p, s) ==
    LET at(port, what) == [address |-> Url(Machine(p), port), what |-> what]
    IN IF IsNode(p)
       THEN {at(s.metrics, <<"metrics", s.key>>), at(s.listen, <<"p2p", s.key>>)}
              \cup IF ServesHttp(s)
                   THEN {at(s.http, IF s.share # NoShare THEN <<"mempool", s.key>> ELSE <<"relayer">>)}
                   ELSE {}
       ELSE IF p[1] \in {"chain", "metadata", "qmdb"} THEN {at(s.port, <<p[1]>>)}
       ELSE {}

\* The addresses a process connects to, and what it takes them for.
Needs(p, s) ==
    LET need(url, what) == [address |-> url, what |-> what]
    IN IF IsNode(p)
       THEN {need(b.address, <<"p2p", b.key>>) : b \in s.bootstrappers}
              \cup {need(url, <<"chain">>) : url \in Range(s.indexer)}
              \cup UNION {{need(l.url, <<"mempool", l.public_key>>) : l \in Range(ls)} : ls \in Range(s.relayer)}
       ELSE CASE p[1] \in {"metadata", "qmdb"} -> {need(s.store_url, <<"chain">>)}
              [] p[1] = "spammer"  -> {need(s.relayer_url, <<"relayer">>)}
              [] p[1] = "explorer" -> {need(s.sql, <<"metadata">>), need(s.qmdb, <<"qmdb">>), need(s.store, <<"chain">>)}
                                        \cup {need(url, <<"relayer">>) : url \in Range(s.mempool)}
              [] OTHER -> {}

Up == {p \in DOMAIN status : status[p] = "up"}
Settings(p) == CHOOSE s \in settings[p] : TRUE
Bound == UNION {{x.address : x \in Serving(p, Settings(p))} : p \in Up}

\* Settings are loaded, then every port is bound.
Start(p) ==
    /\ Ready /\ status[p] = "down"
    /\ LET loaded == Load(p)
           wants  == UNION {{x.address : x \in Serving(p, s)} : s \in loaded}
           twice  == \E s \in loaded : Cardinality(wants) # Cardinality(Serving(p, s))
       IN /\ status' = [status EXCEPT ![p] = IF loaded = {} THEN "rejected"
                                             ELSE IF twice \/ wants \cap Bound # {} THEN "unbound"
                                             ELSE "up"]
          /\ settings' = [settings EXCEPT ![p] = IF status'[p] = "up" THEN loaded ELSE {}]
    /\ UNCHANGED <<args, bundle, hosts>>

\* A process ends, and with it its listeners.
Exit(p) == /\ status[p] = "up"
           /\ status' = [status EXCEPT ![p] = "down"]
           /\ settings' = [settings EXCEPT ![p] = {}]
           /\ UNCHANGED <<args, bundle, hosts>>

Next == \/ \E a \in Arguments : GenerateBundle(a)
        \/ Provision
        \/ \E p \in DOMAIN status : Start(p) \/ Exit(p)

Spec == Init /\ [][Next]_vars

---------------------------------------------------------------------------
(* Properties. *)

\* Every variable has its type; a process that runs has settings.
DeployTypeOK ==
    /\ args \in {<<>>} \cup {<<a>> : a \in Arguments}
    /\ Cardinality(bundle) <= 1 /\ (bundle # {} => args # <<>>)
    /\ DOMAIN status = Processes /\ DOMAIN settings = Processes
    /\ \A p \in Processes : /\ status[p] \in {"down", "up", "rejected", "unbound"}
                             /\ settings[p] # {} <=> status[p] = "up"

\* A validator accepts the config the generator wrote for it: it finds itself
\* and its bootstrappers in the files, and its roles do not exclude each other.
ConfigsLoad == \A p \in DOMAIN status : IsNode(p) => status[p] # "rejected"

\* Whatever the order in which processes start and come back, none finds one of
\* its ports taken by another: "Secondary ports start after the primary range to
\* avoid collisions on the same loopback host." (local.rs:145), and a range that
\* does not fit in the port numbers is refused rather than wrapped.
PortsAreFree == \A p \in DOMAIN status : status[p] # "unbound"

\* The ranges of the nodes' ports meet neither each other nor the services' ports.
\* The generator does not compare them.
RangesApart ==
    Ready /\ Local =>
        LET range(base) == base .. base + Len(Files.nodes) - 1
            ranges == <<range(BasePort), range(BaseHttpPort), range(BaseMetricsPort),
                        IF args[1].indexer THEN {ChainPort, MetadataPort, QmdbPort} ELSE {}>>
        IN \A i, j \in DOMAIN ranges : i # j => ranges[i] \cap ranges[j] = {}

\* What a process takes an address for and what listens there agree: the
\* bootstrappers' sockets, the relayer's leaders, the Store, and the relayer in
\* the eyes of spammer and explorer, though each is computed in its own place.
AddressesAgree ==
    \A p, q \in Up :
        \A n \in Needs(p, Settings(p)), s \in Serving(q, Settings(q)) :
            n.address = s.address <=> n.what = s.what

\* Running nodes are of one cluster: they agree on who votes and who follows, on
\* the genesis leader and on the dealing, each is listed in its place, exactly
\* the voters hold a share, a bootstrapper is a voter, and the relayer and the
\* streams of the spammer reach exactly the voters.
OneCluster ==
    LET nodes == {Settings(p) : p \in {x \in Up : IsNode(x)}}
    IN /\ \A m, n \in nodes :
              /\ m.primary = n.primary /\ m.secondary = n.secondary
              /\ m.genesis_leader = n.genesis_leader /\ m.dkg_output = n.dkg_output
              /\ m.key \in n.primary <=> m.share # NoShare
              /\ m.key \in n.secondary <=> m.share = NoShare
       /\ \A n \in nodes :
              /\ n.genesis_leader \in n.primary /\ n.dkg_output = n.primary
              /\ \A b \in n.bootstrappers : b.key \in n.primary
              /\ \A ls \in Range(n.relayer) : {l.public_key : l \in Range(ls)} = n.primary
              /\ Service("spammer") \in Up =>
                     LET s == Settings(Service("spammer"))
                     IN {RelayerTargetFor(s.targets, i) : i \in 0 .. s.streams - 1} = n.primary
              /\ Service("explorer") \in Up => Settings(Service("explorer")).material = n.dkg_output

\* Two nodes on one machine never share a storage directory, so neither opens
\* the other's journals after a restart.
DataIsApart ==
    \A p, q \in {x \in Up : IsNode(x)} :
        p # q /\ Machine(p) = Machine(q) => Settings(p).directory # Settings(q).directory

\* The files the deployer writes fit each other in every order of starting: they
\* load, the nodes form one cluster and keep their data apart; and where the ranges
\* of ports are apart, ports are free and addresses lead to the right process.
ClusterFits == /\ ConfigsLoad /\ OneCluster /\ DataIsApart
               /\ RangesApart => PortsAreFree /\ AddressesAgree
=============================================================================
