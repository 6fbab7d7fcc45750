SPECIFICATION Spec
CONSTANTS
    PortCount = 65536
    SecondarySeedOffset = 1000000
    Bootstrappers = 3
    BasePort = 9000
    BaseHttpPort = 8080
    BaseMetricsPort = 9090
    ChainPort = 8090
    MetadataPort = 8091
    QmdbPort = 8092
    Regions <- MCRegions
    Arguments <- MCArguments
INVARIANTS
    PortsAreFree
CHECK_DEADLOCK FALSE
