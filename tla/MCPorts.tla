------------------------------ MODULE MCPorts ------------------------------
(***************************************************************************)
(* The local deployment with the ports that constantinople-deploy has by   *)
(* default, for TLC: nine validators, an indexer and a relayer.            *)
(***************************************************************************)
EXTENDS Deployment

MCArguments == [validators : {9}, indexer : {TRUE}, relayer : {TRUE}, spammer : {FALSE},
                target : {"local"}, startup : {"marshal_sync"}, accounts : {2}]
MCRegions == <<"r1">>
=============================================================================
