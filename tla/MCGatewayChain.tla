--------------------------- MODULE MCGatewayChain ---------------------------
(* GatewayChain for TLC: two fetches over no gateway, over the default     *)
(* chain, and over one that names a gateway twice, so that both fetches    *)
(* and both positions share a counter.                                     *)
EXTENDS GatewayChain, TLC

MCGateway == {"dweb", "ipfs"}
MCChains == { <<>>, <<"dweb", "ipfs">>, <<"dweb", "ipfs", "dweb">> }
=============================================================================
