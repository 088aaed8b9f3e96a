---------------------------- MODULE MCInspection ----------------------------
(* A run of the node that stops, and the next, with a peer of each, in one *)
(* place of the proxy's topic; two clients that watch nodes, or a gateway  *)
(* and a client that watch bandwidths, in one place of theirs; and such a  *)
(* client, or a gateway, of a node that stops.                             *)
EXTENDS Inspection

MCKind == [root1 |-> "root", root2 |-> "root", peer1 |-> "status", peer2 |-> "status",
           watch1 |-> "node", watch2 |-> "node", browser |-> "net", net |-> "net"]
MCStreams == DOMAIN MCKind
MCRunOf == [s \in MCStreams |-> IF s \in {"root2", "peer2"} THEN 2 ELSE 1]
MCGateways == {"browser"}
MCCasts == {{"root1", "root2", "peer1", "peer2"},
            {"watch1", "watch2"}, {"browser", "net"}, {"root1", "watch1"}, {"root1", "browser"}}
MCSlow == {"root1", "peer1", "watch1", "browser"}
MCMaxSubs == [t \in Topics |-> 1]
=============================================================================
