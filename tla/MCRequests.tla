----------------------------- MODULE MCRequests -----------------------------
(* One client may ask for anything, two others compete with it for a node. *)
EXTENDS Requests

MCClients == {"any", "rival", "third"}

Connects(ts) == {<<"Connect", [Target |-> t]>> : t \in ts}
Disconnects(ids) == {<<"Disconnect", [ID |-> t]>> : t \in ids}

MCAsks ==
    [any |-> Connects({1, 2, 3}) \cup Disconnects({1, 99})
             \cup {<<"Ctrl", [Operation |-> o]>> : o \in {0, 1}}
             \cup {<<"Monitor", [Feature |-> f]>> : f \in {1, 3}}
             \cup {<<"Heartbeat", [ID |-> 1, Hops |-> 3, TTL |-> 1]>>},
     rival |-> Connects({1}),
     third |-> Connects({1})]

(* A value of each payload whose fields differ, one that is all zero, and  *)
(* numbers of hops and copies at and beyond an int32's bounds, which are   *)
(* -4 and 3 here.                                                          *)
Node == [ID |-> 1, BAddr |-> 2, PAddr |-> 3, Active |-> 1,
         Tunnels |-> <<[ID |-> 4, Target |-> 5, Copies |-> 2], [ID |-> 0, Target |-> 6, Copies |-> 4]>>]
MCSamples ==
    {<<"Hello", [BPort |-> 1, PPort |-> 2]>>, <<"Connect", [Target |-> 1]>>, <<"Connect", [Target |-> 0]>>,
     <<"Disconnect", [ID |-> 1]>>, <<"Disconnect", [ID |-> 0]>>,
     <<"Heartbeat", [ID |-> 0, Hops |-> 2, TTL |-> 3]>>, <<"Heartbeat", [ID |-> 0, Hops |-> 8, TTL |-> 0]>>,
     <<"Heartbeat", [ID |-> 1, Hops |-> -4, TTL |-> 3]>>, <<"Monitor", [Feature |-> 0]>>,
     <<"Monitor", [Feature |-> 2]>>, <<"Ctrl", [Operation |-> 0]>>, <<"Ctrl", [Operation |-> 2]>>,
     <<"NetworkUsageUpdate", [NodeID |-> 1, Tot |-> 2, Bandwidth |-> 0, Type |-> 4]>>,
     <<"ProxyUpdate", [NodeID |-> 1, Target |-> 2, Operation |-> 3]>>,
     <<"NodeStatus", Node>>, <<"NodeStatus", [Node EXCEPT !.Tunnels = <<>>, !.Active = 0]>>,
     <<"NetworkUpdate", [NodeID |-> 7, RemoteNode |-> Node, Operation |-> 1]>>}
=============================================================================
