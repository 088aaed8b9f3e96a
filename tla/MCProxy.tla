------------------------------ MODULE MCProxy ------------------------------
(* Addresses of each kind, with a port of two bytes. *)
EXTENDS Proxy

(* Upwards, a byte makes half a chunk; downwards there is more than one. *)
MCMaxBytes == [download |-> 2, upload |-> 1]

MCAddresses ==
    {[kind |-> "ip4", bytes |-> <<127, 0, 0, 1>>, port |-> 4884],
     [kind |-> "ip6", bytes |-> [i \in 1..16 |-> i], port |-> 80],
     [kind |-> "fqdn", bytes |-> <<3, 1>>, port |-> 443]}
=============================================================================
