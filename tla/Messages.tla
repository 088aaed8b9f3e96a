------------------------------ MODULE Messages ------------------------------
(***************************************************************************)
(* The messages of package protocol, and how booster.Network makes packets *)
(* of them and reads them back.  Every scalar is a number; 0 stands for    *)
(* the zero value of its type: "", false, 0.                               *)
(***************************************************************************)
EXTENDS Integers, Sequences

CONSTANT Half   \* an int32 is at least -Half and less than Half: 2^31 in the code
ASSUME HalfAssumption == Half \in Nat \ {0}

(* Go's conversion to an int32 keeps the low bits. *)
Int32s == (-Half)..(Half - 1)
Int32(n) == IF n \in Int32s THEN n ELSE ((n + Half) % (2 * Half)) - Half

(* Package proto, which is external: a scalar that is zero takes no bytes, *)
(* a message that is present does.                                         *)
Marshal(scalars, messages) ==
    [f \in {s \in DOMAIN scalars : scalars[s] # 0} \cup DOMAIN messages |->
       IF f \in DOMAIN messages THEN messages[f] ELSE scalars[f]]
NoMessages == [f \in {} |-> 0]
Get(m, f) == IF f \in DOMAIN m THEN m[f] ELSE 0

Version == 3

(* The payload type that each encoder, and decoder, of a message is for.   *)
PayloadType ==
    [Hello |-> "PayloadHello", Connect |-> "PayloadConnect", Disconnect |-> "PayloadDisconnect",
     Heartbeat |-> "PayloadHeartbeat", Monitor |-> "PayloadMonitor", Ctrl |-> "PayloadCtrl",
     NodeStatus |-> "PayloadNode", NetworkUsageUpdate |-> "PayloadBandwidth",
     ProxyUpdate |-> "PayloadProxyUpdate", NetworkUpdate |-> "PayloadNetworkUpdate"]

(* What a payload may be; a node always has an identifier.  An operation   *)
(* and a feature are int32s, while hops and copies are ints.               *)
Tunnels == [ID : Int, Target : Int, Copies : Int]
Nodes == [ID : Int \ {0}, BAddr : Int, PAddr : Int, Active : 0..1, Tunnels : Seq(Tunnels)]
Payloads ==
    [Hello |-> [BPort : Int, PPort : Int], Connect |-> [Target : Int], Disconnect |-> [ID : Int],
     Heartbeat |-> [ID : Int, Hops : Int, TTL : Int], Monitor |-> [Feature : Int32s],
     Ctrl |-> [Operation : Int32s], NodeStatus |-> Nodes,
     NetworkUsageUpdate |-> [NodeID : Int, Tot : Int, Bandwidth : Int, Type : Int],
     ProxyUpdate |-> [NodeID : Int, Target : Int, Operation : Int32s],
     NetworkUpdate |-> [NodeID : Int, RemoteNode : Nodes, Operation : Int32s]]

-----------------------------------------------------------------------------
(* Package protocol's encoders.                                            *)

EncodeHeader(msg) ==
    Marshal([protocolVersion |-> Version],
            [id |-> msg, sentAt |-> 0, modules |-> IF msg = "Notify" THEN <<>> ELSE <<"PA">>])

EncodeHello(d) == Marshal([pport |-> d.PPort, bport |-> d.BPort], NoMessages)
EncodeCtrl(d) == Marshal([operation |-> d.Operation], NoMessages)
EncodeMonitor(d) == Marshal([feature |-> d.Feature], NoMessages)
EncodeConnect(d) == Marshal([target |-> d.Target], NoMessages)
EncodeDisconnect(d) == Marshal([id |-> d.ID], NoMessages)
EncodeHeartbeat(d) == Marshal([id |-> d.ID, hops |-> Int32(d.Hops)], [ttl |-> d.TTL])
EncodeProxyUpdate(d) ==
    Marshal([nodeID |-> d.NodeID, target |-> d.Target, operation |-> d.Operation], NoMessages)
EncodeBandwidth(d) ==
    Marshal([nodeID |-> d.NodeID, tot |-> d.Tot, bandwidth |-> d.Bandwidth, type |-> d.Type],
            NoMessages)

(* Mutant: a tunnel without its copies. *)
NodeToInternalShort(d) ==
    LET tunnel(t) == Marshal([id |-> t.ID, target |-> t.Target], NoMessages)
    IN  Marshal([id |-> d.ID, baddr |-> d.BAddr, paddr |-> d.PAddr, active |-> d.Active],
                IF d.Tunnels = <<>> THEN NoMessages
                ELSE [tunnels |-> [i \in DOMAIN d.Tunnels |-> tunnel(d.Tunnels[i])]])

NodeToInternal(d) ==
    LET tunnel(t) == Marshal([id |-> t.ID, target |-> t.Target, copies |-> Int32(t.Copies)], NoMessages)
    IN  Marshal([id |-> d.ID, baddr |-> d.BAddr, paddr |-> d.PAddr, active |-> d.Active],
                IF d.Tunnels = <<>> THEN NoMessages
                ELSE [tunnels |-> [i \in DOMAIN d.Tunnels |-> tunnel(d.Tunnels[i])]])

EncodeNode(d) == NodeToInternal(d)
EncodeNetworkUpdate(d) ==
    Marshal([nodeID |-> d.NodeID, operation |-> d.Operation],
            [remoteNode |-> NodeToInternal(d.RemoteNode)])

PayloadEncode(msg, d) ==
    CASE msg = "Hello" -> EncodeHello(d)             [] msg = "Connect" -> EncodeConnect(d)
      [] msg = "Disconnect" -> EncodeDisconnect(d)   [] msg = "Heartbeat" -> EncodeHeartbeat(d)
      [] msg = "Monitor" -> EncodeMonitor(d)         [] msg = "Ctrl" -> EncodeCtrl(d)
      [] msg = "NodeStatus" -> EncodeNode(d)         [] msg = "NetworkUsageUpdate" -> EncodeBandwidth(d)
      [] msg = "ProxyUpdate" -> EncodeProxyUpdate(d) [] msg = "NetworkUpdate" -> EncodeNetworkUpdate(d)

-----------------------------------------------------------------------------
(* Its decoders.                                                           *)

DecodeHeader(m) ==
    [ID |-> m.id, ProtocolVersion |-> Get(m, "protocolVersion"), Modules |-> m.modules]

DecodeHello(m) == [BPort |-> Get(m, "bport"), PPort |-> Get(m, "pport")]
DecodeCtrl(m) == [Operation |-> Get(m, "operation")]
DecodeMonitor(m) == [Feature |-> Get(m, "feature")]
DecodeConnect(m) == [Target |-> Get(m, "target")]
DecodeDisconnect(m) == [ID |-> Get(m, "id")]
DecodeHeartbeat(m) == [ID |-> Get(m, "id"), Hops |-> Get(m, "hops"), TTL |-> Get(m, "ttl")]
DecodeProxyUpdate(m) ==
    [NodeID |-> Get(m, "nodeID"), Target |-> Get(m, "target"), Operation |-> Get(m, "operation")]
DecodeBandwidth(m) ==
    [NodeID |-> Get(m, "nodeID"), Tot |-> Get(m, "tot"), Bandwidth |-> Get(m, "bandwidth"),
     Type |-> Get(m, "type")]
NodeFromInternal(m) ==
    LET ts == IF "tunnels" \in DOMAIN m THEN m.tunnels ELSE <<>>
        tunnel(t) == [ID |-> Get(t, "id"), Target |-> Get(t, "target"), Copies |-> Get(t, "copies")]
    IN  [ID |-> Get(m, "id"), BAddr |-> Get(m, "baddr"), PAddr |-> Get(m, "paddr"),
         Active |-> Get(m, "active"), Tunnels |-> [i \in DOMAIN ts |-> tunnel(ts[i])]]
DecodeNode(m) == NodeFromInternal(m)
DecodeNetworkUpdate(m) ==
    [NodeID |-> Get(m, "nodeID"), RemoteNode |-> NodeFromInternal(m.remoteNode),
     Operation |-> Get(m, "operation")]

PayloadDecode(msg, m) ==
    CASE msg = "Hello" -> DecodeHello(m)             [] msg = "Connect" -> DecodeConnect(m)
      [] msg = "Disconnect" -> DecodeDisconnect(m)   [] msg = "Heartbeat" -> DecodeHeartbeat(m)
      [] msg = "Monitor" -> DecodeMonitor(m)         [] msg = "Ctrl" -> DecodeCtrl(m)
      [] msg = "NodeStatus" -> DecodeNode(m)         [] msg = "NetworkUsageUpdate" -> DecodeBandwidth(m)
      [] msg = "ProxyUpdate" -> DecodeProxyUpdate(m) [] msg = "NetworkUpdate" -> DecodeNetworkUpdate(m)

-----------------------------------------------------------------------------
(* booster.Network: a result is a value, an error, or a panic.             *)

Good(x) == [err |-> "", val |-> x]
Fail(why) == [err |-> why, val |-> NoMessages]

(* A payload is a pair of its type and value, or absent.  Json leaves the  *)
(* header a bare number; AddModule refuses a payload without bytes, and    *)
(* the encoder that a message lacks is a nil function.                     *)
Absent == <<>>
Encode(pl, msg, encoding) ==
    LET packet(m) == [encoding |-> encoding, modules |-> m]
        header == IF encoding = "json" THEN [number |-> msg] ELSE EncodeHeader(msg)
    IN  CASE pl = Absent -> Good(packet([HE |-> header]))
          [] pl # Absent /\ encoding = "json" -> Good(packet([HE |-> header, PA |-> pl[2]]))
          [] OTHER ->
               IF msg \notin DOMAIN PayloadType THEN Fail("panic")
               ELSE IF pl[1] # PayloadType[msg] THEN Fail("type")
               ELSE LET raw == PayloadEncode(msg, pl[2])
                    IN  IF DOMAIN raw = {} THEN Fail("size")
                        ELSE Good(packet([HE |-> header, PA |-> raw]))
EncodeDefault(pl, msg) == Encode(pl, msg, "protobuf")

(* The header of a json packet cannot be unmarshalled into a Header. *)
DecodeHead(p) ==
    IF p.encoding = "json" THEN Fail("header") ELSE Good(DecodeHeader(p.modules.HE))

ValidatePacket(p, h) ==
    /\ h.ProtocolVersion = Version
    /\ \A i \in DOMAIN h.Modules : h.Modules[i] \in DOMAIN p.modules

(* protocol.set refuses a value of another type. *)
Decode(p, type) ==
    LET h == DecodeHead(p) IN
    CASE h.err # "" -> h
      [] h.err = "" /\ ~ValidatePacket(p, h.val) -> Fail("invalid")
      [] OTHER ->
           IF "PA" \notin DOMAIN p.modules THEN Fail("module")
           ELSE IF h.val.ID \notin DOMAIN PayloadType THEN Fail("panic")
           ELSE IF PayloadType[h.val.ID] # type THEN Fail("type")
           ELSE Good(PayloadDecode(h.val.ID, p.modules.PA))

(* What the reader of a payload gets: the numbers of hops and of copies    *)
(* are cut to an int32 (encoder.go:180, 218), all else is as it was.       *)
CarriedNode(d) ==
    [d EXCEPT !.Tunnels = [i \in DOMAIN d.Tunnels |-> [d.Tunnels[i] EXCEPT !.Copies = Int32(@)]]]
Carried(msg, d) ==
    CASE msg = "Heartbeat" -> [d EXCEPT !.Hops = Int32(@)]
      [] msg = "NodeStatus" -> CarriedNode(d)
      [] msg = "NetworkUpdate" -> [d EXCEPT !.RemoteNode = CarriedNode(@)]
      [] OTHER -> d

(* A payload is read back so, or could not be encoded: which happens only  *)
(* to a payload whose fields are all zero.                                 *)
RoundTrips(msg, d) ==
    LET e == EncodeDefault(<<PayloadType[msg], d>>, msg)
    IN  IF e.err = "" THEN Decode(e.val, PayloadType[msg]) = Good(Carried(msg, d))
        ELSE e.err = "size" /\ \A f \in DOMAIN d : d[f] = 0
=============================================================================
