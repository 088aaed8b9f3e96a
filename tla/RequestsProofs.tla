--------------------------- MODULE RequestsProofs ---------------------------
(***************************************************************************)
(* Proofs about Requests and Messages: every payload is read back as it    *)
(* was, but for numbers that no int32 holds, and, for any clients,         *)
(* whatever they ask and any targets, what is under way is understood, a   *)
(* target has one connection, and the accept loop ends only by a hello     *)
(* that could not be sent, a request to stop or a failing listener.        *)
(***************************************************************************)
EXTENDS Requests, SequenceTheorems, TLAPS

ClientStates == {"idle", "hello", "answer", "ok", "failed", "dead"}
Wiring == {"dial", "add", "notify", "activate", "reply"}
Handlers == {"none", "read", "stuck", "done"} \cup Wiring

LoopOK ==
    /\ accept \in {"accept", "hello", "failed", "ended"}
    /\ greeted \in Clients \cup {Nobody} /\ backlog \in Seq(Clients)
    /\ listening \in BOOLEAN /\ serve \in {"wait", "closing", "returned"}
    /\ ctxDone \in BOOLEAN /\ refused \in BOOLEAN
ClientsOK ==
    /\ client \in [Clients -> ClientStates]
    /\ ask = [c \in Clients |-> ask[c]]
    /\ \A c \in Clients : client[c] # "idle" => ask[c] \in Asks[c]
    /\ up = [c \in Clients |-> up[c]] /\ down = [c \in Clients |-> down[c]]
    /\ cOpen \in [Clients -> BOOLEAN] /\ sOpen \in [Clients -> BOOLEAN]
HandlersOK ==
    /\ handler \in [Clients -> Handlers]
    /\ wired \in [Clients -> [conn : {"none", "open", "closed"}, active : 0..1]]
    /\ outgoing \in [Targets -> Clients \cup {Nobody}]
TypeOK == LoopOK /\ ClientsOK /\ HandlersOK

(* Who waits to be accepted, or for its hello, waits once, and nobody      *)
(* handles it yet.                                                         *)
Queued(c) == c = greeted \/ \E i \in 1..Len(backlog) : backlog[i] = c
Queue ==
    /\ accept = "hello" <=> greeted # Nobody
    /\ \A i, j \in 1..Len(backlog) : backlog[i] = backlog[j] => i = j
    /\ \A i \in 1..Len(backlog) : backlog[i] # greeted
    /\ \A c \in Clients :
          Queued(c) => client[c] \in {"hello", "dead"} /\ handler[c] = "none" /\ sOpen[c]

(* What client and handler have said to each other. *)
HelloPacket == EncodeDefault(<<"PayloadHello", [PPort |-> 1, BPort |-> 2]>>, "Hello").val
Request(c) == EncodeDefault(<<PayloadType[ask[c][1]], ask[c][2]>>, ask[c][1])
Answers(c) == down[c] = <<>> \/ \E p : down[c] = <<p>> /\ Decode(p, Expected(c)).err = ""
Unmet(c) ==
    /\ client[c] = "idle" => handler[c] = "none"
    /\ handler[c] = "none" => /\ client[c] \in {"idle", "hello", "dead", "failed"}
                              /\ up[c] = <<>> /\ down[c] = <<>> /\ wired[c].conn = "none"
Greeting(c) ==
    client[c] = "hello" => /\ handler[c] \in {"none", "read"} /\ cOpen[c]
                           /\ up[c] = <<>> /\ down[c] \in {<<>>, <<HelloPacket>>}
Asking(c) ==
    up[c] # <<>> => /\ up[c] = <<Request(c).val>> /\ Request(c).err = ""
                    /\ handler[c] = "read" /\ client[c] # "idle"
                    /\ client[c] = "answer" => down[c] = <<>>
                    /\ ask[c][1] = "Ctrl" => client[c] = "ok"
ToConnect(c) == ask[c][1] = "Connect" /\ (client[c] = "answer" => down[c] = <<>>)
Wires(c) == handler[c] \in Wiring => up[c] = <<>> /\ ToConnect(c)
TalkOf(c) ==
    /\ Unmet(c) /\ Greeting(c) /\ Asking(c) /\ Wires(c)
    /\ client[c] = "answer" => Answers(c)
Talk == \A c \in Clients : TalkOf(c)

(* An open connection is the one the network has for its target. *)
Conns == \A c \in Clients : wired[c].conn = "open" => ask[c][1] = "Connect" /\ outgoing[Target(c)] = c

(* Why the context has ended. *)
Stopped == \E c \in Clients : client[c] = "ok" /\ ask[c][1] = "Ctrl"
Ending ==
    /\ ctxDone => accept = "ended" \/ Stopped
    /\ ~listening => ctxDone
Ends ==
    accept \in {"failed", "ended"} =>
      \/ refused
      \/ \E c \in Clients : client[c] = "dead" /\ handler[c] = "none"
      \/ Stopped

(* The inductive invariant. *)
IInv == TypeOK /\ Queue /\ Talk /\ Conns /\ Ending /\ Ends

-----------------------------------------------------------------------------
(* The messages. *)

(* Payloads of scalars only, and of zeros. *)
Zeros(d) == \A f \in DOMAIN d : d[f] = 0

LEMMA FlatRead ==
    /\ \A d \in Payloads["Hello"] :
          DecodeHello(EncodeHello(d)) = d /\ (DOMAIN EncodeHello(d) = {} => Zeros(d))
    /\ \A d \in Payloads["Connect"] :
          DecodeConnect(EncodeConnect(d)) = d /\ (DOMAIN EncodeConnect(d) = {} => Zeros(d))
    /\ \A d \in Payloads["Disconnect"] :
          DecodeDisconnect(EncodeDisconnect(d)) = d /\ (DOMAIN EncodeDisconnect(d) = {} => Zeros(d))
    /\ \A d \in Payloads["Monitor"] :
          DecodeMonitor(EncodeMonitor(d)) = d /\ (DOMAIN EncodeMonitor(d) = {} => Zeros(d))
    /\ \A d \in Payloads["Ctrl"] :
          DecodeCtrl(EncodeCtrl(d)) = d /\ (DOMAIN EncodeCtrl(d) = {} => Zeros(d))
    /\ \A d \in Payloads["ProxyUpdate"] :
          DecodeProxyUpdate(EncodeProxyUpdate(d)) = d /\ (DOMAIN EncodeProxyUpdate(d) = {} => Zeros(d))
    /\ \A d \in Payloads["NetworkUsageUpdate"] :
          DecodeBandwidth(EncodeBandwidth(d)) = d /\ (DOMAIN EncodeBandwidth(d) = {} => Zeros(d))
<1> USE DEF Payloads, Marshal, Get, NoMessages, Zeros
<1>1. ASSUME NEW d \in Payloads["Hello"]
      PROVE  DecodeHello(EncodeHello(d)) = d /\ (DOMAIN EncodeHello(d) = {} => Zeros(d))
  <2>1. DecodeHello(EncodeHello(d)) = d
    BY DEF DecodeHello, EncodeHello
  <2>2. DOMAIN EncodeHello(d) = {} => Zeros(d)
    BY DEF EncodeHello
  <2> QED
    BY <2>1, <2>2
<1>2. ASSUME NEW d \in Payloads["Connect"]
      PROVE  DecodeConnect(EncodeConnect(d)) = d /\ (DOMAIN EncodeConnect(d) = {} => Zeros(d))
  <2>1. DecodeConnect(EncodeConnect(d)) = d
    BY DEF DecodeConnect, EncodeConnect
  <2>2. DOMAIN EncodeConnect(d) = {} => Zeros(d)
    BY DEF EncodeConnect
  <2> QED
    BY <2>1, <2>2
<1>3. ASSUME NEW d \in Payloads["Disconnect"]
      PROVE  DecodeDisconnect(EncodeDisconnect(d)) = d /\ (DOMAIN EncodeDisconnect(d) = {} => Zeros(d))
  <2>1. DecodeDisconnect(EncodeDisconnect(d)) = d
    BY DEF DecodeDisconnect, EncodeDisconnect
  <2>2. DOMAIN EncodeDisconnect(d) = {} => Zeros(d)
    BY DEF EncodeDisconnect
  <2> QED
    BY <2>1, <2>2
<1>4. ASSUME NEW d \in Payloads["Monitor"]
      PROVE  DecodeMonitor(EncodeMonitor(d)) = d /\ (DOMAIN EncodeMonitor(d) = {} => Zeros(d))
  <2>1. DecodeMonitor(EncodeMonitor(d)) = d
    BY DEF DecodeMonitor, EncodeMonitor
  <2>2. DOMAIN EncodeMonitor(d) = {} => Zeros(d)
    BY DEF EncodeMonitor
  <2> QED
    BY <2>1, <2>2
<1>5. ASSUME NEW d \in Payloads["Ctrl"]
      PROVE  DecodeCtrl(EncodeCtrl(d)) = d /\ (DOMAIN EncodeCtrl(d) = {} => Zeros(d))
  <2>1. DecodeCtrl(EncodeCtrl(d)) = d
    BY DEF DecodeCtrl, EncodeCtrl
  <2>2. DOMAIN EncodeCtrl(d) = {} => Zeros(d)
    BY DEF EncodeCtrl
  <2> QED
    BY <2>1, <2>2
<1>6. ASSUME NEW d \in Payloads["ProxyUpdate"]
      PROVE  DecodeProxyUpdate(EncodeProxyUpdate(d)) = d /\ (DOMAIN EncodeProxyUpdate(d) = {} => Zeros(d))
  <2>1. DecodeProxyUpdate(EncodeProxyUpdate(d)) = d
    BY DEF DecodeProxyUpdate, EncodeProxyUpdate
  <2>2. DOMAIN EncodeProxyUpdate(d) = {} => Zeros(d)
    BY DEF EncodeProxyUpdate
  <2> QED
    BY <2>1, <2>2
<1>7. ASSUME NEW d \in Payloads["NetworkUsageUpdate"]
      PROVE  DecodeBandwidth(EncodeBandwidth(d)) = d /\ (DOMAIN EncodeBandwidth(d) = {} => Zeros(d))
  <2>1. DecodeBandwidth(EncodeBandwidth(d)) = d
    BY DEF DecodeBandwidth, EncodeBandwidth
  <2>2. DOMAIN EncodeBandwidth(d) = {} => Zeros(d)
    BY DEF EncodeBandwidth
  <2> QED
    BY <2>1, <2>2
<1> QED
  BY <1>1, <1>2, <1>3, <1>4, <1>5, <1>6, <1>7

LEMMA HeartbeatRead ==
  ASSUME NEW d \in Payloads["Heartbeat"]
  PROVE  DecodeHeartbeat(EncodeHeartbeat(d)) = Carried("Heartbeat", d) /\ DOMAIN EncodeHeartbeat(d) # {}
<1> DEFINE s == [id |-> d.ID, hops |-> Int32(d.Hops)]
           m == [ttl |-> d.TTL]
<1>1. DOMAIN s = {"id", "hops"} /\ DOMAIN m = {"ttl"}
  OBVIOUS
<1>2. /\ Get(Marshal(s, m), "id") = d.ID /\ Get(Marshal(s, m), "hops") = Int32(d.Hops)
      /\ Get(Marshal(s, m), "ttl") = d.TTL /\ DOMAIN Marshal(s, m) # {}
  BY <1>1 DEF Marshal, Get
<1>3. [d EXCEPT !.Hops = Int32(@)] = [ID |-> d.ID, Hops |-> Int32(d.Hops), TTL |-> d.TTL]
  BY DEF Payloads
<1> QED
  BY <1>2, <1>3 DEF DecodeHeartbeat, EncodeHeartbeat, Carried

(* Tunnels, and the nodes that hold them. *)
LEMMA TunnelRead ==
  ASSUME NEW t \in Tunnels,
         NEW m, m = Marshal([id |-> t.ID, target |-> t.Target, copies |-> Int32(t.Copies)], NoMessages)
  PROVE  [ID |-> Get(m, "id"), Target |-> Get(m, "target"), Copies |-> Get(m, "copies")]
           = [t EXCEPT !.Copies = Int32(@)]
<1>1. Get(m, "id") = t.ID /\ Get(m, "target") = t.Target /\ Get(m, "copies") = Int32(t.Copies)
  BY DEF Marshal, Get, NoMessages
<1>2. [t EXCEPT !.Copies = Int32(@)] = [ID |-> t.ID, Target |-> t.Target, Copies |-> Int32(t.Copies)]
  BY DEF Tunnels
<1> QED
  BY <1>1, <1>2

LEMMA NodeRead ==
  ASSUME NEW d \in Nodes
  PROVE  NodeFromInternal(NodeToInternal(d)) = CarriedNode(d) /\ DOMAIN NodeToInternal(d) # {}
<1> DEFINE tunnel(t) == Marshal([id |-> t.ID, target |-> t.Target, copies |-> Int32(t.Copies)], NoMessages)
           tunnels == [i \in DOMAIN d.Tunnels |-> tunnel(d.Tunnels[i])]
           s == [id |-> d.ID, baddr |-> d.BAddr, paddr |-> d.PAddr, active |-> d.Active]
           m == IF d.Tunnels = <<>> THEN NoMessages ELSE [tunnels |-> tunnels]
           n == Marshal(s, m)
           ts == IF "tunnels" \in DOMAIN n THEN n.tunnels ELSE <<>>
           cut(t) == [t EXCEPT !.Copies = Int32(@)]
           carried == [i \in DOMAIN d.Tunnels |-> cut(d.Tunnels[i])]
           read(t) == [ID |-> Get(t, "id"), Target |-> Get(t, "target"), Copies |-> Get(t, "copies")]
<1>1. /\ d.Tunnels \in Seq(Tunnels)
      /\ CarriedNode(d) = [ID |-> d.ID, BAddr |-> d.BAddr, PAddr |-> d.PAddr,
                           Active |-> d.Active, Tunnels |-> carried]
  <2>1. CarriedNode(d) = [d EXCEPT !.Tunnels = carried]
    BY DEF CarriedNode
  <2> HIDE DEF carried
  <2> QED
    BY <2>1 DEF Nodes
<1>2. NodeToInternal(d) = n
  BY DEF NodeToInternal
<1>3. NodeFromInternal(n) =
         [ID |-> Get(n, "id"), BAddr |-> Get(n, "baddr"), PAddr |-> Get(n, "paddr"),
          Active |-> Get(n, "active"), Tunnels |-> [i \in DOMAIN ts |-> read(ts[i])]]
  BY DEF NodeFromInternal
<1>4. /\ Get(n, "id") = d.ID /\ Get(n, "baddr") = d.BAddr /\ Get(n, "paddr") = d.PAddr
      /\ Get(n, "active") = d.Active /\ "id" \in DOMAIN n
  <2>1. DOMAIN m \in {{}, {"tunnels"}}
    BY DEF NoMessages
  <2>2. d.ID # 0
    BY DEF Nodes
  <2> HIDE DEF m
  <2> QED
    BY <2>1, <2>2 DEF Marshal, Get
<1>5. [i \in DOMAIN ts |-> read(ts[i])] = carried
  <2>1. CASE d.Tunnels = <<>>
    <3>1. "tunnels" \notin DOMAIN n
      BY <2>1 DEF Marshal, NoMessages
    <3>2. ts = <<>>
      BY <3>1
    <3> HIDE DEF ts
    <3> QED
      BY <2>1, <3>2
  <2>2. CASE d.Tunnels # <<>>
    <3>1. "tunnels" \in DOMAIN n /\ n.tunnels = tunnels
      <4> HIDE DEF tunnels
      <4> QED
        BY <2>2 DEF Marshal
    <3>2. ts = tunnels
      BY <3>1
    <3>3. \A i \in DOMAIN d.Tunnels : d.Tunnels[i] \in Tunnels
      BY <1>1
    <3>4. \A i \in DOMAIN d.Tunnels : read(tunnels[i]) = cut(d.Tunnels[i])
      BY <3>3, TunnelRead
    <3>5. DOMAIN tunnels = DOMAIN d.Tunnels
      OBVIOUS
    <3> HIDE DEF ts, tunnels, read, cut
    <3> QED
      BY <1>1, <3>2, <3>4, <3>5
  <2> QED
    BY <2>1, <2>2
<1> HIDE DEF n, ts, read, cut
<1> QED
  BY <1>1, <1>2, <1>3, <1>4, <1>5

LEMMA NetworkUpdateRead ==
  ASSUME NEW d \in Payloads["NetworkUpdate"]
  PROVE  /\ DecodeNetworkUpdate(EncodeNetworkUpdate(d)) = Carried("NetworkUpdate", d)
         /\ DOMAIN EncodeNetworkUpdate(d) # {}
<1> DEFINE r == NodeToInternal(d.RemoteNode)
           n == Marshal([nodeID |-> d.NodeID, operation |-> d.Operation], [remoteNode |-> r])
<1>1. d.RemoteNode \in Nodes
  BY DEF Payloads
<1>2. NodeFromInternal(r) = CarriedNode(d.RemoteNode)
  BY <1>1, NodeRead
<1> HIDE DEF r
<1>3. /\ Get(n, "nodeID") = d.NodeID /\ Get(n, "operation") = d.Operation
      /\ n.remoteNode = r /\ DOMAIN n # {}
  BY DEF Marshal, Get
<1> HIDE DEF n
<1>4. EncodeNetworkUpdate(d) = n
  BY DEF EncodeNetworkUpdate, n, r
<1>5. [d EXCEPT !.RemoteNode = CarriedNode(@)] =
         [NodeID |-> d.NodeID, RemoteNode |-> CarriedNode(d.RemoteNode), Operation |-> d.Operation]
  BY DEF Payloads
<1> QED
  BY <1>2, <1>3, <1>4, <1>5 DEF DecodeNetworkUpdate, Carried

(* Every payload is read back as RoundTrips says; only one of zeros has no *)
(* bytes.                                                                  *)
LEMMA PayloadRead ==
  ASSUME NEW msg \in DOMAIN Payloads, NEW d \in Payloads[msg]
  PROVE  /\ PayloadDecode(msg, PayloadEncode(msg, d)) = Carried(msg, d)
         /\ DOMAIN PayloadEncode(msg, d) = {} => Zeros(d)
<1> USE DEF PayloadEncode, PayloadDecode
<1>1. CASE msg = "Hello"
  BY <1>1, FlatRead DEF Carried
<1>2. CASE msg = "Connect"
  BY <1>2, FlatRead DEF Carried
<1>3. CASE msg = "Disconnect"
  BY <1>3, FlatRead DEF Carried
<1>4. CASE msg = "Heartbeat"
  BY <1>4, HeartbeatRead
<1>5. CASE msg = "Monitor"
  BY <1>5, FlatRead DEF Carried
<1>6. CASE msg = "Ctrl"
  BY <1>6, FlatRead DEF Carried
<1>7. CASE msg = "NodeStatus"
  BY <1>7, NodeRead DEF EncodeNode, DecodeNode, Payloads, Carried
<1>8. CASE msg = "NetworkUsageUpdate"
  BY <1>8, FlatRead DEF Carried
<1>9. CASE msg = "ProxyUpdate"
  BY <1>9, FlatRead DEF Carried
<1>10. CASE msg = "NetworkUpdate"
  BY <1>10, NetworkUpdateRead
<1> QED
  BY <1>1, <1>2, <1>3, <1>4, <1>5, <1>6, <1>7, <1>8, <1>9, <1>10 DEF Payloads

(* Network.Encode and Decode. *)
LEMMA HeaderFacts ==
  ASSUME NEW msg \in DOMAIN Payloads
  PROVE  /\ DecodeHeader(EncodeHeader(msg)).ID = msg
         /\ DecodeHeader(EncodeHeader(msg)).ProtocolVersion = Version
         /\ DecodeHeader(EncodeHeader(msg)).Modules = <<"PA">>
<1>1. msg # "Notify"
  BY DEF Payloads
<1> QED
  BY <1>1 DEF DecodeHeader, EncodeHeader, Marshal, Get, Version

LEMMA GoodFacts == \A x : Good(x).err = "" /\ Good(x).val = x
BY DEF Good

LEMMA PacketFacts ==
  ASSUME NEW msg \in DOMAIN Payloads, NEW d \in Payloads[msg]
  PROVE  LET e == EncodeDefault(<<PayloadType[msg], d>>, msg)
         IN  /\ e.err = "" <=> DOMAIN PayloadEncode(msg, d) # {}
             /\ e.err # "" => e.err = "size" /\ Zeros(d)
             /\ e.err = "" => /\ Decode(e.val, PayloadType[msg]) = Good(Carried(msg, d))
                              /\ DecodeHead(e.val).val.ID = msg
<1> DEFINE raw == PayloadEncode(msg, d)
           header == EncodeHeader(msg)
           p == [encoding |-> "protobuf", modules |-> [HE |-> header, PA |-> raw]]
           h == DecodeHeader(header)
           e == EncodeDefault(<<PayloadType[msg], d>>, msg)
<1>1. msg \in DOMAIN PayloadType
  BY DEF Payloads, PayloadType
<1>2. PayloadDecode(msg, raw) = Carried(msg, d) /\ (DOMAIN raw = {} => Zeros(d))
  BY PayloadRead
<1>3. h.ID = msg /\ h.ProtocolVersion = Version /\ h.Modules = <<"PA">>
  BY HeaderFacts
<1> HIDE DEF raw, header, h
<1>4. e = IF DOMAIN raw = {} THEN Fail("size") ELSE Good(p)
  BY <1>1 DEF EncodeDefault, Encode, Absent, raw, header
<1>5. DecodeHead(p) = Good(h)
  BY DEF DecodeHead, h
<1>6. ValidatePacket(p, h)
  BY <1>3 DEF ValidatePacket
<1>7. Decode(p, PayloadType[msg]) = Good(Carried(msg, d))
  <2>1. DecodeHead(p).err = "" /\ DecodeHead(p).val = h
    BY <1>5, GoodFacts, Zenon
  <2>2. "PA" \in DOMAIN p.modules /\ p.modules.PA = raw
    OBVIOUS
  <2> HIDE DEF p
  <2> QED
    BY <1>1, <1>2, <1>3, <1>6, <2>1, <2>2 DEF Decode
<1> HIDE DEF p
<1>8. DOMAIN raw = {} => e.err = "size"
  BY <1>4 DEF Fail
<1>9. DOMAIN raw # {} => e.err = "" /\ e.val = p
  BY <1>4, GoodFacts, Zenon
<1>10. DecodeHead(p).val.ID = msg
  BY <1>3, <1>5, GoodFacts, Zenon
<1> HIDE DEF e
<1> QED
  <2>1. /\ e.err = "" <=> DOMAIN raw # {}
        /\ e.err # "" => e.err = "size" /\ Zeros(d)
        /\ e.err = "" => Decode(e.val, PayloadType[msg]) = Good(Carried(msg, d)) /\ DecodeHead(e.val).val.ID = msg
    BY <1>2, <1>7, <1>8, <1>9, <1>10
  <2> QED
    BY <2>1 DEF e, raw

(* Whatever a message holds, its reader gets the same fields back, but for *)
(* numbers of hops and copies, of which it gets the low bits, or it could  *)
(* not be sent, which happens only to payloads of zeros                    *)
(* (encoder.go:180, 218, decoder.go, network/packet/packet.go:92).         *)
THEOREM MessagesRead == \A msg \in DOMAIN Payloads : \A d \in Payloads[msg] : RoundTrips(msg, d)
BY PacketFacts DEF RoundTrips, Zeros

-----------------------------------------------------------------------------
(* A sequence of one. *)
LEMMA SingleFacts == \A p : Head(<<p>>) = p /\ Tail(<<p>>) = <<>> /\ Append(<<>>, p) = <<p>> /\ <<p>> # <<>>
<1> SUFFICES ASSUME NEW p PROVE Head(<<p>>) = p /\ Tail(<<p>>) = <<>> /\ Append(<<>>, p) = <<p>> /\ <<p>> # <<>>
  OBVIOUS
<1>1. <<p>> \in Seq({p}) /\ <<p>> # <<>> /\ Len(<<p>>) = 1 /\ <<p>>[1] = p /\ Head(<<p>>) = p
  OBVIOUS
<1>2. <<>> \in Seq({p}) /\ p \in {p}
  OBVIOUS
<1>3. /\ Append(<<>>, p) \in Seq({p}) /\ Len(Append(<<>>, p)) = 1 /\ Append(<<>>, p)[1] = p
  BY <1>2, AppendProperties, SMT
<1>4. Append(<<>>, p) = <<p>>
  BY <1>1, <1>3, SeqEqual
<1>5. Tail(<<p>>) \in Seq({p}) /\ Len(Tail(<<p>>)) = 0
  BY <1>1, HeadTailProperties, SMT
<1>6. Tail(<<p>>) = <<>>
  BY <1>5, EmptySeq
<1> QED
  BY <1>1, <1>4, <1>6

-----------------------------------------------------------------------------
(* What all steps of one client, or of its handler, have in common. *)

Only(c) ==
    \A x \in Clients \ {c} :
       /\ client'[x] = client[x] /\ ask'[x] = ask[x] /\ cOpen'[x] = cOpen[x]
       /\ handler'[x] = handler[x] /\ sOpen'[x] = sOpen[x]
       /\ up'[x] = up[x] /\ down'[x] = down[x]
       /\ wired[x].conn = "none" => wired'[x].conn = "none"

LEMMA TalkStays ==
  ASSUME NEW c, Talk, Only(c), TalkOf(c)'
  PROVE  Talk'
<1> SUFFICES ASSUME NEW x \in Clients, x # c PROVE TalkOf(x)'
  BY DEF Talk
<1>1. /\ client'[x] = client[x] /\ ask'[x] = ask[x] /\ cOpen'[x] = cOpen[x]
      /\ handler'[x] = handler[x] /\ up'[x] = up[x] /\ down'[x] = down[x]
      /\ wired[x].conn = "none" => wired'[x].conn = "none"
  BY DEF Only
<1>2. TalkOf(x)
  BY DEF Talk
<1>3. Unmet(x)'
  BY <1>1, <1>2 DEF TalkOf, Unmet
<1>4. Greeting(x)'
  BY <1>1, <1>2 DEF TalkOf, Greeting
<1>5. Asking(x)'
  BY <1>1, <1>2 DEF TalkOf, Asking, Request
<1>6. Wires(x)'
  BY <1>1, <1>2 DEF TalkOf, Wires, ToConnect
<1>7. Expected(x)' = Expected(x)
  BY <1>1 DEF Expected
<1>8. client'[x] = "answer" => Answers(x)'
  BY <1>1, <1>2, <1>7 DEF TalkOf, Answers
<1> QED
  BY <1>3, <1>4, <1>5, <1>6, <1>8 DEF TalkOf

LEMMA StepOf ==
  ASSUME NEW c \in Clients, IInv, Only(c), TypeOK', TalkOf(c)', Conns',
         UNCHANGED <<accept, greeted, backlog, listening, refused>>,
         ctxDone => ctxDone', ctxDone' => ctxDone \/ Stopped,
         Queued(c) => client'[c] \in {"hello", "dead"} /\ handler'[c] = "none" /\ sOpen'[c],
         client[c] = "ok" => client'[c] = "ok" /\ ask'[c] = ask[c],
         client[c] = "dead" /\ handler[c] = "none" => client'[c] = "dead" /\ handler'[c] = "none"
  PROVE  IInv'
<1>1. Queue'
  <2>1. \A x \in Clients : Queued(x)' <=> Queued(x)
    BY DEF Queued
  <2>2. \A x \in Clients : Queued(x) => client'[x] \in {"hello", "dead"} /\ handler'[x] = "none" /\ sOpen'[x]
    BY DEF IInv, Queue, Only
  <2> QED
    BY <2>1, <2>2 DEF IInv, Queue
<1>2. Talk'
  BY TalkStays DEF IInv
<1>3. Stopped => Stopped'
  BY DEF Stopped, Only
<1>4. Ending' /\ Ends'
  <2>1. \A x \in Clients : client[x] = "dead" /\ handler[x] = "none" => client'[x] = "dead" /\ handler'[x] = "none"
    BY DEF Only
  <2> QED
    BY <1>3, <2>1 DEF IInv, Ending, Ends, Stopped
<1> QED
  BY <1>1, <1>2, <1>4 DEF IInv

(* Connections that nobody opens stay the ones of their targets. *)
LEMMA ConnsStay ==
  ASSUME Conns, UNCHANGED outgoing,
         \A c \in Clients : wired'[c].conn = "open" => wired[c].conn = "open" /\ ask'[c] = ask[c]
  PROVE  Conns'
BY DEF Conns, Target

(* What the packets are. *)
LEMMA AskFacts ==
  ASSUME NEW c \in Clients, IInv, client[c] # "idle"
  PROVE  /\ ask[c][1] \in {"Connect", "Disconnect", "Ctrl", "Monitor", "Heartbeat"}
         /\ ask[c][2] \in Payloads[ask[c][1]]
         /\ Request(c).err = "" =>
              /\ Decode(Request(c).val, PayloadType[ask[c][1]]) = Good(Carried(ask[c][1], ask[c][2]))
              /\ DecodeHead(Request(c).val).val.ID = ask[c][1]
         /\ ask[c][1] = "Connect" => Target(c) \in Targets
<1>1. ask[c] \in Asks[c]
  BY DEF IInv, TypeOK, ClientsOK
<1>2. /\ ask[c][1] \in {"Connect", "Disconnect", "Ctrl", "Monitor", "Heartbeat"}
      /\ ask[c][2] \in Payloads[ask[c][1]]
      /\ ask[c][1] = "Connect" => ask[c][2].Target \in Targets
  BY <1>1, RequestsAssumption
<1>3. ask[c][1] \in DOMAIN Payloads
  BY <1>2 DEF Payloads
<1> QED
  BY <1>2, <1>3, PacketFacts DEF Request, Target

LEMMA PacketRead ==
  ASSUME NEW msg \in DOMAIN Payloads, NEW d \in Payloads[msg], NEW type, type = PayloadType[msg],
         DOMAIN PayloadEncode(msg, d) # {}
  PROVE  Decode(EncodeDefault(<<type, d>>, msg).val, type).err = ""
<1>1. EncodeDefault(<<PayloadType[msg], d>>, msg).err = ""
  BY PacketFacts
<1>2. Decode(EncodeDefault(<<PayloadType[msg], d>>, msg).val, PayloadType[msg]) = Good(Carried(msg, d))
  BY <1>1, PacketFacts
<1> QED
  BY <1>2, GoodFacts

LEMMA HelloFacts == Decode(HelloPacket, "PayloadHello").err = ""
<1> DEFINE d == [PPort |-> 1, BPort |-> 2]
<1>1. "Hello" \in DOMAIN Payloads /\ d \in Payloads["Hello"] /\ PayloadType["Hello"] = "PayloadHello"
  BY DEF Payloads, PayloadType
<1>2. DOMAIN PayloadEncode("Hello", d) # {}
  BY DEF PayloadEncode, EncodeHello, Marshal
<1> HIDE DEF d
<1>3. Decode(EncodeDefault(<<"PayloadHello", d>>, "Hello").val, "PayloadHello").err = ""
  BY <1>1, <1>2, PacketRead
<1> QED
  BY <1>3 DEF HelloPacket, d

LEMMA NodeFacts ==
  ASSUME NEW t \in Targets, NEW active \in 0..1, NEW d,
         d = [ID |-> t, BAddr |-> t, PAddr |-> t, Active |-> active, Tunnels |-> <<>>]
  PROVE  Decode(EncodeDefault(<<"PayloadNode", d>>, "NodeStatus").val, "PayloadNode").err = ""
<1>1. t \in Int \ {0}
  BY RequestsAssumption
<1>2. /\ "NodeStatus" \in DOMAIN Payloads /\ PayloadType["NodeStatus"] = "PayloadNode"
      /\ Payloads["NodeStatus"] = Nodes
  BY DEF Payloads, PayloadType
<1>3. d \in Nodes
  BY <1>1 DEF Nodes
<1>4. DOMAIN PayloadEncode("NodeStatus", d) # {}
  BY <1>3, NodeRead DEF PayloadEncode, EncodeNode
<1> QED
  BY <1>2, <1>3, <1>4, PacketRead

LEMMA HeartbeatFacts ==
  ASSUME NEW d \in Payloads["Heartbeat"]
  PROVE  Decode(EncodeDefault(<<"PayloadHeartbeat", d>>, "Heartbeat").val, "PayloadHeartbeat").err = ""
<1>1. "Heartbeat" \in DOMAIN Payloads /\ PayloadType["Heartbeat"] = "PayloadHeartbeat"
  BY DEF Payloads, PayloadType
<1>2. DOMAIN PayloadEncode("Heartbeat", d) # {}
  BY HeartbeatRead DEF PayloadEncode
<1> QED
  BY <1>1, <1>2, PacketRead

-----------------------------------------------------------------------------
(* The steps of a handler. *)

LEMMA HandlerInd ==
  ASSUME NEW c \in Clients, IInv, client[c] \notin {"idle", "hello"}, handler[c] # "none",
         NEW h \in Handlers \ {"none"}, handler' = [handler EXCEPT ![c] = h],
         UNCHANGED <<LoopVars, client, ask, cOpen>>,
         ctxDone' \in BOOLEAN, ctxDone => ctxDone', ctxDone' => ctxDone \/ Stopped,
         sOpen' \in [Clients -> BOOLEAN], \A x \in Clients \ {c} : sOpen'[x] = sOpen[x],
         up' = [x \in Clients |-> up'[x]], up'[c] = <<>>, \A x \in Clients \ {c} : up'[x] = up[x],
         down' = [x \in Clients |-> down'[x]], \A x \in Clients \ {c} : down'[x] = down[x],
         HandlersOK', Conns',
         \A x \in Clients \ {c} : wired[x].conn = "none" => wired'[x].conn = "none",
         h \notin Wiring, client[c] = "answer" => Answers(c)'
  PROVE  IInv'
<1>1. TypeOK'
  BY DEF IInv, TypeOK, LoopOK, ClientsOK, LoopVars
<1>2. handler'[c] = h /\ \A x \in Clients \ {c} : handler'[x] = handler[x]
  BY DEF IInv, TypeOK, HandlersOK
<1>3. TalkOf(c)'
  BY <1>2 DEF TalkOf, Unmet, Greeting, Asking, Wires
<1>4. Only(c)
  BY <1>2 DEF Only
<1>5. ~Queued(c)
  BY DEF IInv, Queue
<1> QED
  BY <1>1, <1>3, <1>4, <1>5, StepOf DEF LoopVars

(* The same where it may go on wiring. *)
LEMMA WirerInd ==
  ASSUME NEW c \in Clients, IInv, client[c] \notin {"idle", "hello"}, handler[c] # "none",
         NEW h \in Handlers \ {"none"}, handler' = [handler EXCEPT ![c] = h],
         UNCHANGED <<LoopVars, client, ask, cOpen>>,
         ctxDone' \in BOOLEAN, ctxDone => ctxDone', ctxDone' => ctxDone \/ Stopped,
         sOpen' \in [Clients -> BOOLEAN], \A x \in Clients \ {c} : sOpen'[x] = sOpen[x],
         up' = [x \in Clients |-> up'[x]], up'[c] = <<>>, \A x \in Clients \ {c} : up'[x] = up[x],
         down' = [x \in Clients |-> down'[x]], \A x \in Clients \ {c} : down'[x] = down[x],
         HandlersOK', Conns',
         \A x \in Clients \ {c} : wired[x].conn = "none" => wired'[x].conn = "none",
         ToConnect(c)'
  PROVE  IInv'
<1>1. TypeOK'
  BY DEF IInv, TypeOK, LoopOK, ClientsOK, LoopVars
<1>2. handler'[c] = h /\ \A x \in Clients \ {c} : handler'[x] = handler[x]
  BY DEF IInv, TypeOK, HandlersOK
<1>3. TalkOf(c)'
  BY <1>2 DEF TalkOf, Unmet, Greeting, Asking, Wires, Answers, ToConnect
<1>4. Only(c)
  BY <1>2 DEF Only
<1>5. ~Queued(c)
  BY DEF IInv, Queue
<1> QED
  BY <1>1, <1>3, <1>4, <1>5, StepOf DEF LoopVars

(* What a handler receives is what its client has asked. *)
LEMMA ReceivedFacts ==
  ASSUME NEW c \in Clients, IInv, NEW msg, Received(c, msg)
  PROVE  /\ handler[c] = "read" /\ client[c] \notin {"idle", "hello"} /\ ask[c][1] = msg
         /\ Payload(c, PayloadType[msg]) = Carried(msg, ask[c][2]) /\ ask[c][2] \in Payloads[msg]
         /\ client[c] = "answer" => down[c] = <<>>
         /\ msg = "Ctrl" => client[c] = "ok"
         /\ up' = [x \in Clients |-> up'[x]] /\ up'[c] = <<>>
         /\ \A x \in Clients \ {c} : up'[x] = up[x]
<1>1. handler[c] = "read" /\ up[c] # <<>> /\ DecodeHead(Head(up[c])).val.ID = msg
      /\ up' = [up EXCEPT ![c] = Tail(@)]
  BY DEF Received
<1>2. Asking(c) /\ Greeting(c) /\ up = [x \in Clients |-> up[x]]
  BY DEF IInv, Talk, TalkOf, TypeOK, ClientsOK
<1>3. /\ up[c] = <<Request(c).val>> /\ Request(c).err = "" /\ client[c] # "idle"
      /\ client[c] = "answer" => down[c] = <<>>
      /\ ask[c][1] = "Ctrl" => client[c] = "ok"
      /\ client[c] # "hello"
  BY <1>1, <1>2 DEF Asking, Greeting
<1>4. Head(up[c]) = Request(c).val /\ Tail(up[c]) = <<>>
  BY <1>3, SingleFacts
<1>5. ask[c][1] = msg /\ ask[c][2] \in Payloads[msg]
      /\ Decode(Request(c).val, PayloadType[msg]) = Good(Carried(msg, ask[c][2]))
  BY <1>1, <1>3, <1>4, AskFacts
<1>6. Payload(c, PayloadType[msg]) = Carried(msg, ask[c][2])
  BY <1>4, <1>5, GoodFacts DEF Payload
<1>7. up' = [x \in Clients |-> up'[x]] /\ up'[c] = <<>> /\ \A x \in Clients \ {c} : up'[x] = up[x]
  BY <1>1, <1>2, <1>4
<1> QED
  BY <1>1, <1>3, <1>5, <1>6, <1>7

(* An answer that goes to a client with nothing else on its way. *)
LEMMA ReplyFacts ==
  ASSUME NEW c \in Clients, IInv, NEW pl, NEW msg, Reply(c, pl, msg), UNCHANGED <<client, ask>>,
         client[c] = "answer" => down[c] = <<>>,
         Decode(EncodeDefault(pl, msg).val, Expected(c)).err = ""
  PROVE  /\ down' = [x \in Clients |-> down'[x]] /\ \A x \in Clients \ {c} : down'[x] = down[x]
         /\ client[c] = "answer" => Answers(c)'
<1> DEFINE p == EncodeDefault(pl, msg).val
<1>1. down = [x \in Clients |-> down[x]]
  BY DEF IInv, TypeOK, ClientsOK
<1>2. down' = IF sOpen[c] THEN [down EXCEPT ![c] = Append(@, p)] ELSE down
  BY DEF Reply
<1> HIDE DEF p
<1>3. down' = [x \in Clients |-> down'[x]] /\ \A x \in Clients \ {c} : down'[x] = down[x]
  BY <1>1, <1>2
<1>4. ASSUME client[c] = "answer" PROVE down'[c] = <<>> \/ down'[c] = <<p>>
  <2>1. down[c] = <<>>
    BY <1>4
  <2>2. Append(<<>>, p) = <<p>>
    BY SingleFacts
  <2> QED
    BY <1>1, <1>2, <2>1, <2>2
<1>5. Expected(c)' = Expected(c) /\ Decode(p, Expected(c)).err = ""
  BY DEF Expected, p
<1> QED
  BY <1>3, <1>4, <1>5 DEF Answers

LEMMA HandleEndInd ==
  ASSUME NEW c \in Clients, IInv, HandleEnd(c)
  PROVE  IInv'
<1> USE DEF IInv, TypeOK
<1>1. /\ handler[c] = "read" /\ up[c] = <<>> /\ ~cOpen[c] /\ handler' = [handler EXCEPT ![c] = "done"]
      /\ UNCHANGED <<LoopVars, ctxDone, ClientVars, up, down, cOpen, sOpen, NetVars>>
  BY DEF HandleEnd
<1>2. TalkOf(c)
  BY DEF Talk
<1>3. client[c] \notin {"idle", "hello"} /\ (client[c] = "answer" => Answers(c))
  BY <1>1, <1>2 DEF TalkOf, Unmet, Greeting
<1>4. client[c] = "answer" => Answers(c)'
  BY <1>1, <1>3 DEF Answers, Expected, ClientVars
<1>5. HandlersOK' /\ "done" \in Handlers \ {"none"} /\ "done" \notin Wiring
  BY <1>1 DEF HandlersOK, Handlers, Wiring, NetVars
<1>6. Conns'
  BY <1>1, ConnsStay DEF ClientVars, NetVars
<1> QED
  BY <1>1, <1>3, <1>4, <1>5, <1>6, HandlerInd DEF ClientsOK, LoopOK, ClientVars, NetVars

LEMMA HandleCtrlInd ==
  ASSUME NEW c \in Clients, IInv, HandleCtrl(c)
  PROVE  IInv'
<1> USE DEF IInv, TypeOK
<1>1. /\ Received(c, "Ctrl") /\ ctxDone' = TRUE
      /\ UNCHANGED <<LoopVars, ClientVars, down, cOpen, sOpen, NetVars>>
  BY DEF HandleCtrl
<1>2. PICK h \in {"stuck", "read"} : handler' = [handler EXCEPT ![c] = h]
  BY DEF HandleCtrl
<1>3. /\ handler[c] = "read" /\ client[c] = "ok" /\ ask[c][1] = "Ctrl"
      /\ up' = [x \in Clients |-> up'[x]] /\ up'[c] = <<>>
      /\ \A x \in Clients \ {c} : up'[x] = up[x]
  BY <1>1, ReceivedFacts
<1>4. HandlersOK' /\ h \in Handlers \ {"none"} /\ h \notin Wiring
  BY <1>1, <1>2 DEF HandlersOK, Handlers, Wiring, NetVars
<1>5. Conns'
  BY <1>1, ConnsStay DEF ClientVars, NetVars
<1>6. Stopped
  BY <1>3 DEF Stopped
<1> QED
  BY <1>1, <1>2, <1>3, <1>4, <1>5, <1>6, HandlerInd DEF ClientsOK, LoopOK, ClientVars,
     NetVars

LEMMA HandleMonitorInd ==
  ASSUME NEW c \in Clients, IInv, HandleMonitor(c)
  PROVE  IInv'
<1> USE DEF IInv, TypeOK
<1> DEFINE b == Payload(c, "PayloadMonitor").Feature \in 1..2
<1>1. /\ Received(c, "Monitor") /\ sOpen' = [sOpen EXCEPT ![c] = b] /\ b \in BOOLEAN
      /\ UNCHANGED <<LoopVars, ctxDone, ClientVars, down, cOpen, handler, NetVars>>
  BY DEF HandleMonitor
<1> HIDE DEF b
<1>2. /\ handler[c] = "read" /\ client[c] \notin {"idle", "hello"} /\ ask[c][1] = "Monitor"
      /\ client[c] = "answer" => down[c] = <<>>
      /\ up' = [x \in Clients |-> up'[x]] /\ up'[c] = <<>>
      /\ \A x \in Clients \ {c} : up'[x] = up[x]
  BY <1>1, ReceivedFacts
<1>3. handler' = [handler EXCEPT ![c] = "read"]
  BY <1>1, <1>2 DEF HandlersOK
<1>4. HandlersOK' /\ "read" \in Handlers \ {"none"} /\ "read" \notin Wiring
  BY <1>1 DEF HandlersOK, Handlers, Wiring, NetVars
<1>5. Conns'
  BY <1>1, ConnsStay DEF ClientVars, NetVars
<1>6. client[c] = "answer" => Answers(c)'
  BY <1>1, <1>2 DEF Answers, ClientVars
<1>7. sOpen' \in [Clients -> BOOLEAN] /\ \A x \in Clients \ {c} : sOpen'[x] = sOpen[x]
  BY <1>1 DEF ClientsOK
<1>8. /\ UNCHANGED <<LoopVars, ctxDone, client, ask, cOpen, down, wired>>
      /\ down = [x \in Clients |-> down[x]] /\ ctxDone \in BOOLEAN
  BY <1>1 DEF ClientsOK, LoopOK, ClientVars, NetVars
<1> QED
  BY <1>2, <1>3, <1>4, <1>5, <1>6, <1>7, <1>8, HandlerInd

LEMMA CarriedHops ==
  ASSUME NEW d \in Payloads["Heartbeat"]
  PROVE  Carried("Heartbeat", d) \in Payloads["Heartbeat"]
<1>1. d.Hops \in Int
  BY DEF Payloads
<1>2. Int32(d.Hops) \in Int
  BY <1>1, HalfAssumption DEF Int32, Int32s
<1>3. Carried("Heartbeat", d) = [d EXCEPT !.Hops = Int32(d.Hops)]
  BY DEF Carried
<1>4. d \in [ID : Int, Hops : Int, TTL : Int] /\ Payloads["Heartbeat"] = [ID : Int, Hops : Int, TTL : Int]
  BY DEF Payloads
<1> QED
  BY <1>2, <1>3, <1>4

LEMMA HopFacts ==
  ASSUME NEW pl \in Payloads["Heartbeat"]
  PROVE  [pl EXCEPT !.Hops = @ + 1, !.TTL = 2] \in Payloads["Heartbeat"]
<1>1. pl \in [ID : Int, Hops : Int, TTL : Int] /\ Payloads["Heartbeat"] = [ID : Int, Hops : Int, TTL : Int]
  BY DEF Payloads
<1>2. pl.Hops + 1 \in Int /\ 2 \in Int
  BY <1>1
<1> QED
  BY <1>1, <1>2

LEMMA HandleHeartbeatInd ==
  ASSUME NEW c \in Clients, IInv, HandleHeartbeat(c)
  PROVE  IInv'
<1> USE DEF IInv, TypeOK
<1> DEFINE pl == Payload(c, "PayloadHeartbeat")
           d == [pl EXCEPT !.Hops = @ + 1, !.TTL = 2]
<1>1. /\ Received(c, "Heartbeat") /\ Reply(c, <<"PayloadHeartbeat", d>>, "Heartbeat")
      /\ UNCHANGED <<LoopVars, ctxDone, ClientVars, cOpen, sOpen, handler, NetVars>>
  BY DEF HandleHeartbeat
<1>2. /\ handler[c] = "read" /\ client[c] \notin {"idle", "hello"} /\ ask[c][1] = "Heartbeat"
      /\ Payload(c, PayloadType["Heartbeat"]) = Carried("Heartbeat", ask[c][2])
      /\ ask[c][2] \in Payloads["Heartbeat"]
      /\ client[c] = "answer" => down[c] = <<>>
      /\ up' = [x \in Clients |-> up'[x]] /\ up'[c] = <<>>
      /\ \A x \in Clients \ {c} : up'[x] = up[x]
  BY <1>1, ReceivedFacts
<1>3. pl \in Payloads["Heartbeat"]
  BY <1>2, CarriedHops DEF PayloadType
<1> HIDE DEF pl
<1>4. d \in Payloads["Heartbeat"]
  BY <1>3, HopFacts
<1> HIDE DEF d
<1>5. Decode(EncodeDefault(<<"PayloadHeartbeat", d>>, "Heartbeat").val, Expected(c)).err = ""
  BY <1>2, <1>4, HeartbeatFacts DEF Expected
<1>6. /\ down' = [x \in Clients |-> down'[x]] /\ \A x \in Clients \ {c} : down'[x] = down[x]
      /\ client[c] = "answer" => Answers(c)'
  BY <1>1, <1>2, <1>5, ReplyFacts DEF ClientVars
<1>7. handler' = [handler EXCEPT ![c] = "read"]
  BY <1>1, <1>2 DEF HandlersOK
<1>8. HandlersOK' /\ "read" \in Handlers \ {"none"} /\ "read" \notin Wiring
  BY <1>1 DEF HandlersOK, Handlers, Wiring, NetVars
<1>9. Conns'
  BY <1>1, ConnsStay DEF ClientVars, NetVars
<1> QED
  BY <1>1, <1>2, <1>6, <1>7, <1>8, <1>9, HandlerInd DEF ClientsOK, LoopOK, ClientVars,
     NetVars

LEMMA HandleConnectInd ==
  ASSUME NEW c \in Clients, IInv, HandleConnect(c)
  PROVE  IInv'
<1> USE DEF IInv, TypeOK
<1>1. /\ Received(c, "Connect") /\ handler' = [handler EXCEPT ![c] = "dial"]
      /\ UNCHANGED <<LoopVars, ctxDone, ClientVars, down, cOpen, sOpen, NetVars>>
  BY DEF HandleConnect
<1>2. /\ handler[c] = "read" /\ client[c] \notin {"idle", "hello"} /\ ask[c][1] = "Connect"
      /\ client[c] = "answer" => down[c] = <<>>
      /\ up' = [x \in Clients |-> up'[x]] /\ up'[c] = <<>>
      /\ \A x \in Clients \ {c} : up'[x] = up[x]
  BY <1>1, ReceivedFacts
<1>3. HandlersOK' /\ "dial" \in Handlers \ {"none"}
  BY <1>1 DEF HandlersOK, Handlers, Wiring, NetVars
<1>4. Conns'
  BY <1>1, ConnsStay DEF ClientVars, NetVars
<1>6. /\ UNCHANGED <<LoopVars, ctxDone, client, ask, cOpen, sOpen, down, wired>>
      /\ down = [x \in Clients |-> down[x]] /\ ctxDone \in BOOLEAN /\ sOpen \in [Clients -> BOOLEAN]
  BY <1>1 DEF ClientsOK, LoopOK, ClientVars, NetVars
<1>7. ToConnect(c)'
  BY <1>2, <1>6 DEF ToConnect
<1> HIDE DEF IInv, TypeOK
<1>8. "dial" \in Handlers \ {"none"} /\ handler' = [handler EXCEPT ![c] = "dial"]
  BY <1>1, <1>3
<1>9. client[c] \notin {"idle", "hello"} /\ handler[c] # "none"
  BY <1>2
<1>10. UNCHANGED <<LoopVars, client, ask, cOpen>>
  BY <1>6
<1>11. ctxDone' \in BOOLEAN /\ (ctxDone => ctxDone') /\ (ctxDone' => ctxDone \/ Stopped)
  BY <1>6
<1>12. sOpen' \in [Clients -> BOOLEAN] /\ \A x \in Clients \ {c} : sOpen'[x] = sOpen[x]
  BY <1>6
<1>13. up' = [x \in Clients |-> up'[x]] /\ up'[c] = <<>> /\ \A x \in Clients \ {c} : up'[x] = up[x]
  BY <1>2
<1>14. down' = [x \in Clients |-> down'[x]] /\ \A x \in Clients \ {c} : down'[x] = down[x]
  BY <1>6
<1>15. HandlersOK' /\ Conns'
  BY <1>3, <1>4
<1>16. \A x \in Clients \ {c} : wired[x].conn = "none" => wired'[x].conn = "none"
  BY <1>6
<1> QED
  BY <1>7, <1>8, <1>9, <1>10, <1>11, <1>12, <1>13, <1>14, <1>15, <1>16, WirerInd

(* Closing a client's connection. *)
LEMMA CloseConnFacts ==
  ASSUME NEW c \in Clients, IInv, CloseConn(c)
  PROVE  /\ handler' = [handler EXCEPT ![c] = "done"]
         /\ sOpen' \in [Clients -> BOOLEAN] /\ \A x \in Clients \ {c} : sOpen'[x] = sOpen[x]
         /\ handler' \in [Clients -> Handlers]
         /\ "done" \in Handlers \ {"none"} /\ "done" \notin Wiring
BY DEF CloseConn, IInv, TypeOK, ClientsOK, HandlersOK, Handlers, Wiring

LEMMA ClosedFacts ==
  ASSUME NEW w \in [conn : {"none", "open", "closed"}, active : 0..1]
  PROVE  /\ Closed(w) \in [conn : {"none", "open", "closed"}, active : 0..1]
         /\ Closed(w).conn # "open" /\ (w.conn = "none" => Closed(w).conn = "none")
         /\ Closed(w).active \in 0..1
BY DEF Closed

LEMMA HandleDisconnectInd ==
  ASSUME NEW c \in Clients, IInv, HandleDisconnect(c)
  PROVE  IInv'
<1> USE DEF IInv, TypeOK
<1> DEFINE id == Payload(c, "PayloadDisconnect").ID
           o == outgoing[id]
<1>1. /\ Received(c, "Disconnect") /\ CloseConn(c)
      /\ IF id \in Targets /\ o # Nobody
           THEN /\ wired' = [wired EXCEPT ![o] = Closed(@)]
                /\ ReplyNode(c, wired'[o], id)
           ELSE UNCHANGED <<wired, down>>
      /\ UNCHANGED <<LoopVars, ctxDone, ClientVars, cOpen, outgoing>>
  BY DEF HandleDisconnect
<1> HIDE DEF id
<1>2. /\ handler[c] = "read" /\ client[c] \notin {"idle", "hello"} /\ ask[c][1] = "Disconnect"
      /\ client[c] = "answer" => down[c] = <<>>
      /\ up' = [x \in Clients |-> up'[x]] /\ up'[c] = <<>>
      /\ \A x \in Clients \ {c} : up'[x] = up[x]
  BY <1>1, ReceivedFacts
<1>3. /\ handler' = [handler EXCEPT ![c] = "done"]
      /\ sOpen' \in [Clients -> BOOLEAN] /\ \A x \in Clients \ {c} : sOpen'[x] = sOpen[x]
      /\ handler' \in [Clients -> Handlers]
      /\ "done" \in Handlers \ {"none"} /\ "done" \notin Wiring
  BY <1>1, CloseConnFacts
<1>4. /\ wired' \in [Clients -> [conn : {"none", "open", "closed"}, active : 0..1]]
      /\ \A x \in Clients : /\ wired'[x].conn = "open" => wired[x].conn = "open"
                            /\ wired[x].conn = "none" => wired'[x].conn = "none"
      /\ down' = [x \in Clients |-> down'[x]] /\ \A x \in Clients \ {c} : down'[x] = down[x]
      /\ client[c] = "answer" => Answers(c)'
  <2>1. CASE id \in Targets /\ o # Nobody
    <3>1. o \in Clients /\ wired[o] \in [conn : {"none", "open", "closed"}, active : 0..1]
      BY <2>1 DEF HandlersOK
    <3> HIDE DEF o
    <3>2. wired' = [wired EXCEPT ![o] = Closed(wired[o])] /\ ReplyNode(c, wired'[o], id)
      BY <1>1, <2>1 DEF o
    <3> DEFINE w == Closed(wired[o])
    <3>3. /\ w \in [conn : {"none", "open", "closed"}, active : 0..1]
          /\ w.conn # "open" /\ (wired[o].conn = "none" => w.conn = "none") /\ w.active \in 0..1
      BY <3>1, ClosedFacts
    <3> HIDE DEF w
    <3>4. /\ wired' = [wired EXCEPT ![o] = w] /\ wired'[o] = w
      BY <3>1, <3>2 DEF w, HandlersOK
    <3>5. /\ wired' \in [Clients -> [conn : {"none", "open", "closed"}, active : 0..1]]
          /\ \A x \in Clients : /\ wired'[x].conn = "open" => wired[x].conn = "open"
                                /\ wired[x].conn = "none" => wired'[x].conn = "none"
      BY <3>1, <3>3, <3>4 DEF HandlersOK
    <3> DEFINE d == [ID |-> id, BAddr |-> id, PAddr |-> id, Active |-> w.active, Tunnels |-> <<>>]
    <3>6. Reply(c, <<"PayloadNode", d>>, "NodeStatus")
      BY <3>2, <3>4 DEF ReplyNode
    <3>7. Decode(EncodeDefault(<<"PayloadNode", d>>, "NodeStatus").val, "PayloadNode").err = ""
      BY <2>1, <3>3, NodeFacts
    <3> HIDE DEF d
    <3>8. Expected(c) = "PayloadNode" /\ UNCHANGED <<client, ask>>
      BY <1>1, <1>2 DEF Expected, ClientVars
    <3>9. /\ down' = [x \in Clients |-> down'[x]] /\ \A x \in Clients \ {c} : down'[x] = down[x]
          /\ client[c] = "answer" => Answers(c)'
      BY <1>2, <3>6, <3>7, <3>8, ReplyFacts
    <3> QED
      BY <3>5, <3>9
  <2>2. CASE ~(id \in Targets /\ o # Nobody)
    BY <1>1, <1>2, <2>2 DEF HandlersOK, ClientsOK, Answers, ClientVars
  <2> QED
    BY <2>1, <2>2
<1>5. HandlersOK' /\ Conns'
  BY <1>1, <1>3, <1>4, ConnsStay DEF HandlersOK, ClientVars
<1>6. UNCHANGED <<LoopVars, ctxDone, client, ask, cOpen>> /\ ctxDone \in BOOLEAN
  BY <1>1 DEF LoopOK, ClientVars
<1> QED
  BY <1>2, <1>3, <1>4, <1>5, <1>6, HandlerInd

(* What a handler that wires knows of its client. *)
LEMMA WiringFacts ==
  ASSUME NEW c \in Clients, IInv, handler[c] \in Wiring
  PROVE  /\ client[c] \notin {"idle", "hello"} /\ ask[c][1] = "Connect" /\ Target(c) \in Targets
         /\ up[c] = <<>> /\ (client[c] = "answer" => down[c] = <<>>)
         /\ up = [x \in Clients |-> up[x]] /\ down = [x \in Clients |-> down[x]]
         /\ ctxDone \in BOOLEAN /\ sOpen \in [Clients -> BOOLEAN]
<1>1. TalkOf(c)
  BY DEF IInv, Talk
<1>2. client[c] \notin {"idle", "hello"}
  BY <1>1 DEF TalkOf, Unmet, Greeting, Wiring
<1>3. ask[c][1] = "Connect" /\ up[c] = <<>> /\ (client[c] = "answer" => down[c] = <<>>)
  BY <1>1 DEF TalkOf, Wires, ToConnect
<1>4. Target(c) \in Targets
  BY <1>2, <1>3, AskFacts
<1> QED
  BY <1>2, <1>3, <1>4 DEF IInv, TypeOK, ClientsOK, LoopOK

LEMMA WireDialInd ==
  ASSUME NEW c \in Clients, IInv, WireDial(c)
  PROVE  IInv'
<1> USE DEF IInv, TypeOK
<1>1. /\ handler[c] \in Wiring
      /\ UNCHANGED <<LoopVars, ctxDone, ClientVars, up, down, cOpen, NetVars>>
  BY DEF WireDial, Wiring
<1>2. PICK h \in {"add", "stuck", "done"} : handler' = [handler EXCEPT ![c] = h]
  BY DEF WireDial, CloseConn
<1>3. sOpen' \in [Clients -> BOOLEAN] /\ \A x \in Clients \ {c} : sOpen'[x] = sOpen[x]
  BY DEF WireDial, CloseConn, ClientsOK
<1>4. HandlersOK' /\ h \in Handlers \ {"none"} /\ handler[c] # "none"
  BY <1>1, <1>2 DEF HandlersOK, Handlers, Wiring, NetVars
<1>5. Conns'
  BY <1>1, ConnsStay DEF ClientVars, NetVars
<1>7. UNCHANGED <<LoopVars, ctxDone, client, ask, cOpen, up, down, wired>>
  BY <1>1 DEF ClientVars, NetVars
<1>8. /\ client[c] \notin {"idle", "hello"} /\ up'[c] = <<>> /\ ToConnect(c)'
      /\ up' = [x \in Clients |-> up'[x]] /\ down' = [x \in Clients |-> down'[x]]
      /\ ctxDone \in BOOLEAN
  BY <1>1, <1>7, WiringFacts DEF ToConnect
<1> HIDE DEF IInv, TypeOK
<1>9. UNCHANGED <<LoopVars, client, ask, cOpen>>
  BY <1>7
<1>10. ctxDone' \in BOOLEAN /\ (ctxDone => ctxDone') /\ (ctxDone' => ctxDone \/ Stopped)
  BY <1>7, <1>8
<1>11. /\ \A x \in Clients \ {c} : up'[x] = up[x] /\ down'[x] = down[x]
       /\ \A x \in Clients \ {c} : wired[x].conn = "none" => wired'[x].conn = "none"
  BY <1>7
<1> QED
  BY <1>2, <1>3, <1>4, <1>5, <1>8, <1>9, <1>10, <1>11, WirerInd

LEMMA AddConnInd ==
  ASSUME NEW c \in Clients, IInv, AddConn(c)
  PROVE  IInv'
<1> USE DEF IInv, TypeOK
<1>1. /\ handler[c] \in Wiring /\ handler[c] # "none"
      /\ UNCHANGED <<LoopVars, ctxDone, ClientVars, up, down, cOpen>>
  BY DEF AddConn, Wiring
<1>2. Target(c) \in Targets /\ ask[c][1] = "Connect" /\ (client[c] = "answer" => down[c] = <<>>)
  BY <1>1, WiringFacts
<1>4. UNCHANGED <<LoopVars, ctxDone, client, ask, cOpen, up, down>>
  BY <1>1 DEF ClientVars
<1>5. /\ client[c] \notin {"idle", "hello"}
      /\ up'[c] = <<>> /\ ToConnect(c)'
      /\ up' = [x \in Clients |-> up'[x]] /\ down' = [x \in Clients |-> down'[x]]
      /\ ctxDone \in BOOLEAN /\ sOpen \in [Clients -> BOOLEAN]
  BY <1>1, <1>4, WiringFacts DEF ToConnect
<1>6. CASE Already(Target(c))
  <2>1. CloseConn(c) /\ UNCHANGED <<wired, outgoing>>
    BY <1>6 DEF AddConn, NetVars
  <2>2. HandlersOK'
    BY <2>1, CloseConnFacts DEF HandlersOK
  <2>3. Conns'
    BY <1>4, <2>1, ConnsStay
  <2> QED
    BY <1>1, <1>4, <1>5, <2>1, <2>2, <2>3, CloseConnFacts, WirerInd
<1>7. CASE ~Already(Target(c))
  <2> DEFINE t == Target(c)
             w == [wired[c] EXCEPT !.conn = "open"]
  <2>1. /\ outgoing' = [outgoing EXCEPT ![t] = c] /\ wired' = [wired EXCEPT ![c].conn = "open"]
        /\ handler' = [handler EXCEPT ![c] = "notify"] /\ UNCHANGED sOpen
    BY <1>7 DEF AddConn
  <2>2. w \in [conn : {"none", "open", "closed"}, active : 0..1] /\ wired' = [wired EXCEPT ![c] = w]
    BY <2>1 DEF HandlersOK
  <2> HIDE DEF w
  <2>3. "notify" \in Wiring /\ "notify" \in Handlers \ {"none"}
    BY DEF Handlers, Wiring
  <2>4. HandlersOK'
    BY <1>2, <2>1, <2>2, <2>3 DEF HandlersOK
  <2>5. \A x \in Clients \ {c} : wired'[x] = wired[x]
    BY <2>2 DEF HandlersOK
  <2>6. Conns'
    <3> SUFFICES ASSUME NEW x \in Clients, wired'[x].conn = "open"
                 PROVE  ask'[x][1] = "Connect" /\ outgoing'[Target(x)'] = x
      BY DEF Conns
    <3>1. Target(x)' = Target(x) /\ ask'[x] = ask[x]
      BY <1>4 DEF Target
    <3>2. CASE x = c
      BY <1>2, <2>1, <3>1, <3>2 DEF HandlersOK
    <3>3. CASE x # c
      <4>1. wired[x].conn = "open" /\ ask[x][1] = "Connect" /\ outgoing[Target(x)] = x
        BY <2>5, <3>3 DEF Conns
      <4>2. Target(x) # t
        BY <1>7, <4>1, NobodyAssumption DEF Already
      <4>3. outgoing'[Target(x)] = outgoing[Target(x)]
        BY <1>2, <2>1, <4>2
      <4> QED
        BY <3>1, <4>1, <4>3
    <3> QED
      BY <3>2, <3>3
  <2>7. /\ \A x \in Clients \ {c} : wired[x].conn = "none" => wired'[x].conn = "none"
        /\ sOpen' \in [Clients -> BOOLEAN] /\ \A x \in Clients \ {c} : sOpen'[x] = sOpen[x]
        /\ ctxDone' \in BOOLEAN /\ (ctxDone => ctxDone') /\ (ctxDone' => ctxDone \/ Stopped)
        /\ \A x \in Clients \ {c} : up'[x] = up[x] /\ down'[x] = down[x]
    BY <1>4, <1>5, <2>1, <2>5
  <2>8. UNCHANGED <<LoopVars, client, ask, cOpen>> /\ handler[c] # "none"
    BY <1>1, <1>4
  <2>9. handler' = [handler EXCEPT ![c] = "notify"]
    BY <2>1
  <2> HIDE DEF IInv, TypeOK
  <2> QED
    BY <1>5, <2>3, <2>4, <2>6, <2>7, <2>8, <2>9, WirerInd
<1> QED
  BY <1>6, <1>7

(* The part of a wiring step that is the same for all of them. *)
LEMMA WiringStays ==
  ASSUME NEW c \in Clients, IInv, handler[c] \in Wiring,
         UNCHANGED <<LoopVars, ctxDone, ClientVars, up, cOpen>>
  PROVE  /\ UNCHANGED <<LoopVars, client, ask, cOpen>>
         /\ client[c] \notin {"idle", "hello"} /\ handler[c] # "none"
         /\ ctxDone' \in BOOLEAN /\ (ctxDone => ctxDone') /\ (ctxDone' => ctxDone \/ Stopped)
         /\ up' = [x \in Clients |-> up'[x]] /\ up'[c] = <<>>
         /\ \A x \in Clients \ {c} : up'[x] = up[x]
         /\ down' = down => /\ down' = [x \in Clients |-> down'[x]] /\ ToConnect(c)'
                            /\ \A x \in Clients \ {c} : down'[x] = down[x]
<1>1. UNCHANGED <<LoopVars, ctxDone, client, ask, up, cOpen>> /\ handler[c] # "none"
  BY DEF ClientVars, Wiring
<1> QED
  BY <1>1, WiringFacts DEF ToConnect

(* Steps that change at most the connection of one client. *)
LEMMA OneWired ==
  ASSUME NEW c \in Clients, HandlersOK, Conns, UNCHANGED <<outgoing, ask>>,
         NEW w \in [conn : {"none", "open", "closed"}, active : 0..1],
         wired' = [wired EXCEPT ![c] = w], w.conn = "open" => wired[c].conn = "open",
         handler' \in [Clients -> Handlers]
  PROVE  /\ HandlersOK' /\ Conns'
         /\ \A x \in Clients \ {c} : wired[x].conn = "none" => wired'[x].conn = "none"
<1>1. HandlersOK' /\ wired'[c] = w /\ \A x \in Clients \ {c} : wired'[x] = wired[x]
  BY DEF HandlersOK
<1>2. \A x \in Clients : wired'[x].conn = "open" => wired[x].conn = "open" /\ ask'[x] = ask[x]
  BY <1>1
<1> QED
  BY <1>1, <1>2, ConnsStay

LEMMA WireSendInd ==
  ASSUME NEW c \in Clients, IInv, WireSend(c)
  PROVE  IInv'
<1>1. /\ handler[c] \in Wiring
      /\ UNCHANGED <<LoopVars, ctxDone, ClientVars, up, down, cOpen, outgoing>>
  BY DEF WireSend, Wiring
<1>2. /\ UNCHANGED <<LoopVars, client, ask, cOpen>>
      /\ client[c] \notin {"idle", "hello"} /\ handler[c] # "none"
      /\ ctxDone' \in BOOLEAN /\ (ctxDone => ctxDone') /\ (ctxDone' => ctxDone \/ Stopped)
      /\ up' = [x \in Clients |-> up'[x]] /\ up'[c] = <<>>
      /\ \A x \in Clients \ {c} : up'[x] = up[x]
      /\ down' = [x \in Clients |-> down'[x]] /\ ToConnect(c)'
      /\ \A x \in Clients \ {c} : down'[x] = down[x]
  BY <1>1, WiringStays
<1>3. HandlersOK /\ Conns /\ wired[c] \in [conn : {"none", "open", "closed"}, active : 0..1]
      /\ sOpen \in [Clients -> BOOLEAN] /\ UNCHANGED <<outgoing, ask>>
  BY <1>1 DEF IInv, TypeOK, HandlersOK, ClientsOK, ClientVars
<1>4. CASE handler' = [handler EXCEPT ![c] = "activate"] /\ UNCHANGED <<sOpen, wired>>
  <2>1. "activate" \in Handlers \ {"none"} /\ handler' \in [Clients -> Handlers]
    BY <1>3, <1>4 DEF HandlersOK, Handlers, Wiring
  <2>2. HandlersOK' /\ Conns'
    BY <1>3, <1>4, <2>1, ConnsStay DEF HandlersOK
  <2>3. /\ \A x \in Clients \ {c} : wired[x].conn = "none" => wired'[x].conn = "none"
        /\ sOpen' \in [Clients -> BOOLEAN] /\ \A x \in Clients \ {c} : sOpen'[x] = sOpen[x]
    BY <1>3, <1>4
  <2> QED
    BY <1>2, <1>4, <2>1, <2>2, <2>3, WirerInd
<1>5. CASE wired' = [wired EXCEPT ![c] = Closed(@)] /\ CloseConn(c)
  <2> DEFINE w == Closed(wired[c])
  <2>1. /\ w \in [conn : {"none", "open", "closed"}, active : 0..1] /\ w.conn # "open"
    BY <1>3, ClosedFacts
  <2>2. wired' = [wired EXCEPT ![c] = w]
    BY <1>3, <1>5 DEF HandlersOK
  <2> HIDE DEF w
  <2>3. /\ handler' = [handler EXCEPT ![c] = "done"]
        /\ sOpen' \in [Clients -> BOOLEAN] /\ \A x \in Clients \ {c} : sOpen'[x] = sOpen[x]
        /\ handler' \in [Clients -> Handlers] /\ "done" \in Handlers \ {"none"}
    BY <1>5, CloseConnFacts
  <2>4. /\ HandlersOK' /\ Conns'
        /\ \A x \in Clients \ {c} : wired[x].conn = "none" => wired'[x].conn = "none"
    BY <1>3, <2>1, <2>2, <2>3, OneWired
  <2> QED
    BY <1>2, <2>3, <2>4, WirerInd
<1> QED
  BY <1>4, <1>5 DEF WireSend

LEMMA ActivateInd ==
  ASSUME NEW c \in Clients, IInv, Activate(c)
  PROVE  IInv'
<1>1. /\ handler[c] \in Wiring /\ wired' = [wired EXCEPT ![c].active = 1]
      /\ handler' = [handler EXCEPT ![c] = "reply"]
      /\ UNCHANGED <<LoopVars, ctxDone, ClientVars, up, down, cOpen, sOpen, outgoing>>
  BY DEF Activate, Wiring
<1>2. /\ UNCHANGED <<LoopVars, client, ask, cOpen>>
      /\ client[c] \notin {"idle", "hello"} /\ handler[c] # "none"
      /\ ctxDone' \in BOOLEAN /\ (ctxDone => ctxDone') /\ (ctxDone' => ctxDone \/ Stopped)
      /\ up' = [x \in Clients |-> up'[x]] /\ up'[c] = <<>>
      /\ \A x \in Clients \ {c} : up'[x] = up[x]
      /\ down' = [x \in Clients |-> down'[x]] /\ ToConnect(c)'
      /\ \A x \in Clients \ {c} : down'[x] = down[x]
  BY <1>1, WiringStays
<1>3. HandlersOK /\ Conns /\ wired[c] \in [conn : {"none", "open", "closed"}, active : 0..1]
      /\ sOpen \in [Clients -> BOOLEAN] /\ UNCHANGED <<outgoing, ask>>
  BY <1>1 DEF IInv, TypeOK, HandlersOK, ClientsOK, ClientVars
<1> DEFINE w == [wired[c] EXCEPT !.active = 1]
<1>4. w \in [conn : {"none", "open", "closed"}, active : 0..1] /\ w.conn = wired[c].conn
  BY <1>3
<1>5. wired' = [wired EXCEPT ![c] = w]
  BY <1>1, <1>3 DEF HandlersOK
<1> HIDE DEF w
<1>6. "reply" \in Handlers \ {"none"} /\ handler' \in [Clients -> Handlers]
  BY <1>1, <1>3 DEF HandlersOK, Handlers, Wiring
<1>7. /\ HandlersOK' /\ Conns'
      /\ \A x \in Clients \ {c} : wired[x].conn = "none" => wired'[x].conn = "none"
  BY <1>3, <1>4, <1>5, <1>6, OneWired
<1>8. /\ sOpen' \in [Clients -> BOOLEAN] /\ \A x \in Clients \ {c} : sOpen'[x] = sOpen[x]
      /\ handler' = [handler EXCEPT ![c] = "reply"]
  BY <1>1, <1>3
<1> QED
  BY <1>2, <1>6, <1>7, <1>8, WirerInd

LEMMA ReplyConnectInd ==
  ASSUME NEW c \in Clients, IInv, ReplyConnect(c)
  PROVE  IInv'
<1>1. /\ handler[c] \in Wiring /\ ReplyNode(c, wired[c], Target(c)) /\ CloseConn(c)
      /\ UNCHANGED <<LoopVars, ctxDone, ClientVars, up, cOpen, NetVars>>
  BY DEF ReplyConnect, Wiring
<1>2. /\ UNCHANGED <<LoopVars, client, ask, cOpen>>
      /\ client[c] \notin {"idle", "hello"} /\ handler[c] # "none"
      /\ ctxDone' \in BOOLEAN /\ (ctxDone => ctxDone') /\ (ctxDone' => ctxDone \/ Stopped)
      /\ up' = [x \in Clients |-> up'[x]] /\ up'[c] = <<>>
      /\ \A x \in Clients \ {c} : up'[x] = up[x]
  BY <1>1, WiringStays
<1>3. /\ handler' = [handler EXCEPT ![c] = "done"]
      /\ sOpen' \in [Clients -> BOOLEAN] /\ \A x \in Clients \ {c} : sOpen'[x] = sOpen[x]
      /\ handler' \in [Clients -> Handlers]
      /\ "done" \in Handlers \ {"none"} /\ "done" \notin Wiring
  BY <1>1, CloseConnFacts
<1>4. Target(c) \in Targets /\ ask[c][1] = "Connect" /\ (client[c] = "answer" => down[c] = <<>>)
  BY <1>1, WiringFacts
<1> DEFINE d == [ID |-> Target(c), BAddr |-> Target(c), PAddr |-> Target(c),
                 Active |-> wired[c].active, Tunnels |-> <<>>]
<1>5. Reply(c, <<"PayloadNode", d>>, "NodeStatus")
  BY <1>1 DEF ReplyNode
<1>6. wired[c].active \in 0..1
  BY DEF IInv, TypeOK, HandlersOK
<1>7. Decode(EncodeDefault(<<"PayloadNode", d>>, "NodeStatus").val, "PayloadNode").err = ""
  BY <1>4, <1>6, NodeFacts
<1> HIDE DEF d
<1>8. Expected(c) = "PayloadNode" /\ UNCHANGED <<client, ask, wired, outgoing>>
  BY <1>1, <1>2, <1>4 DEF Expected, ClientVars, NetVars
<1>9. /\ down' = [x \in Clients |-> down'[x]] /\ \A x \in Clients \ {c} : down'[x] = down[x]
      /\ client[c] = "answer" => Answers(c)'
  BY <1>4, <1>5, <1>7, <1>8, ReplyFacts
<1>10. HandlersOK' /\ Conns'
  BY <1>3, <1>8, ConnsStay DEF IInv, TypeOK, HandlersOK
<1>11. \A x \in Clients \ {c} : wired[x].conn = "none" => wired'[x].conn = "none"
  BY <1>8
<1> QED
  BY <1>2, <1>3, <1>9, <1>10, <1>11, HandlerInd

LEMMA LinkLostInd ==
  ASSUME NEW c \in Clients, IInv, LinkLost(c)
  PROVE  IInv'
<1>1. /\ wired[c].conn = "open" /\ wired' = [wired EXCEPT ![c] = Closed(@)]
      /\ UNCHANGED <<accept, greeted, backlog, listening, serve, refused, ctxDone, client, ask,
                     up, down, cOpen, sOpen, handler, outgoing>>
  BY DEF LinkLost, LoopVars, ClientVars
<1>2. /\ LoopOK /\ ClientsOK /\ HandlersOK /\ Queue /\ Talk /\ Conns /\ Ending /\ Ends
      /\ wired[c] \in [conn : {"none", "open", "closed"}, active : 0..1]
      /\ handler \in [Clients -> Handlers]
  BY DEF IInv, TypeOK, HandlersOK
<1> DEFINE w == Closed(wired[c])
<1>3. w \in [conn : {"none", "open", "closed"}, active : 0..1] /\ w.conn # "open"
  BY <1>2, ClosedFacts
<1>4. wired' = [wired EXCEPT ![c] = w]
  BY <1>1, <1>2 DEF HandlersOK
<1> HIDE DEF w
<1>5. UNCHANGED <<outgoing, ask>> /\ handler' \in [Clients -> Handlers]
  BY <1>1, <1>2
<1>6. /\ HandlersOK' /\ Conns'
      /\ \A x \in Clients \ {c} : wired[x].conn = "none" => wired'[x].conn = "none"
  BY <1>2, <1>3, <1>4, <1>5, OneWired
<1>7. LoopOK' /\ ClientsOK'
  BY <1>1, <1>2 DEF LoopOK, ClientsOK
<1>8. Queue' /\ Ending' /\ Ends'
  BY <1>1, <1>2 DEF Queue, Queued, Ending, Stopped, Ends
<1>9. Only(c)
  BY <1>1, <1>6 DEF Only
<1>10. TalkOf(c)'
  <2>1. TalkOf(c)
    BY <1>2 DEF Talk
  <2>2. wired[c].conn # "none"
    BY <1>1
  <2>3. Unmet(c)'
    BY <1>1, <2>1, <2>2 DEF TalkOf, Unmet
  <2>4. Greeting(c)' /\ Asking(c)' /\ Wires(c)' /\ (client'[c] = "answer" => Answers(c)')
    BY <1>1, <2>1 DEF TalkOf, Greeting, Asking, Request, Wires, ToConnect, Answers, Expected
  <2> QED
    BY <2>3, <2>4 DEF TalkOf
<1>11. Talk'
  BY <1>2, <1>9, <1>10, TalkStays
<1> QED
  BY <1>6, <1>7, <1>8, <1>11 DEF IInv, TypeOK

-----------------------------------------------------------------------------
(* The steps of a client. *)

LEMMA ClientInd ==
  ASSUME NEW c \in Clients, IInv, client[c] \in {"hello", "answer"},
         NEW k \in ClientStates \ {"idle", "hello"}, client' = [client EXCEPT ![c] = k],
         UNCHANGED <<LoopVars, ctxDone, ask, sOpen, handler, NetVars>>,
         cOpen' \in [Clients -> BOOLEAN], \A x \in Clients \ {c} : cOpen'[x] = cOpen[x],
         up' = [x \in Clients |-> up'[x]], \A x \in Clients \ {c} : up'[x] = up[x],
         down' = [x \in Clients |-> down'[x]], \A x \in Clients \ {c} : down'[x] = down[x],
         Queued(c) => k = "dead", TalkOf(c)'
  PROVE  IInv'
<1>1. /\ UNCHANGED <<accept, greeted, backlog, listening, serve, refused, ctxDone, ask, sOpen, handler, wired, outgoing>>
      /\ LoopOK /\ ClientsOK /\ HandlersOK /\ Queue /\ Conns
  BY DEF LoopVars, NetVars, IInv, TypeOK
<1>2. client' \in [Clients -> ClientStates] /\ client'[c] = k /\ \A x \in Clients \ {c} : client'[x] = client[x]
  BY <1>1 DEF ClientsOK
<1>3. TypeOK'
  <2>1. LoopOK' /\ HandlersOK'
    BY <1>1 DEF LoopOK, HandlersOK
  <2>2. ClientsOK'
    BY <1>1, <1>2 DEF ClientsOK
  <2> QED
    BY <2>1, <2>2 DEF TypeOK
<1>4. Only(c)
  BY <1>1, <1>2 DEF Only
<1>5. Conns'
  BY <1>1, ConnsStay
<1>6. Queued(c) => client'[c] \in {"hello", "dead"} /\ handler'[c] = "none" /\ sOpen'[c]
  BY <1>1, <1>2 DEF Queue
<1>7. /\ client[c] = "ok" => client'[c] = "ok" /\ ask'[c] = ask[c]
      /\ client[c] = "dead" /\ handler[c] = "none" => client'[c] = "dead" /\ handler'[c] = "none"
  OBVIOUS
<1>8. /\ UNCHANGED <<accept, greeted, backlog, listening, refused>>
      /\ (ctxDone => ctxDone') /\ (ctxDone' => ctxDone \/ Stopped)
  BY <1>1
<1> QED
  BY <1>3, <1>4, <1>5, <1>6, <1>7, <1>8, StepOf

LEMMA FinishFacts ==
  ASSUME NEW c \in Clients, IInv, NEW k, Finish(c, k)
  PROVE  /\ client' = [client EXCEPT ![c] = k] /\ client'[c] = k
         /\ cOpen' \in [Clients -> BOOLEAN] /\ \A x \in Clients \ {c} : cOpen'[x] = cOpen[x]
BY DEF Finish, IInv, TypeOK, ClientsOK

LEMMA RecvHelloInd ==
  ASSUME NEW c \in Clients, IInv, RecvHello(c)
  PROVE  IInv'
<1>1. /\ client[c] = "hello" /\ down[c] # <<>> /\ down' = [down EXCEPT ![c] = Tail(@)]
      /\ UNCHANGED <<LoopVars, ctxDone, ask, sOpen, handler, NetVars>>
  BY DEF RecvHello
<1>2. TalkOf(c) /\ Queue /\ ClientsOK
  BY DEF IInv, Talk, TypeOK
<1>3. down[c] = <<HelloPacket>> /\ up[c] = <<>> /\ handler[c] = "read"
  BY <1>1, <1>2 DEF TalkOf, Greeting, Unmet
<1>4. Head(down[c]) = HelloPacket /\ Tail(down[c]) = <<>>
  BY <1>3, SingleFacts
<1>5. Decode(Head(down[c]), "PayloadHello").err = ""
  BY <1>4, HelloFacts
<1> DEFINE e == Request(c)
<1>6. \/ e.err # "" /\ Finish(c, "failed") /\ UNCHANGED up
      \/ e.err = "" /\ up' = [up EXCEPT ![c] = Append(@, e.val)] /\ Finish(c, "ok")
      \/ /\ e.err = "" /\ up' = [up EXCEPT ![c] = Append(@, e.val)] /\ UNCHANGED cOpen
         /\ client' = [client EXCEPT ![c] = "ok"]
      \/ /\ e.err = "" /\ up' = [up EXCEPT ![c] = Append(@, e.val)] /\ UNCHANGED cOpen
         /\ ask[c][1] # "Ctrl" /\ client' = [client EXCEPT ![c] = "answer"]
  BY <1>5 DEF RecvHello, Request
<1>7. Append(<<>>, e.val) = <<e.val>>
  BY SingleFacts
<1> HIDE DEF e
<1>8. PICK k \in {"failed", "ok", "answer"} :
        /\ client' = [client EXCEPT ![c] = k]
        /\ cOpen' \in [Clients -> BOOLEAN] /\ \A x \in Clients \ {c} : cOpen'[x] = cOpen[x]
        /\ k = "failed" => up' = up
        /\ k # "failed" => e.err = "" /\ up' = [up EXCEPT ![c] = Append(@, e.val)]
        /\ ask[c][1] = "Ctrl" => k \in {"failed", "ok"}
  <2>1. CASE e.err # "" /\ Finish(c, "failed") /\ UNCHANGED up
    BY <2>1, FinishFacts
  <2>2. CASE e.err = "" /\ up' = [up EXCEPT ![c] = Append(@, e.val)] /\ Finish(c, "ok")
    BY <2>2, FinishFacts
  <2>3. CASE /\ e.err = "" /\ up' = [up EXCEPT ![c] = Append(@, e.val)] /\ UNCHANGED cOpen
             /\ client' = [client EXCEPT ![c] = "ok"]
    BY <1>2, <2>3 DEF ClientsOK
  <2>4. CASE /\ e.err = "" /\ up' = [up EXCEPT ![c] = Append(@, e.val)] /\ UNCHANGED cOpen
             /\ ask[c][1] # "Ctrl" /\ client' = [client EXCEPT ![c] = "answer"]
    BY <1>2, <2>4 DEF ClientsOK
  <2> QED
    BY <1>6, <2>1, <2>2, <2>3, <2>4
<1>9. /\ down' = [x \in Clients |-> down'[x]] /\ \A x \in Clients \ {c} : down'[x] = down[x]
      /\ down'[c] = <<>>
  BY <1>1, <1>2, <1>4 DEF ClientsOK
<1>10. /\ up' = [x \in Clients |-> up'[x]] /\ \A x \in Clients \ {c} : up'[x] = up[x]
       /\ up'[c] = IF k = "failed" THEN <<>> ELSE <<e.val>>
  BY <1>2, <1>3, <1>7, <1>8 DEF ClientsOK
<1>11. UNCHANGED <<ask, handler>> /\ client'[c] = k /\ e' = e
  BY <1>1, <1>2, <1>8 DEF ClientsOK, e, Request
<1>12. TalkOf(c)'
  <2>1. Unmet(c)' /\ Greeting(c)'
    BY <1>3, <1>11 DEF Unmet, Greeting
  <2>2. Asking(c)'
    BY <1>3, <1>8, <1>9, <1>10, <1>11 DEF Asking, e
  <2>3. Wires(c)' /\ Answers(c)'
    BY <1>3, <1>9, <1>11 DEF Wires, Answers, Wiring
  <2> QED
    BY <2>1, <2>2, <2>3 DEF TalkOf
<1>13. ~Queued(c) /\ k \in ClientStates \ {"idle", "hello"} /\ client[c] \in {"hello", "answer"}
  BY <1>1, <1>2, <1>3 DEF Queue, ClientStates
<1> QED
  BY <1>1, <1>8, <1>9, <1>10, <1>12, <1>13, ClientInd

LEMMA RecvAnswerInd ==
  ASSUME NEW c \in Clients, IInv, RecvAnswer(c)
  PROVE  IInv'
<1>1. /\ client[c] = "answer" /\ down[c] # <<>> /\ down' = [down EXCEPT ![c] = Tail(@)]
      /\ UNCHANGED <<LoopVars, ctxDone, ask, up, sOpen, handler, NetVars>>
  BY DEF RecvAnswer
<1>2. PICK k \in {"ok", "failed"} : Finish(c, k)
  BY DEF RecvAnswer
<1>3. /\ client' = [client EXCEPT ![c] = k] /\ client'[c] = k
      /\ cOpen' \in [Clients -> BOOLEAN] /\ \A x \in Clients \ {c} : cOpen'[x] = cOpen[x]
  BY <1>2, FinishFacts
<1>4. TalkOf(c) /\ Queue /\ ClientsOK
  BY DEF IInv, Talk, TypeOK
<1>5. /\ down' = [x \in Clients |-> down'[x]] /\ \A x \in Clients \ {c} : down'[x] = down[x]
      /\ up' = [x \in Clients |-> up'[x]] /\ \A x \in Clients \ {c} : up'[x] = up[x]
  BY <1>1, <1>4 DEF ClientsOK
<1>6. up[c] = <<>> /\ handler[c] \notin {"none"} \cup Wiring
  BY <1>1, <1>4 DEF TalkOf, Asking, Wires, ToConnect, Unmet
<1>7. TalkOf(c)'
  BY <1>1, <1>3, <1>6 DEF TalkOf, Unmet, Greeting, Asking, Wires
<1>8. ~Queued(c) /\ k \in ClientStates \ {"idle", "hello"} /\ client[c] \in {"hello", "answer"}
  BY <1>1, <1>4 DEF Queue, ClientStates
<1> QED
  BY <1>1, <1>3, <1>5, <1>7, <1>8, ClientInd

(* A client that gives up: whatever the node still does is for nobody. *)
LEMMA GivesUpInd ==
  ASSUME NEW c \in Clients, IInv, client[c] \in {"hello", "answer"}, NEW k \in {"failed", "dead"},
         Finish(c, k), Queued(c) => k = "dead",
         UNCHANGED <<LoopVars, ctxDone, ask, up, down, sOpen, handler, NetVars>>
  PROVE  IInv'
<1>1. /\ client' = [client EXCEPT ![c] = k] /\ client'[c] = k
      /\ cOpen' \in [Clients -> BOOLEAN] /\ \A x \in Clients \ {c} : cOpen'[x] = cOpen[x]
  BY FinishFacts
<1>2. TalkOf(c) /\ ClientsOK
  BY DEF IInv, Talk, TypeOK
<1>3. /\ down' = [x \in Clients |-> down'[x]] /\ \A x \in Clients \ {c} : down'[x] = down[x]
      /\ up' = [x \in Clients |-> up'[x]] /\ \A x \in Clients \ {c} : up'[x] = up[x]
  BY <1>2 DEF ClientsOK
<1>4. TalkOf(c)'
  <2>1. UNCHANGED <<ask, up, down, handler, wired>>
    BY DEF NetVars
  <2>2. Unmet(c)' /\ Greeting(c)'
    BY <1>1, <1>2, <2>1 DEF TalkOf, Unmet, Greeting
  <2>3. Asking(c)'
    BY <1>1, <1>2, <2>1 DEF TalkOf, Asking, Request, Greeting
  <2>4. Wires(c)'
    BY <1>1, <1>2, <2>1 DEF TalkOf, Wires, ToConnect
  <2> QED
    BY <1>1, <2>2, <2>3, <2>4 DEF TalkOf
<1>5. k \in ClientStates \ {"idle", "hello"}
  BY DEF ClientStates
<1> QED
  BY <1>1, <1>3, <1>4, <1>5, ClientInd

LEMMA RecvFailsInd ==
  ASSUME NEW c \in Clients, IInv, RecvFails(c)
  PROVE  IInv'
<1>1. ~Queued(c)
  BY DEF RecvFails, IInv, Queue
<1> QED
  BY <1>1, GivesUpInd DEF RecvFails

LEMMA DieInd ==
  ASSUME NEW c \in Clients, IInv, Die(c)
  PROVE  IInv'
BY GivesUpInd DEF Die

LEMMA DialInd ==
  ASSUME NEW c \in Clients, IInv, Dial(c)
  PROVE  IInv'
<1>1. /\ client[c] = "idle"
      /\ UNCHANGED <<accept, greeted, listening, serve, refused, ctxDone, up, down, handler, wired, outgoing>>
  BY DEF Dial, NetVars
<1>2. PICK a \in Asks[c] : ask' = [ask EXCEPT ![c] = a]
  BY DEF Dial
<1>3. /\ LoopOK /\ ClientsOK /\ HandlersOK /\ Queue /\ Talk /\ Conns /\ Ending /\ Ends
      /\ TalkOf(c)
  BY DEF IInv, TypeOK, Talk
<1>4. handler[c] = "none" /\ up[c] = <<>> /\ down[c] = <<>> /\ wired[c].conn = "none" /\ ~Queued(c)
  BY <1>1, <1>3 DEF TalkOf, Unmet, Queue
<1>5. PICK k \in {"hello", "failed"} :
        /\ client' = [client EXCEPT ![c] = k]
        /\ k = "hello" => /\ cOpen' = [cOpen EXCEPT ![c] = TRUE] /\ sOpen' = [sOpen EXCEPT ![c] = TRUE]
                          /\ backlog' = Append(backlog, c)
        /\ k = "failed" => cOpen' = [cOpen EXCEPT ![c] = FALSE] /\ UNCHANGED <<sOpen, backlog>>
  BY DEF Dial, Finish
<1>6. /\ client' \in [Clients -> ClientStates] /\ client'[c] = k
      /\ \A x \in Clients \ {c} : client'[x] = client[x]
  BY <1>3, <1>5 DEF ClientsOK, ClientStates
<1>7. ask' = [x \in Clients |-> ask'[x]] /\ ask'[c] = a /\ \A x \in Clients \ {c} : ask'[x] = ask[x]
  BY <1>2, <1>3 DEF ClientsOK
<1>8. /\ cOpen' \in [Clients -> BOOLEAN] /\ sOpen' \in [Clients -> BOOLEAN]
      /\ k = "hello" => cOpen'[c] /\ sOpen'[c]
      /\ \A x \in Clients \ {c} : cOpen'[x] = cOpen[x] /\ sOpen'[x] = sOpen[x]
  BY <1>3, <1>5 DEF ClientsOK
<1>9. backlog \in Seq(Clients) /\ backlog' \in Seq(Clients)
  <2>1. backlog \in Seq(Clients)
    BY <1>3 DEF LoopOK
  <2> QED
    BY <1>5, <2>1
<1>10. TypeOK'
  <2>1. LoopOK' /\ HandlersOK'
    BY <1>1, <1>3, <1>9 DEF LoopOK, HandlersOK
  <2>2. \A x \in Clients : client'[x] # "idle" => ask'[x] \in Asks[x]
    BY <1>3, <1>6, <1>7 DEF ClientsOK
  <2>3. up' = [x \in Clients |-> up'[x]] /\ down' = [x \in Clients |-> down'[x]]
    BY <1>1, <1>3 DEF ClientsOK
  <2> QED
    BY <1>6, <1>7, <1>8, <2>1, <2>2, <2>3 DEF TypeOK, ClientsOK
<1>11. Only(c)
  BY <1>1, <1>6, <1>7, <1>8 DEF Only
<1>12. TalkOf(c)'
  BY <1>1, <1>4, <1>6, <1>8 DEF TalkOf, Unmet, Greeting, Asking, Wires, Wiring
<1>13. Talk'
  BY <1>3, <1>11, <1>12, TalkStays
<1>14. Conns'
  <2>1. \A x \in Clients : wired'[x].conn = "open" => wired[x].conn = "open" /\ ask'[x] = ask[x]
    BY <1>1, <1>4, <1>7
  <2> QED
    BY <1>1, <1>3, <2>1, ConnsStay
<1>15. Queue'
  <2>1. CASE k = "failed"
    <3>1. \A x \in Clients : Queued(x)' <=> Queued(x)
      BY <1>1, <1>5, <2>1 DEF Queued
    <3>2. \A x \in Clients : Queued(x)' => client'[x] \in {"hello", "dead"} /\ handler'[x] = "none" /\ sOpen'[x]
      BY <1>1, <1>3, <1>4, <1>6, <1>8, <3>1 DEF Queue
    <3> QED
      BY <1>1, <1>3, <1>5, <2>1, <3>2 DEF Queue
  <2>2. CASE k = "hello"
    <3>1. /\ Len(backlog') = Len(backlog) + 1 /\ Len(backlog) \in Nat
          /\ backlog'[Len(backlog) + 1] = c
          /\ \A i \in 1..Len(backlog) : backlog'[i] = backlog[i]
      BY <1>5, <1>9, <2>2, AppendProperties
    <3>2. c # greeted /\ \A i \in 1..Len(backlog) : backlog[i] # c
      BY <1>4 DEF Queued
    <3>3. \A x \in Clients : Queued(x)' => Queued(x) \/ x = c
      BY <1>1, <3>1 DEF Queued
    <3>4. \A x \in Clients : Queued(x)' => client'[x] \in {"hello", "dead"} /\ handler'[x] = "none" /\ sOpen'[x]
      BY <1>1, <1>3, <1>4, <1>6, <1>8, <2>2, <3>3 DEF Queue
    <3>5. \A i, j \in 1..Len(backlog') : backlog'[i] = backlog'[j] => i = j
      BY <1>3, <3>1, <3>2 DEF Queue
    <3>6. \A i \in 1..Len(backlog') : backlog'[i] # greeted'
      BY <1>1, <1>3, <3>1, <3>2 DEF Queue
    <3> QED
      BY <1>1, <1>3, <3>4, <3>5, <3>6 DEF Queue
  <2> QED
    BY <2>1, <2>2
<1>16. Ending' /\ Ends'
  <2>1. Stopped => Stopped'
    BY <1>1, <1>6, <1>7 DEF Stopped
  <2>2. \A x \in Clients : client[x] = "dead" /\ handler[x] = "none" => client'[x] = "dead" /\ handler'[x] = "none"
    BY <1>1, <1>6
  <2> QED
    BY <1>1, <1>3, <2>1, <2>2 DEF Ending, Ends, Stopped
<1> QED
  BY <1>10, <1>13, <1>14, <1>15, <1>16 DEF IInv

-----------------------------------------------------------------------------
(* The steps of the accept loop and of ListenAndServe. *)

(* They leave the clients alone, but for one connection that gets its hello. *)
LEMMA LoopInd ==
  ASSUME IInv, LoopOK', Queue', Ending', Ends', sOpen' \in [Clients -> BOOLEAN],
         UNCHANGED <<ClientVars, up, down, cOpen, handler, NetVars>>
  PROVE  IInv'
<1>1. UNCHANGED <<client, ask, up, down, cOpen, handler, wired, outgoing>>
      /\ ClientsOK /\ HandlersOK /\ Talk /\ Conns
  BY DEF ClientVars, NetVars, IInv, TypeOK
<1>2. ClientsOK' /\ HandlersOK'
  BY <1>1 DEF ClientsOK, HandlersOK
<1>3. Conns'
  BY <1>1, ConnsStay
<1>4. Talk'
  <2> SUFFICES ASSUME NEW c \in Clients PROVE TalkOf(c)'
    BY DEF Talk
  <2>1. TalkOf(c)
    BY <1>1 DEF Talk
  <2> QED
    BY <1>1, <2>1 DEF TalkOf, Unmet, Greeting, Asking, Request, Wires, ToConnect, Answers,
       Expected
<1> QED
  BY <1>2, <1>3, <1>4 DEF IInv, TypeOK

LEMMA AcceptInd ==
  ASSUME IInv, Accept
  PROVE  IInv'
<1>1. /\ accept = "accept" /\ backlog # <<>>
      /\ accept' = "hello" /\ greeted' = Head(backlog) /\ backlog' = Tail(backlog)
      /\ UNCHANGED <<listening, serve, refused, ctxDone, client, ask, handler, sOpen>>
      /\ UNCHANGED <<ClientVars, up, down, cOpen, handler, NetVars>>
  BY DEF Accept, ClientVars
<1>2. LoopOK /\ Queue /\ Ending /\ sOpen \in [Clients -> BOOLEAN] /\ greeted = Nobody
  BY <1>1 DEF IInv, TypeOK, ClientsOK, Queue
<1>3. Stopped' = Stopped
  BY <1>1 DEF Stopped
<1>4. /\ greeted' = backlog[1] /\ greeted' \in Clients /\ backlog' \in Seq(Clients)
      /\ Len(backlog) \in Nat \ {0} /\ Len(backlog') = Len(backlog) - 1
      /\ \A i \in 1..Len(backlog') : backlog'[i] = backlog[i + 1]
  BY <1>1, <1>2, HeadTailProperties DEF LoopOK
<1>5. LoopOK'
  BY <1>1, <1>2, <1>4 DEF LoopOK
<1>6. \A c \in Clients : Queued(c)' => Queued(c)
  BY <1>4 DEF Queued
<1>7. \A c \in Clients : Queued(c)' => client'[c] \in {"hello", "dead"} /\ handler'[c] = "none" /\ sOpen'[c]
  BY <1>1, <1>2, <1>6 DEF Queue
<1>8. \A i, j \in 1..Len(backlog') : backlog'[i] = backlog'[j] => i = j
  BY <1>2, <1>4 DEF Queue
<1>9. \A i \in 1..Len(backlog') : backlog'[i] # greeted'
  BY <1>2, <1>4 DEF Queue
<1>10. Queue'
  BY <1>1, <1>4, <1>7, <1>8, <1>9, NobodyAssumption DEF Queue
<1>11. Ending' /\ Ends'
  BY <1>1, <1>2, <1>3 DEF Ending, Ends
<1> QED
  BY <1>1, <1>2, <1>5, <1>10, <1>11, LoopInd

LEMMA AcceptFailsInd ==
  ASSUME IInv, AcceptClosed \/ AcceptRefused
  PROVE  IInv'
<1>1. /\ accept = "accept" /\ accept' = "failed"
      /\ UNCHANGED <<greeted, backlog, listening, serve, ctxDone, client, ask, handler, sOpen>>
      /\ UNCHANGED <<ClientVars, up, down, cOpen, handler, NetVars>>
  BY DEF AcceptClosed, AcceptRefused, AcceptFails, ClientVars
<1>2. LoopOK /\ Queue /\ Ending /\ sOpen \in [Clients -> BOOLEAN] /\ greeted = Nobody
  BY <1>1 DEF IInv, TypeOK, ClientsOK, Queue
<1>3. refused' \in BOOLEAN /\ (listening => refused')
  BY <1>2 DEF AcceptClosed, AcceptRefused, LoopOK
<1>4. LoopOK'
  BY <1>1, <1>2, <1>3 DEF LoopOK
<1>5. Queue'
  BY <1>1, <1>2 DEF Queue, Queued
<1>6. Stopped' = Stopped /\ (~listening => Stopped)
  BY <1>1, <1>2 DEF Ending, Stopped
<1>7. Ending' /\ Ends'
  BY <1>1, <1>2, <1>3, <1>6 DEF Ending, Ends, LoopOK
<1> QED
  BY <1>1, <1>2, <1>4, <1>5, <1>7, LoopInd

LEMMA CloseListenerFacts ==
  ASSUME IInv, CloseListener, UNCHANGED <<greeted, client, handler>>, accept' = "hello" <=> accept = "hello"
  PROVE  /\ Queue' /\ backlog' \in Seq(Clients) /\ listening' = FALSE
         /\ sOpen' \in [Clients -> BOOLEAN]
<1>1. /\ listening' = FALSE /\ backlog' = <<>>
      /\ sOpen' = [c \in Clients |-> sOpen[c] /\ ~Contains(backlog, c)]
  BY DEF CloseListener
<1>2. Queue /\ sOpen \in [Clients -> BOOLEAN]
  BY DEF IInv, TypeOK, ClientsOK
<1>3. /\ backlog' \in Seq(Clients) /\ Len(backlog') = 0
      /\ sOpen' \in [Clients -> BOOLEAN]
  BY <1>1, <1>2
<1>4. \A c \in Clients : Queued(c)' => c = greeted
  BY <1>3 DEF Queued
<1>5. \A c \in Clients : Queued(c)' => client'[c] \in {"hello", "dead"} /\ handler'[c] = "none" /\ sOpen'[c]
  <2> SUFFICES ASSUME NEW c \in Clients, c = greeted
               PROVE  client[c] \in {"hello", "dead"} /\ handler[c] = "none" /\ sOpen'[c]
    BY <1>4
  <2>1. Queued(c) /\ \A i \in 1..Len(backlog) : backlog[i] # c
    BY <1>2 DEF Queue, Queued
  <2>2. ~Contains(backlog, c)
    BY <2>1 DEF Contains
  <2> QED
    BY <1>1, <1>2, <2>1, <2>2 DEF Queue
<1>6. Queue'
  BY <1>2, <1>3, <1>5 DEF Queue
<1> QED
  BY <1>1, <1>3, <1>6

LEMMA ServeFailsInd ==
  ASSUME IInv, ServeFails
  PROVE  IInv'
<1>1. /\ accept = "failed" /\ CloseListener /\ serve' = "returned" /\ accept' = "ended" /\ ctxDone' = TRUE
      /\ UNCHANGED <<greeted, refused, client, ask, handler>>
      /\ UNCHANGED <<ClientVars, up, down, cOpen, handler, NetVars>>
  BY DEF ServeFails, ClientVars
<1>2. Queue' /\ backlog' \in Seq(Clients) /\ listening' = FALSE /\ sOpen' \in [Clients -> BOOLEAN]
  BY <1>1, CloseListenerFacts
<1>3. LoopOK'
  BY <1>1, <1>2 DEF IInv, TypeOK, LoopOK
<1>4. Ending' /\ Ends'
  BY <1>1, <1>2 DEF IInv, Ending, Ends, Stopped
<1> QED
  BY <1>1, <1>2, <1>3, <1>4, LoopInd

LEMMA ServeStopsInd ==
  ASSUME IInv, ServeStops
  PROVE  IInv'
<1>1. /\ ctxDone /\ CloseListener /\ serve' = "closing"
      /\ UNCHANGED <<accept, greeted, refused, ctxDone, client, ask, handler>>
      /\ UNCHANGED <<ClientVars, up, down, cOpen, handler, NetVars>>
  BY DEF ServeStops, ClientVars
<1>2. Queue' /\ backlog' \in Seq(Clients) /\ listening' = FALSE /\ sOpen' \in [Clients -> BOOLEAN]
  BY <1>1, CloseListenerFacts
<1>3. LoopOK'
  BY <1>1, <1>2 DEF IInv, TypeOK, LoopOK
<1>4. Ending' /\ Ends'
  BY <1>1, <1>2 DEF IInv, Ending, Stopped, Ends
<1> QED
  BY <1>1, <1>2, <1>3, <1>4, LoopInd

LEMMA ServeReturnsInd ==
  ASSUME IInv, ServeReturns
  PROVE  IInv'
<1>1. /\ accept = "failed" /\ serve' = "returned" /\ accept' = "ended"
      /\ UNCHANGED <<greeted, backlog, listening, refused, ctxDone, client, ask, handler, sOpen>>
      /\ UNCHANGED <<ClientVars, up, down, cOpen, handler, NetVars>>
  BY DEF ServeReturns, ClientVars
<1>2. Queue' /\ sOpen' \in [Clients -> BOOLEAN]
  BY <1>1 DEF IInv, TypeOK, ClientsOK, Queue, Queued
<1>3. LoopOK'
  BY <1>1 DEF IInv, TypeOK, LoopOK
<1>4. Ending' /\ Ends'
  BY <1>1 DEF IInv, Ending, Stopped, Ends
<1> QED
  BY <1>1, <1>2, <1>3, <1>4, LoopInd

LEMMA SendHelloInd ==
  ASSUME IInv, SendHello
  PROVE  IInv'
<1>1. /\ accept = "hello" /\ greeted' = Nobody
      /\ UNCHANGED <<backlog, listening, serve, refused, ctxDone, client, ask, up, cOpen, sOpen, wired, outgoing>>
  BY DEF SendHello, ClientVars, NetVars
<1>2. PICK sent \in BOOLEAN :
        /\ cOpen[greeted] => sent
        /\ accept' = IF sent THEN "accept" ELSE "failed"
        /\ IF sent THEN /\ down' = [down EXCEPT ![greeted] = Append(@, HelloPacket)]
                        /\ handler' = [handler EXCEPT ![greeted] = "read"]
           ELSE UNCHANGED <<down, handler>>
  BY DEF SendHello, AfterHello, HelloPacket
<1>3. /\ LoopOK /\ ClientsOK /\ HandlersOK /\ Queue /\ Talk /\ Conns /\ Ending /\ Ends
  BY DEF IInv, TypeOK
<1>4. PICK c \in Clients : c = greeted
  BY <1>1, <1>3 DEF LoopOK, Queue
<1>5. client[c] \in {"hello", "dead"} /\ handler[c] = "none" /\ TalkOf(c)
  BY <1>3, <1>4 DEF Queue, Queued, Talk
<1>6. up[c] = <<>> /\ down[c] = <<>> /\ (client[c] = "hello" => cOpen[c])
  BY <1>5 DEF TalkOf, Unmet, Greeting
<1>7. LoopOK'
  BY <1>1, <1>2, <1>3 DEF LoopOK
<1>8. /\ down' = [x \in Clients |-> down'[x]] /\ \A x \in Clients \ {c} : down'[x] = down[x]
      /\ handler' \in [Clients -> Handlers] /\ \A x \in Clients \ {c} : handler'[x] = handler[x]
  BY <1>2, <1>3, <1>4 DEF ClientsOK, HandlersOK, Handlers
<1>9. Append(<<>>, HelloPacket) = <<HelloPacket>>
  BY SingleFacts
<1>10. sent => down'[c] = <<HelloPacket>> /\ handler'[c] = "read"
  BY <1>2, <1>3, <1>4, <1>6, <1>9 DEF ClientsOK, HandlersOK
<1>11. ~sent => UNCHANGED <<down, handler>> /\ client[c] = "dead"
  BY <1>2, <1>4, <1>5, <1>6
<1>12. ClientsOK' /\ HandlersOK'
  BY <1>1, <1>3, <1>8 DEF ClientsOK, HandlersOK
<1>13. TalkOf(c)
  BY <1>5
<1>14. TalkOf(c)'
  <2>1. UNCHANGED <<client, ask, up, cOpen, wired>>
    BY <1>1
  <2>2. CASE sent
    BY <1>5, <1>6, <1>10, <2>1, <2>2 DEF TalkOf, Unmet, Greeting, Asking, Wires, Wiring
  <2>3. CASE ~sent
    BY <1>11, <1>13, <2>1, <2>3 DEF TalkOf, Unmet, Greeting, Asking, Request, Wires,
       ToConnect, Answers, Expected
  <2> QED
    BY <2>2, <2>3
<1>15. Only(c)
  BY <1>1, <1>8 DEF Only
<1>16. Talk'
  BY <1>3, <1>14, <1>15, TalkStays
<1>17. Conns'
  BY <1>1, <1>3, ConnsStay
<1>18. Queue'
  <2>1. \A x \in Clients : Queued(x)' => Queued(x) /\ x # c
    BY <1>1, <1>3, <1>4, NobodyAssumption DEF Queued, Queue
  <2>2. \A x \in Clients : Queued(x)' => client'[x] \in {"hello", "dead"} /\ handler'[x] = "none" /\ sOpen'[x]
    BY <1>1, <1>3, <1>8, <2>1 DEF Queue
  <2>3. \A i \in 1..Len(backlog) : backlog[i] # Nobody
    BY <1>3, NobodyAssumption DEF LoopOK
  <2> QED
    BY <1>1, <1>2, <1>3, <2>2, <2>3 DEF Queue
<1>19. Ending' /\ Ends'
  <2>1. Stopped' = Stopped /\ (ctxDone => Stopped)
    BY <1>1, <1>3 DEF Stopped, Ending
  <2>2. ~sent => \E x \in Clients : client'[x] = "dead" /\ handler'[x] = "none"
    BY <1>1, <1>5, <1>11
  <2> QED
    BY <1>1, <1>2, <1>3, <2>1, <2>2 DEF Ending, Ends
<1> QED
  BY <1>7, <1>12, <1>16, <1>17, <1>18, <1>19 DEF IInv, TypeOK

-----------------------------------------------------------------------------
LEMMA InitInd == Init => IInv
<1> SUFFICES ASSUME Init PROVE IInv
  OBVIOUS
<1> USE DEF Init
<1>1. LoopOK /\ ClientsOK /\ HandlersOK
  <2>1. LoopOK
    <3>1. <<>> \in Seq(Clients)
      OBVIOUS
    <3> QED
      BY <3>1 DEF LoopOK
  <2>2. ClientsOK
    BY DEF ClientsOK, ClientStates
  <2>3. [conn |-> "none", active |-> 0] \in [conn : {"none", "open", "closed"}, active : 0..1]
    OBVIOUS
  <2>4. HandlersOK
    BY <2>3 DEF HandlersOK, Handlers
  <2> QED
    BY <2>1, <2>2, <2>4
<1>2. Queue
  BY NobodyAssumption DEF Queue, Queued
<1>3. Talk
  BY DEF Talk, TalkOf, Unmet, Greeting, Asking, Wires, Wiring
<1> QED
  BY <1>1, <1>2, <1>3 DEF IInv, TypeOK, Conns, Ending, Ends

LEMMA StepInd == IInv /\ [Next]_vars => IInv'
<1> SUFFICES ASSUME IInv, [Next]_vars PROVE IInv'
  OBVIOUS
<1>1. CASE Loop \/ AcceptRefused
  BY <1>1, AcceptInd, AcceptFailsInd, SendHelloInd, ServeFailsInd, ServeStopsInd,
     ServeReturnsInd DEF Loop
<1>2. ASSUME NEW c \in Clients, Dial(c) \/ Die(c) \/ Work(c) \/ LinkLost(c) PROVE IInv'
  <2>1. CASE RecvHello(c) \/ RecvAnswer(c) \/ RecvFails(c)
    BY <2>1, RecvHelloInd, RecvAnswerInd, RecvFailsInd
  <2>2. CASE HandleEnd(c) \/ HandleCtrl(c) \/ HandleMonitor(c) \/ HandleHeartbeat(c)
    BY <2>2, HandleEndInd, HandleCtrlInd, HandleMonitorInd, HandleHeartbeatInd
  <2>3. CASE HandleConnect(c) \/ HandleDisconnect(c)
    BY <2>3, HandleConnectInd, HandleDisconnectInd
  <2>4. CASE WireDial(c) \/ AddConn(c) \/ WireSend(c) \/ Activate(c) \/ ReplyConnect(c)
    BY <2>4, WireDialInd, AddConnInd, WireSendInd, ActivateInd, ReplyConnectInd
  <2> QED
    BY <1>2, <2>1, <2>2, <2>3, <2>4, DialInd, DieInd, LinkLostInd DEF Work
<1>3. CASE UNCHANGED vars
  <2>1. /\ UNCHANGED <<accept, greeted, backlog, listening, serve, refused, ctxDone, client, ask, handler, sOpen>>
        /\ UNCHANGED <<ClientVars, up, down, cOpen, handler, NetVars>>
    BY <1>3 DEF vars, ClientVars, NetVars
  <2>2. LoopOK' /\ Queue' /\ Ending' /\ Ends' /\ sOpen' \in [Clients -> BOOLEAN]
    <3>1. LoopOK' /\ sOpen' \in [Clients -> BOOLEAN]
      BY <2>1 DEF IInv, TypeOK, ClientsOK, LoopOK
    <3>2. Queue'
      BY <2>1 DEF IInv, Queue, Queued
    <3>3. Ending' /\ Ends'
      BY <2>1 DEF IInv, Ending, Stopped, Ends
    <3> QED
      BY <3>1, <3>2, <3>3
  <2> QED
    BY <2>1, <2>2, LoopInd
<1> QED
  BY <1>1, <1>2, <1>3 DEF Next

LEMMA Invariance == Spec => []IInv
BY InitInd, StepInd, PTL DEF Spec

(* Whoever asks, and whatever is asked, the state of the accept loop, of   *)
(* the clients and of their handlers stays well formed: who has dialled    *)
(* asks one of its requests, and Network.Outgoing names clients            *)
(* (booster.go, handlers.go).                                              *)
THEOREM TypeCorrect == Spec => []TypeOK
<1>1. IInv => TypeOK
  BY DEF IInv
<1> QED
  BY <1>1, Invariance, PTL

LEMMA UnderstoodOf == IInv => Understood
<1> SUFFICES ASSUME IInv PROVE Understood
  OBVIOUS
<1>1. \A m \in Samples : RoundTrips(m[1], m[2])
  BY RequestsAssumption, MessagesRead
<1>2. ASSUME NEW c \in Clients, down[c] # <<>>, client[c] \in {"hello", "answer"}
      PROVE  Decode(Head(down[c]), Expected(c)).err = ""
  <2>1. TalkOf(c)
    BY DEF IInv, Talk
  <2>2. CASE client[c] = "hello"
    <3>1. down[c] = <<HelloPacket>>
      BY <1>2, <2>1, <2>2 DEF TalkOf, Greeting
    <3>2. Head(down[c]) = HelloPacket /\ Expected(c) = "PayloadHello"
      BY <2>2, <3>1, SingleFacts DEF Expected
    <3> QED
      BY <3>2, HelloFacts
  <2>3. CASE client[c] = "answer"
    <3>1. PICK p : down[c] = <<p>> /\ Decode(p, Expected(c)).err = ""
      BY <1>2, <2>1, <2>3 DEF TalkOf, Answers
    <3>2. Head(down[c]) = p
      BY <3>1, SingleFacts
    <3> QED
      BY <3>1, <3>2
  <2> QED
    BY <1>2, <2>2, <2>3
<1>3. ASSUME NEW c \in Clients, up[c] # <<>>
      PROVE  Decode(Head(up[c]), PayloadType[ask[c][1]]) = Good(Carried(ask[c][1], ask[c][2]))
  <2>1. Asking(c)
    BY DEF IInv, Talk, TalkOf
  <2>2. up[c] = <<Request(c).val>> /\ Request(c).err = "" /\ client[c] # "idle"
    BY <1>3, <2>1 DEF Asking
  <2>3. Head(up[c]) = Request(c).val
    BY <2>2, SingleFacts
  <2> QED
    BY <2>2, <2>3, AskFacts
<1> QED
  BY <1>1, <1>2, <1>3 DEF Understood

(* Whatever is asked, by however many, every packet under way decodes into *)
(* what its reader asks for, and a request into what was asked             *)
(* (network.go:199, decoder.go).                                           *)
THEOREM PacketsUnderstood == Spec => []Understood
BY Invariance, UnderstoodOf, PTL

(* However many clients ask for it at once, a target has one connection:   *)
(* the look at Outgoing and the addition are one step (network.go).        *)
THEOREM OneConnectionEach == Spec => []OneConnection
<1>1. IInv => OneConnection
  BY DEF IInv, Conns, OneConnection
<1> QED
  BY <1>1, Invariance, PTL

(* The accept loop and the context of Run end only after a hello to a      *)
(* client that has died, a request to stop, or an error of ln.Accept on    *)
(* the open listener (booster.go:262, 268).                                *)
THEOREM LoopEnds == Spec => []LoopEndCauses
<1>1. IInv => LoopEndCauses
  BY DEF IInv, Ending, Ends, Stopped, LoopEndCauses
<1> QED
  BY <1>1, Invariance, PTL
=============================================================================
