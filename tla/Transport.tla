------------------------------ MODULE Transport ------------------------------
(***************************************************************************)
(* One direction of a connection between two booster nodes: packets are    *)
(* encoded by whoever sends (network.Conn.Send, under a mutex, called by    *)
(* booster.Conn.Send with a timeout), travel as bytes of a TCP connection   *)
(* that may break anywhere, and are decoded by the other side: its hello by *)
(* Recv, the others by the goroutine of Consume, which hands them to        *)
(* Handle.                                                                  *)
(*                                                                         *)
(* Bytes are those of the code (package packet): a reader that trusts too   *)
(* much would take the tags that payloads contain for its own.              *)
(***************************************************************************)
EXTENDS Integers, Sequences, FiniteSets, SequencesExt

CONSTANTS
    Senders,   \* calls of Send: the hello's, then those of other goroutines
    Hello,     \* the sender of the hello packet
    Packet,    \* the packet each of them sends
    Base       \* the values of a byte of a size: 256 in the code

(* The tags ">", "<", "[", "]" and ":" of package protocol. *)
PacketOpen == 62
PacketClose == 60
ModuleOpen == 91
ModuleClose == 93
Sep == 58

Byte == 0..255

(* A packet has its metadata and, per identifier, a payload. *)
ASSUME ConstantsAssumption ==
    /\ Hello \in Senders
    /\ Base \in 2..256
    /\ \A s \in Senders :
         /\ DOMAIN Packet[s] = {"meta", "modules"}
         /\ Packet[s].meta \in [1..3 -> Byte]
         /\ IsFiniteSet(DOMAIN Packet[s].modules)
         /\ Cardinality(DOMAIN Packet[s].modules) \in 1..255
         /\ \A id \in DOMAIN Packet[s].modules :
              /\ id \in Seq(Byte) /\ Len(id) = 2
              /\ Packet[s].modules[id] \in Seq(Byte)
              /\ Len(Packet[s].modules[id]) \in 1..(Base * Base - 1)

VARIABLES
    sender,   \* per Send: where it is
    todo,     \* per Send: the writes it still has to do
    mutex,    \* who holds Conn.mutex
    wire,     \* the bytes that were written and not read
    closed,   \* the connection has ended, for both sides
    reader,   \* who reads: recv (RecvHello), decode and offer (Consume), ended
    want,     \* what its Decode has still to read
    part,     \* what it has read so far
    handler,  \* Handle: idle, ready (its range loop), failed, done
    begun,    \* history: the packets whose Encode began, in order
    decoded   \* history: the packets that Decode returned, in order

vars == <<sender, todo, mutex, wire, closed, reader, want, part, handler,
          begun, decoded>>
SendVars == <<sender, todo, mutex, begun>>
ReadVars == <<reader, want, part, handler, decoded>>

None == "none"
ASSUME NoneAssumption == None \notin Senders

TypeOK ==
    /\ sender \in [Senders -> {"idle", "lock", "write", "ok", "failed"}]
    /\ \A s \in Senders : (sender[s] = "write") = (mutex = s) /\ (todo[s] # <<>>) = (mutex = s)
    /\ mutex \in Senders \cup {None}
    /\ wire \in Seq(Byte)
    /\ closed \in BOOLEAN
    /\ reader \in {"recv", "decode", "offer", "ended"}
    /\ handler \in {"idle", "ready", "failed", "done"}

-----------------------------------------------------------------------------
(* Encoding: the writes that Encode makes, one after the other.            *)

EncodeModule(id, payload) ==
    <<<<ModuleOpen>>, id, <<Sep>>, <<Len(payload) \div Base, Len(payload) % Base>>, <<Sep>>,
      payload, <<ModuleClose>>>>

(* Mutant: no closing tag. *)
EncodeUnclosed(p, order) ==
    LET meta == FlattenSeq([i \in 1..3 |-> <<<<p.meta[i]>>, <<Sep>>>>])
        modules == [i \in DOMAIN order |-> EncodeModule(order[i], p.modules[order[i]])]
    IN  <<<<PacketOpen>>>> \o meta \o <<<<Len(order)>>>> \o FlattenSeq(modules)

(* The modules are a map: they come in any order. *)
Encode(p, order) ==
    LET meta == FlattenSeq([i \in 1..3 |-> <<<<p.meta[i]>>, <<Sep>>>>])
        modules == [i \in DOMAIN order |-> EncodeModule(order[i], p.modules[order[i]])]
    IN  <<<<PacketOpen>>>> \o meta \o <<<<Len(order)>>>> \o FlattenSeq(modules)
          \o <<<<PacketClose>>>>

-----------------------------------------------------------------------------
(* Decoding: what Decode has still to read, and what it has made of the    *)
(* packet so far.                                                          *)

Tag(t) == [kind |-> "tag", t |-> t]
Field(k) == [kind |-> k, t |-> 0]

PacketFields == <<Tag(PacketOpen), Field("meta"), Tag(Sep), Field("meta"), Tag(Sep),
                  Field("meta"), Tag(Sep), Field("count")>>
ModuleFields == <<Tag(ModuleOpen), Field("id"), Tag(Sep), Field("size"), Tag(Sep),
                  Field("payload"), Tag(ModuleClose)>>
Empty == [meta |-> <<>>, modules |-> [i \in {} |-> <<>>], id |-> <<>>, size |-> 0]

(* The bytes of a field. *)
Width(k) == IF k = "payload" THEN part.size ELSE IF k \in {"id", "size"} THEN 2 ELSE 1

(* Each field, with its bytes. *)
WithModule(b) ==
    [part EXCEPT !.modules = [i \in DOMAIN @ \cup {part.id} |-> IF i = part.id THEN b ELSE @[i]]]
FilledWith(k, b, size, module) ==
    CASE k = "meta"    -> [part EXCEPT !.meta = Append(@, b[1])]
      [] k = "id"      -> [part EXCEPT !.id = b]
      [] k = "size"    -> [part EXCEPT !.size = size]
      [] k = "payload" -> module
      [] OTHER         -> part

(* Mutants: only the last byte of a size; only the last module is kept. *)
FilledByte(k, b) == FilledWith(k, b, Last(b), WithModule(b))
FilledLast(k, b) ==
    FilledWith(k, b, b[1] * Base + Last(b), [part EXCEPT !.modules = [i \in {part.id} |-> b]])

Filled(k, b) == FilledWith(k, b, b[1] * Base + Last(b), WithModule(b))

Init ==
    /\ sender = [s \in Senders |-> "idle"]
    /\ todo = [s \in Senders |-> <<>>]
    /\ mutex = None
    /\ wire = <<>> /\ closed = FALSE
    /\ reader = "recv" /\ want = PacketFields /\ part = Empty /\ handler = "idle"
    /\ begun = <<>> /\ decoded = <<>>

-----------------------------------------------------------------------------
(* The sending side.                                                       *)

(* The accept loop sends the hello first. *)
CallSend(s) ==
    /\ sender[s] = "idle"
    /\ s # Hello => sender[Hello] \in {"ok", "failed"}
    /\ sender' = [sender EXCEPT ![s] = "lock"]
    /\ UNCHANGED <<todo, mutex, wire, closed, begun, ReadVars>>

StartEncode(s) ==
    /\ sender[s] = "lock"
    /\ mutex = None /\ mutex' = s
    /\ \E order \in SetToSeqs(DOMAIN Packet[s].modules) :
         todo' = [todo EXCEPT ![s] = Encode(Packet[s], order)]
    /\ sender' = [sender EXCEPT ![s] = "write"]
    /\ begun' = Append(begun, Packet[s])
    /\ UNCHANGED <<wire, closed, ReadVars>>

(* Encode returns, and Send unlocks. *)
Return(s, result) ==
    /\ sender' = [sender EXCEPT ![s] = result]
    /\ mutex' = None
    /\ todo' = [todo EXCEPT ![s] = <<>>]

Write(s) ==
    /\ sender[s] = "write"
    /\ IF closed THEN Return(s, "failed") /\ UNCHANGED wire
       ELSE /\ wire' = wire \o Head(todo[s])
            /\ IF Len(todo[s]) = 1 THEN Return(s, "ok")
               ELSE todo' = [todo EXCEPT ![s] = Tail(@)] /\ UNCHANGED <<sender, mutex>>
    /\ UNCHANGED <<closed, begun, ReadVars>>

(* The connection ends: what the peer has not read may be lost, from any   *)
(* byte on.                                                                *)
Break ==
    /\ closed' = TRUE
    /\ \E k \in 0..Len(wire) : wire' = SubSeq(wire, 1, k)

(* A peer that does not read blocks the writer; booster.Conn.Send closes   *)
(* the connection after IOTimeout, and the write fails.  The hello is sent *)
(* without a timeout.  The network may also break the connection itself.   *)
Timeout(s) ==
    /\ sender[s] \in {"lock", "write"} /\ s # Hello /\ ~closed
    /\ Break
    /\ UNCHANGED <<SendVars, ReadVars>>

LinkLost ==
    /\ ~closed
    /\ Break
    /\ UNCHANGED <<SendVars, ReadVars>>

-----------------------------------------------------------------------------
(* The receiving side.                                                     *)

(* Decode fails: Recv closes the connection, Consume its channel. *)
DecodeFails ==
    /\ reader' = "ended"
    /\ closed' = (closed \/ reader = "recv")
    /\ handler' = IF handler = "ready" THEN "done" ELSE handler
    /\ UNCHANGED <<wire, want, part, decoded>>

(* It goes on, or returns the packet: to RecvHello, after which Handle     *)
(* consumes the connection, or to the goroutine of Consume.                *)
DecodeGoesOn(rest) ==
    IF rest # <<>>
      THEN want' = rest /\ UNCHANGED <<reader, handler, decoded>>
      ELSE /\ want' = PacketFields
           /\ decoded' = Append(decoded, [meta |-> part.meta, modules |-> part.modules])
           /\ IF reader = "recv"
                THEN reader' = "decode" /\ handler' = "ready"
                ELSE reader' = "offer" /\ UNCHANGED handler

(* TagReader.Read returns io.EOF when the tag is read, and also when the   *)
(* peer has closed the connection; if it was closed on this side, or reset, *)
(* it returns another error, as for a wrong tag.                           *)
ReadTag ==
    /\ reader \in {"recv", "decode"} /\ Head(want).kind = "tag"
    /\ wire # <<>> \/ closed
    /\ \/ /\ wire = <<>> \/ IsPrefix(<<Head(want).t>>, wire)
          /\ wire' = IF wire = <<>> THEN wire ELSE Tail(wire)
          /\ DecodeGoesOn(Tail(want))
          /\ part' = IF Len(want) = 1 THEN Empty ELSE part
          /\ UNCHANGED closed
       \/ ~IsPrefix(<<Head(want).t>>, wire) /\ DecodeFails
    /\ UNCHANGED SendVars

(* io.ReadFull.  The number of modules tells what comes next. *)
ReadField ==
    LET k == Head(want).kind
        n == Width(k)
        b == SubSeq(wire, 1, n)
        enough == Len(wire) >= n
    IN  /\ reader \in {"recv", "decode"} /\ k # "tag"
        /\ enough \/ closed
        /\ IF ~enough THEN DecodeFails
           ELSE /\ wire' = SubSeq(wire, n + 1, Len(wire))
                /\ part' = Filled(k, b)
                /\ want' = IF k # "count" THEN Tail(want)
                           ELSE [i \in 1..(7 * b[1]) |-> ModuleFields[((i - 1) % 7) + 1]]
                                  \o <<Tag(PacketClose)>>
                /\ UNCHANGED <<closed, reader, handler, decoded>>
        /\ UNCHANGED SendVars

(* Mutant: Handle returns when it finds the connection closed. *)
OfferUntilClosed ==
    /\ reader = "offer" /\ handler = "ready"
    /\ IF closed THEN handler' = "done" /\ UNCHANGED reader
       ELSE reader' = "decode" /\ UNCHANGED handler
    /\ UNCHANGED <<SendVars, wire, closed, want, part, decoded>>

(* ch <- p: the loop of Handle receives and handles it, or fails on it,    *)
(* closes the connection and returns.                                      *)
Offer ==
    /\ reader = "offer" /\ handler = "ready"
    /\ reader' = "decode"
    /\ \/ UNCHANGED <<handler, closed, wire>>
       \/ handler' = "failed" /\ (IF closed THEN UNCHANGED <<closed, wire>> ELSE Break)
    /\ UNCHANGED <<SendVars, want, part, decoded>>

Next ==
    \/ \E s \in Senders : CallSend(s) \/ StartEncode(s) \/ Write(s) \/ Timeout(s)
    \/ LinkLost \/ ReadTag \/ ReadField \/ Offer

Spec == Init /\ [][Next]_vars

(* Writers, the decoder and the handler go on; nobody has to send.         *)
FairSpec ==
    /\ Spec /\ WF_vars(ReadTag) /\ WF_vars(ReadField) /\ WF_vars(Offer)
    /\ \A s \in Senders : WF_vars(StartEncode(s)) /\ WF_vars(Write(s))

-----------------------------------------------------------------------------
(* Properties.                                                             *)

(* What Decode returns, wherever the connection broke, are the first of    *)
(* the packets that were sent, whole and in the order of the mutex: a      *)
(* packet that lost its closing tag passes (decoder.go:112), one that lost *)
(* part of a module does not.                                              *)
SamePacket(p, q) ==
    /\ p.meta = q.meta
    /\ {<<i, p.modules[i]>> : i \in DOMAIN p.modules} = {<<i, q.modules[i]>> : i \in DOMAIN q.modules}
Intact ==
    /\ Len(decoded) <= Len(begun)
    /\ \A i \in DOMAIN decoded : SamePacket(decoded[i], begun[i])

(* The reader does not fail on what was sent (network.go:92) unless the    *)
(* connection has ended.                                                   *)
FailsOnlyAtEnd == reader = "ended" => closed

(* The goroutine of Consume keeps a packet for ever (network.go:96) only   *)
(* if Handle has failed on the one before.                                 *)
StrandedByFailure == reader = "offer" /\ handler # "ready" => handler = "failed"

(* A packet that was sent is decoded, or the connection ends, or the       *)
(* handler is gone (network.go:126): nothing stays in between.             *)
Delivered ==
    \A s \in Senders :
      sender[s] = "ok" ~> \/ \E i \in DOMAIN decoded : SamePacket(decoded[i], Packet[s])
                          \/ closed \/ handler = "failed"

=============================================================================
