----------------------------- MODULE ProxyProofs ----------------------------
(***************************************************************************)
(* Proofs about Proxy, for any size of a chunk, any number of bytes and    *)
(* whichever directions are measured: the types; what the client and the   *)
(* subscribers are told; that a session which ends by itself has delivered *)
(* the direction that ended it; that the timer cuts a silent session only; *)
(* and that every byte is counted once.                                    *)
(***************************************************************************)
EXTENDS Proxy, SequenceTheorems, TLAPS

Ends == {"src", "dst"}
Results == Directions \X {"ok", "failed"}
Meters == [N : Nat, t : {0, 1}, prev : Nat, read : Nat \cup {-1}, sum : Nat, tot : Nat]

ControlOK ==
    /\ run \in {"serving", "ended"} /\ ticking \in BOOLEAN /\ cut \in BOOLEAN
    /\ stage \in {None, "negotiate", "request", "dial", "start", "proxy", "stop",
                  "closeDst", "closeSrc", "done"}
    /\ asked \in {None, "connect", "bind", "associate"}
    /\ reply \in {None, "noAuth", "noAcceptableMethods", "success", "hostUnreachable",
                  "commandNotSupported"}
    /\ timer \in {"off", "armed", "fired"}
    /\ events \in {<<>>, <<"TunnelAdded">>, <<"TunnelAdded", "TunnelRemoved">>}
EndsOK == open \in SUBSET Ends /\ ended \in SUBSET Ends /\ broken \in SUBSET Ends
BytesOK ==
    /\ unread \in [Directions -> Nat] /\ sent \in [Directions -> Nat]
    /\ got \in [Directions -> Nat] /\ n \in [Directions -> Nat]
    /\ fresh \in [Directions -> Nat]
ResultsOK ==
    /\ copy \in [Directions -> {"off", "copy", "ok", "failed"}]
    /\ c \in Seq(Results)
    /\ cause \in Results \cup {<<>>}
MetersOK == meter \in [Metered -> Meters]
TypeOK == ControlOK /\ EndsOK /\ BytesOK /\ ResultsOK /\ MetersOK

(* Before ProxyData, nothing is copied and no timer runs. *)
Before ==
    /\ copy = [d \in Directions |-> "off"] /\ c = <<>> /\ timer = "off" /\ ~cut
    /\ got = Zero /\ fresh = Zero /\ events = <<>>

Stages ==
    /\ stage \in {None, "negotiate", "request", "dial", "start"} => Before
    /\ stage = "start" => reply = "success" /\ open = Ends
    /\ stage \in {"proxy", "stop"} => reply = "success" /\ events = <<"TunnelAdded">>
    /\ stage \in {"proxy", "stop", "closeDst"} => open = IF cut THEN {} ELSE Ends
    /\ stage = "stop" => cause \in Results /\ cause[2] = "failed"
    /\ stage \in {"closeDst", "closeSrc"} =>
          reply = "success" /\ events = <<"TunnelAdded", "TunnelRemoved">>
    /\ stage = "closeSrc" => open \subseteq {"src"}
    /\ stage = "done" =>
          /\ open = {}
          /\ \/ Before
             \/ reply = "success" /\ events = <<"TunnelAdded", "TunnelRemoved">>

(* What was sent is read or can be read, until a connection is closed, by  *)
(* the timer or as the session ends, or breaks.                            *)
Lossy == cut \/ broken # {} \/ stage \in {"closeSrc", "done"}
Conserved == \A d \in Directions : Lossy \/ sent[d] = got[d] + unread[d]

(* A failed copy, from AtEnd until ProxyData receives it. *)
Exhausted(d) == Lossy \/ (From[d] \in ended /\ unread[d] = 0)
Failures ==
    /\ \A d \in Directions : copy[d] = "failed" => Exhausted(d)
    /\ \A i \in 1..Len(c) : c[i][2] = "failed" => Exhausted(c[i][1])
    /\ stage = "stop" => Exhausted(cause[1])

(* A CopyN that runs has not filled its chunk. *)
Chunks ==
    \A d \in Directions : n[d] < Chunk /\ (copy[d] # "copy" => n[d] = 0)

(* A chunk that was filled since the timer was set has left a result. *)
Unreset ==
    stage = "proxy" =>
       \A d \in Directions : fresh[d] <= n[d] \/ c # <<>> \/ copy[d] \in {"ok", "failed"}

Counted ==
    \A d \in Metered :
       /\ got[d] = meter[d].N + n[d]
       /\ meter[d].sum = meter[d].prev /\ meter[d].sum <= meter[d].tot /\ meter[d].tot <= meter[d].N
       /\ meter[d].read # -1 => meter[d].prev <= meter[d].read /\ meter[d].read <= meter[d].N

(* The inductive invariant. *)
IInv ==
    /\ TypeOK
    /\ Stages
    /\ Conserved
    /\ Failures
    /\ Chunks
    /\ Unreset
    /\ Counted

-----------------------------------------------------------------------------
(* What the constants are, as far as the proofs need it. *)
LEMMA ConstantFacts == Chunk \in Nat /\ Chunk > 0 /\ Metered \subseteq Directions
BY ProxyAssumption

LEMMA InitInd == Init => IInv
<1> SUFFICES ASSUME Init PROVE IInv
  OBVIOUS
<1> USE ConstantFacts DEF Init, None
<1>1. TypeOK
  <2>1. ControlOK
    BY DEF ControlOK
  <2>2. EndsOK
    BY DEF EndsOK, Ends
  <2>3. ResultsOK
    BY DEF ResultsOK, Results
  <2>4. BytesOK /\ MetersOK
    BY DEF BytesOK, MetersOK, Meters, Zero
  <2> QED
    BY <2>1, <2>2, <2>3, <2>4 DEF TypeOK
<1>2. Stages /\ Failures /\ Unreset
  BY DEF Stages, Before, Failures, Unreset
<1>3. Conserved /\ Chunks /\ Counted
  BY DEF Conserved, Lossy, Chunks, Counted, Zero
<1> QED
  BY <1>1, <1>2, <1>3 DEF IInv

(* The second event of a session. *)
LEMMA EventFacts == Append(<<"TunnelAdded">>, "TunnelRemoved") = <<"TunnelAdded", "TunnelRemoved">>
<1> DEFINE S == {"TunnelAdded", "TunnelRemoved"}
           s == Append(<<"TunnelAdded">>, "TunnelRemoved")
           t == <<"TunnelAdded", "TunnelRemoved">>
<1>1. <<"TunnelAdded">> \in Seq(S) /\ t \in Seq(S) /\ "TunnelRemoved" \in S
  OBVIOUS
<1>2. /\ Len(<<"TunnelAdded">>) = 1 /\ <<"TunnelAdded">>[1] = "TunnelAdded"
      /\ Len(t) = 2 /\ t[1] = "TunnelAdded" /\ t[2] = "TunnelRemoved"
  OBVIOUS
<1> HIDE DEF S, t
<1>3. s \in Seq(S) /\ Len(s) = 2 /\ s[1] = "TunnelAdded" /\ s[2] = "TunnelRemoved"
  BY <1>1, <1>2, AppendProperties
<1> HIDE DEF s
<1>4. \A i \in 1..Len(s) : s[i] = t[i]
  BY <1>2, <1>3
<1>5. s = t
  BY <1>1, <1>2, <1>3, <1>4, SeqEqual
<1> QED
  BY <1>5 DEF s, t

LEMMA PortBytes ==
    \A p \in 1..(Base * Base - 1) : EncodePort(p) \in Nat \X Nat
<1> SUFFICES ASSUME NEW p \in 1..(Base * Base - 1) PROVE EncodePort(p) \in Nat \X Nat
  OBVIOUS
<1>0. Base = 256
  BY DEF Base
<1>1. p \in Int /\ 0 < p
  BY <1>0
<1>2. p \div 256 \in Nat /\ p % 256 \in Nat
  BY <1>1
<1> QED
  BY <1>2 DEF EncodePort, Base

LEMMA PortRead ==
  ASSUME NEW p \in 1..(Base * Base - 1), NEW s, NEW i,
         s[i] = EncodePort(p)[1], s[i + 1] = EncodePort(p)[2]
  PROVE  ReadPort(s, i) = p
<1> DEFINE q == p \div 256
           r == p % 256
<1>0. Base * Base = 65536
  BY DEF Base
<1>1. p \in Int /\ 0 < p /\ p < 65536
  BY <1>0
<1>2. q \in 0..255 /\ r \in 0..255 /\ p = 256 * q + r
  BY <1>1
<1>3. EncodePort(p) = <<q, r>>
  BY DEF EncodePort, Base
<1> HIDE DEF q, r
<1>4. q * 256 + r = p
  BY <1>1, <1>2
<1>5. s[i] = q /\ s[i + 1] = r
  BY <1>3
<1> QED
  BY <1>2, <1>3, <1>4, <1>5 DEF ReadPort, Base

(* EncodeAddressBinary and ReadAddress agree on every address. *)
THEOREM AddressRead == \A a \in Addresses : ReadAddress(EncodeAddress(a)) = a
<1> SUFFICES ASSUME NEW a \in Addresses PROVE ReadAddress(EncodeAddress(a)) = a
  OBVIOUS
<1> DEFINE b == a.bytes
           x == a.port \div Base
           y == a.port % Base
           head == IF a.kind = "ip4" THEN <<1>> ELSE IF a.kind = "ip6" THEN <<4>> ELSE <<3, Len(b)>>
           s == EncodeAddress(a)
           h == ReadHost(s)
           f == Len(head) + 1
           e == Len(head) + Len(b)
           r == SubSeq(s, f, e)
<1>1. /\ a = [kind |-> a.kind, bytes |-> b, port |-> a.port]
      /\ b \in Seq(Nat) /\ a.port \in 1..(Base * Base - 1)
      /\ \/ a.kind = "ip4" /\ Len(b) = 4
         \/ a.kind = "ip6" /\ Len(b) = 16
         \/ a.kind = "fqdn" /\ Len(b) < Base
  BY AddressesAssumption
<1>2. b \in Seq(Nat) /\ Len(b) \in Nat
  BY <1>1
<1>3. EncodePort(a.port) = <<x, y>> /\ x \in Nat /\ y \in Nat
  <2>1. EncodePort(a.port) = <<x, y>>
    BY DEF EncodePort
  <2>2. EncodePort(a.port) \in Nat \X Nat
    BY <1>1, PortBytes
  <2> QED
    BY <2>1, <2>2
<1>4. s = (head \o b) \o <<x, y>>
  BY <1>1 DEF EncodeAddress, EncodeHost, EncodePort
<1>5. /\ head \in Seq(Nat)
      /\ Len(head) = IF a.kind = "fqdn" THEN 2 ELSE 1
      /\ head[1] = IF a.kind = "ip4" THEN 1 ELSE IF a.kind = "ip6" THEN 4 ELSE 3
      /\ a.kind = "fqdn" => head[2] = Len(b)
  <2>1. head \in Seq(Nat)
    BY <1>1, <1>2
  <2>2. /\ Len(head) = IF a.kind = "fqdn" THEN 2 ELSE 1
        /\ head[1] = IF a.kind = "ip4" THEN 1 ELSE IF a.kind = "ip6" THEN 4 ELSE 3
        /\ a.kind = "fqdn" => head[2] = Len(b)
    BY <1>1, <1>2
  <2> QED
    BY <2>1, <2>2
<1> HIDE DEF b, x, y, head, s, f, e
<1>6. \A i \in 1..Len(head) + Len(b) + 2 :
         s[i] = IF i <= Len(head) THEN head[i]
                ELSE IF i <= Len(head) + Len(b) THEN b[i - Len(head)]
                ELSE IF i = Len(head) + Len(b) + 1 THEN x ELSE y
  <2>1. head \in Seq(Nat) /\ b \in Seq(Nat) /\ x \in Nat /\ y \in Nat
    BY <1>2, <1>3, <1>5
  <2>2. /\ Len(head) \in Nat /\ Len(b) \in Nat
          /\ <<x, y>> \in Seq(Nat) /\ Len(<<x, y>>) = 2 /\ <<x, y>>[1] = x /\ <<x, y>>[2] = y
    BY <2>1
  <2>3. /\ head \o b \in Seq(Nat) /\ Len(head \o b) = Len(head) + Len(b)
        /\ \A i \in 1..Len(head) + Len(b) : (head \o b)[i] = IF i <= Len(head) THEN head[i] ELSE b[i - Len(head)]
    BY <2>1, <2>2, ConcatProperties
  <2>4. \A i \in 1..Len(head) + Len(b) + 2 :
           s[i] = IF i <= Len(head) + Len(b) THEN (head \o b)[i] ELSE <<x, y>>[i - (Len(head) + Len(b))]
    BY <1>4, <2>2, <2>3, ConcatProperties
  <2> SUFFICES ASSUME NEW i \in 1..Len(head) + Len(b) + 2
               PROVE  s[i] = IF i <= Len(head) THEN head[i]
                             ELSE IF i <= Len(head) + Len(b) THEN b[i - Len(head)]
                             ELSE IF i = Len(head) + Len(b) + 1 THEN x ELSE y
    OBVIOUS
  <2>5. CASE i <= Len(head) + Len(b)
    BY <2>2, <2>3, <2>4, <2>5
  <2>6. CASE i > Len(head) + Len(b)
    <3> DEFINE m == Len(head) + Len(b)
    <3>4. m \in Nat /\ i \in 1..m + 2 /\ i > m
      BY <2>2, <2>6
    <3> HIDE DEF m
    <3>5. (i = m + 1 /\ i - m = 1) \/ (i = m + 2 /\ i - m = 2)
      BY <3>4
    <3>1. i - (Len(head) + Len(b)) = 1 \/ i - (Len(head) + Len(b)) = 2
      BY <3>5 DEF m
    <3>2. s[i] = <<x, y>>[i - (Len(head) + Len(b))]
      BY <2>2, <2>4, <2>6
    <3>3. i = Len(head) + Len(b) + 1 \/ i = Len(head) + Len(b) + 2
      BY <3>5 DEF m
    <3> QED
      BY <2>2, <3>1, <3>2, <3>3
  <2> QED
    BY <2>2, <2>5, <2>6
<1>7. Len(head) \in Nat /\ Len(b) \in Nat /\ f = Len(head) + 1 /\ e = Len(head) + Len(b)
  BY <1>2, <1>5 DEF f, e
<1>8. h.kind = a.kind /\ h.from = f /\ h.len = Len(b)
  <2>1. s[1] = head[1] /\ (a.kind = "fqdn" => s[2] = Len(b))
    BY <1>5, <1>6, <1>7
  <2>2. CASE a.kind = "ip4"
    <3>1. s[1] = 1 /\ f = 2 /\ Len(b) = 4
      BY <1>1, <1>5, <1>7, <2>1, <2>2 DEF b
    <3> QED
      BY <2>2, <3>1 DEF ReadHost
  <2>3. CASE a.kind = "ip6"
    <3>1. s[1] = 4 /\ f = 2 /\ Len(b) = 16
      BY <1>1, <1>5, <1>7, <2>1, <2>3 DEF b
    <3> QED
      BY <2>3, <3>1 DEF ReadHost
  <2>4. CASE a.kind = "fqdn"
    <3>1. s[1] = 3 /\ s[2] = Len(b) /\ f = 3
      BY <1>5, <1>7, <2>1, <2>4
    <3> QED
      BY <2>4, <3>1 DEF ReadHost
  <2>5. a.kind = "ip4" \/ a.kind = "ip6" \/ a.kind = "fqdn"
    BY <1>1
  <2> QED
    BY <2>2, <2>3, <2>4, <2>5
<1>9. ReadPort(s, e + 1) = a.port
  <2>1. s[e + 1] = x /\ s[e + 1 + 1] = y
    BY <1>6, <1>7
  <2> QED
    BY <1>1, <1>3, <2>1, PortRead
<1>10. r = b
  <2>1. f \in Int /\ e \in Int
    BY <1>7
  <2>2. \A i \in 1..Len(b) : s[f + i - 1] = b[i]
    BY <1>6, <1>7
  <2>3. \A j \in f..e : s[j] \in Nat
    <3> SUFFICES ASSUME NEW j \in f..e PROVE s[j] \in Nat
      OBVIOUS
    <3>1. j - Len(head) \in 1..Len(b) /\ j \in 1..Len(head) + Len(b) + 2
          /\ ~(j <= Len(head)) /\ j <= Len(head) + Len(b)
      BY <1>7
    <3>2. s[j] = b[j - Len(head)]
      BY <1>6, <3>1
    <3> QED
      BY <1>2, <3>1, <3>2
  <2>4. /\ r \in Seq(Nat)
        /\ Len(r) = IF f <= e THEN e - f + 1 ELSE 0
        /\ \A i \in 1..e - f + 1 : r[i] = s[f + i - 1]
    BY <2>1, <2>3, SubSeqProperties
  <2>5. Len(r) = Len(b) /\ e - f + 1 = Len(b)
    BY <1>7, <2>4
  <2> HIDE DEF r
  <2> QED
    BY <1>2, <2>2, <2>4, <2>5, SeqEqual
<1>11. h.from + h.len - 1 = e /\ h.from + h.len = e + 1
  BY <1>7, <1>8
<1>12. ReadAddress(s) = [kind |-> h.kind, bytes |-> SubSeq(s, h.from, h.from + h.len - 1),
                         port |-> ReadPort(s, h.from + h.len)]
  BY DEF ReadAddress
<1> HIDE DEF h
<1>13. ReadAddress(s) = [kind |-> a.kind, bytes |-> r, port |-> a.port]
  BY <1>8, <1>9, <1>11, <1>12, Zenon
<1> HIDE DEF r
<1> QED
  BY <1>1, <1>10, <1>13 DEF s, b

LEMMA DirectionFacts ==
    \A d \in Directions : From[d] \in Ends /\ To[d] \in Ends
BY DEF Directions, From, To, Ends

(* What a CopyN adds to the meter of its direction. *)
LEMMA CountFacts ==
  ASSUME NEW d \in Directions, NEW k \in Nat, MetersOK, Count(d, k)
  PROVE  /\ MetersOK'
         /\ \A e \in Metered : e # d => meter'[e] = meter[e]
         /\ d \in Metered =>
              /\ meter'[d].N = meter[d].N + k
              /\ meter'[d].prev = meter[d].prev /\ meter'[d].read = meter[d].read
              /\ meter'[d].sum = meter[d].sum /\ meter'[d].tot = meter[d].tot
<1>1. CASE d \notin Metered
  BY <1>1 DEF Count, MetersOK
<1>2. CASE d \in Metered
  <2>1. meter' = [meter EXCEPT ![d] = [meter[d] EXCEPT !.N = @ + k, !.t = 1]]
    BY <1>2 DEF Count, MetersOK, Meters
  <2>2. meter[d] \in Meters
    BY <1>2 DEF MetersOK
  <2>4. meter[d].N + k \in Nat
    BY <2>2 DEF Meters
  <2>3. [meter[d] EXCEPT !.N = @ + k, !.t = 1] \in Meters
    BY <2>2, <2>4 DEF Meters
  <2> QED
    BY <1>2, <2>1, <2>2, <2>3 DEF MetersOK, Meters
<1> QED
  BY <1>1, <1>2

LEMMA StopInd ==
  ASSUME IInv, Stop
  PROVE  IInv'
<1> USE ConstantFacts DEF IInv, TypeOK, Stop, AskVars, EndVars, CopyVars, LoopVars
<1>1. ControlOK'
  BY DEF ControlOK, Stages, Before, None
<1>2. EndsOK'
  BY DEF EndsOK, Ends
<1>3. BytesOK'
  BY DEF BytesOK
<1>4. ResultsOK'
  BY DEF ResultsOK, Results
<1>5. MetersOK'
  BY DEF BytesOK, MetersOK, Meters
<1>6. Stages'
  BY DEF ControlOK, EndsOK, BytesOK, ResultsOK, MetersOK, Stages, Before, Ends, Results,
     Directions, Zero, None
<1>7. Conserved'
  BY DEF ControlOK, EndsOK, BytesOK, ResultsOK, MetersOK, Conserved, Lossy
<1>8. Failures'
  BY DEF ControlOK, EndsOK, BytesOK, ResultsOK, MetersOK, Stages, Before, Failures,
     Exhausted, Lossy, From, Directions
<1>9. Chunks'
  BY DEF ControlOK, EndsOK, BytesOK, ResultsOK, MetersOK, Chunks
<1>10. Unreset'
  BY DEF ControlOK, EndsOK, BytesOK, ResultsOK, MetersOK, Stages, Before, Unreset, Chunks,
     Directions
<1>11. Counted'
  BY DEF ControlOK, EndsOK, BytesOK, ResultsOK, MetersOK, Counted, Chunks
<1> QED
  BY <1>1, <1>2, <1>3, <1>4, <1>5, <1>6, <1>7, <1>8, <1>9, <1>10, <1>11

LEMMA AcceptInd ==
  ASSUME IInv, Accept
  PROVE  IInv'
<1> USE ConstantFacts DEF IInv, TypeOK, Accept, ServeVars, AskVars, EndVars, CopyVars,
   LoopVars
<1>1. ControlOK'
  BY DEF ControlOK, Stages, Before, None
<1>2. EndsOK'
  BY DEF EndsOK, Ends
<1>3. BytesOK'
  BY DEF BytesOK
<1>4. ResultsOK'
  BY DEF ResultsOK, Results
<1>5. MetersOK'
  BY DEF BytesOK, MetersOK, Meters
<1>6. Stages'
  BY DEF ControlOK, EndsOK, BytesOK, ResultsOK, MetersOK, Stages, Before, Ends, Results,
     Directions, Zero, None
<1>7. Conserved'
  <2>1. (Lossy => Lossy') /\ UNCHANGED <<sent, got, unread>>
    BY DEF Lossy, None
  <2> QED
    BY <2>1 DEF Conserved
<1>8. Failures'
  BY DEF ControlOK, EndsOK, BytesOK, ResultsOK, MetersOK, Stages, Before, Failures,
     Exhausted, Lossy, From, Directions, None
<1>9. Chunks'
  BY DEF ControlOK, EndsOK, BytesOK, ResultsOK, MetersOK, Chunks
<1>10. Unreset'
  BY DEF ControlOK, EndsOK, BytesOK, ResultsOK, MetersOK, Stages, Before, Unreset, Chunks,
     None, Directions
<1>11. Counted'
  BY DEF ControlOK, EndsOK, BytesOK, ResultsOK, MetersOK, Counted, Chunks
<1> QED
  BY <1>1, <1>2, <1>3, <1>4, <1>5, <1>6, <1>7, <1>8, <1>9, <1>10, <1>11

LEMMA NegotiateInd ==
  ASSUME IInv, Negotiate
  PROVE  IInv'
<1> USE ConstantFacts DEF IInv, TypeOK, Negotiate, Return, ServeVars, EndVars, CopyVars,
   LoopVars
<1>1. ControlOK'
  BY DEF ControlOK, Stages, Before, None
<1>2. EndsOK'
  BY DEF EndsOK, Ends
<1>3. BytesOK'
  BY DEF BytesOK
<1>4. ResultsOK'
  BY DEF ResultsOK, Results
<1>5. MetersOK'
  BY DEF BytesOK, MetersOK, Meters
<1>6. Stages'
  BY DEF ControlOK, EndsOK, BytesOK, ResultsOK, MetersOK, Stages, Before, Ends, Results,
     Directions, Zero, None
<1>7. Conserved'
  BY DEF ControlOK, EndsOK, BytesOK, ResultsOK, MetersOK, Conserved, Lossy
<1>8. Failures'
  BY DEF ControlOK, EndsOK, BytesOK, ResultsOK, MetersOK, Stages, Before, Failures,
     Exhausted, Lossy, From, Directions
<1>9. Chunks'
  BY DEF ControlOK, EndsOK, BytesOK, ResultsOK, MetersOK, Chunks
<1>10. Unreset'
  BY DEF ControlOK, EndsOK, BytesOK, ResultsOK, MetersOK, Stages, Before, Unreset, Chunks,
     Directions
<1>11. Counted'
  BY DEF ControlOK, EndsOK, BytesOK, ResultsOK, MetersOK, Counted, Chunks
<1> QED
  BY <1>1, <1>2, <1>3, <1>4, <1>5, <1>6, <1>7, <1>8, <1>9, <1>10, <1>11

LEMMA ReadRequestInd ==
  ASSUME IInv, ReadRequest
  PROVE  IInv'
<1> USE ConstantFacts DEF IInv, TypeOK, ReadRequest, Return, ServeVars, EndVars, CopyVars,
   LoopVars
<1>1. ControlOK'
  BY DEF ControlOK, Stages, Before, None
<1>2. EndsOK'
  BY DEF EndsOK, Ends
<1>3. BytesOK'
  BY DEF BytesOK
<1>4. ResultsOK'
  BY DEF ResultsOK, Results
<1>5. MetersOK'
  BY DEF BytesOK, MetersOK, Meters
<1>6. Stages'
  BY DEF ControlOK, EndsOK, BytesOK, ResultsOK, MetersOK, Stages, Before, Ends, Results,
     Directions, Zero, None
<1>7. Conserved'
  BY DEF ControlOK, EndsOK, BytesOK, ResultsOK, MetersOK, Conserved, Lossy
<1>8. Failures'
  BY DEF ControlOK, EndsOK, BytesOK, ResultsOK, MetersOK, Stages, Before, Failures,
     Exhausted, Lossy, From, Directions
<1>9. Chunks'
  BY DEF ControlOK, EndsOK, BytesOK, ResultsOK, MetersOK, Chunks
<1>10. Unreset'
  BY DEF ControlOK, EndsOK, BytesOK, ResultsOK, MetersOK, Stages, Before, Unreset, Chunks,
     Directions
<1>11. Counted'
  BY DEF ControlOK, EndsOK, BytesOK, ResultsOK, MetersOK, Counted, Chunks
<1> QED
  BY <1>1, <1>2, <1>3, <1>4, <1>5, <1>6, <1>7, <1>8, <1>9, <1>10, <1>11

LEMMA ConnectInd ==
  ASSUME IInv, Connect
  PROVE  IInv'
<1> USE ConstantFacts DEF IInv, TypeOK, Connect, Return, ServeVars, EndVars, CopyVars,
   LoopVars
<1>1. ControlOK'
  BY DEF ControlOK, Stages, Before, None
<1>2. EndsOK'
  BY DEF EndsOK, Ends
<1>3. BytesOK'
  BY DEF BytesOK
<1>4. ResultsOK'
  BY DEF ResultsOK, Results
<1>5. MetersOK'
  BY DEF BytesOK, MetersOK, Meters
<1>6. Stages'
  BY DEF ControlOK, EndsOK, BytesOK, ResultsOK, MetersOK, Stages, Before, Ends, Results,
     Directions, Zero, None
<1>7. Conserved'
  BY DEF ControlOK, EndsOK, BytesOK, ResultsOK, MetersOK, Conserved, Lossy
<1>8. Failures'
  BY DEF ControlOK, EndsOK, BytesOK, ResultsOK, MetersOK, Stages, Before, Failures,
     Exhausted, Lossy, From, Directions
<1>9. Chunks'
  BY DEF ControlOK, EndsOK, BytesOK, ResultsOK, MetersOK, Chunks
<1>10. Unreset'
  BY DEF ControlOK, EndsOK, BytesOK, ResultsOK, MetersOK, Stages, Before, Unreset, Chunks,
     Directions
<1>11. Counted'
  BY DEF ControlOK, EndsOK, BytesOK, ResultsOK, MetersOK, Counted, Chunks
<1> QED
  BY <1>1, <1>2, <1>3, <1>4, <1>5, <1>6, <1>7, <1>8, <1>9, <1>10, <1>11

LEMMA BindOrAssociateInd ==
  ASSUME IInv, BindOrAssociate
  PROVE  IInv'
<1> USE ConstantFacts DEF IInv, TypeOK, BindOrAssociate, Return, ServeVars, EndVars,
   CopyVars, LoopVars
<1>1. ControlOK'
  BY DEF ControlOK, Stages, Before, None
<1>2. EndsOK'
  BY DEF EndsOK, Ends
<1>3. BytesOK'
  BY DEF BytesOK
<1>4. ResultsOK'
  BY DEF ResultsOK, Results
<1>5. MetersOK'
  BY DEF BytesOK, MetersOK, Meters
<1>6. Stages'
  BY DEF ControlOK, EndsOK, BytesOK, ResultsOK, MetersOK, Stages, Before, Ends, Results,
     Directions, Zero, None
<1>7. Conserved'
  BY DEF ControlOK, EndsOK, BytesOK, ResultsOK, MetersOK, Conserved, Lossy
<1>8. Failures'
  BY DEF ControlOK, EndsOK, BytesOK, ResultsOK, MetersOK, Stages, Before, Failures,
     Exhausted, Lossy, From, Directions
<1>9. Chunks'
  BY DEF ControlOK, EndsOK, BytesOK, ResultsOK, MetersOK, Chunks
<1>10. Unreset'
  BY DEF ControlOK, EndsOK, BytesOK, ResultsOK, MetersOK, Stages, Before, Unreset, Chunks,
     Directions
<1>11. Counted'
  BY DEF ControlOK, EndsOK, BytesOK, ResultsOK, MetersOK, Counted, Chunks
<1> QED
  BY <1>1, <1>2, <1>3, <1>4, <1>5, <1>6, <1>7, <1>8, <1>9, <1>10, <1>11

LEMMA ProxyStartInd ==
  ASSUME IInv, ProxyStart
  PROVE  IInv'
<1> USE ConstantFacts DEF IInv, TypeOK, ProxyStart, Arm, ServeVars, AskVars, EndVars
<1>1. ControlOK'
  BY DEF ControlOK, Stages, Before, None
<1>2. EndsOK'
  BY DEF EndsOK, Ends, Directions
<1>3. BytesOK'
  BY DEF BytesOK
<1>4. ResultsOK'
  BY DEF ResultsOK, Results
<1>5. MetersOK'
  BY DEF BytesOK, MetersOK, Meters
<1>6. Stages'
  BY DEF ControlOK, EndsOK, BytesOK, ResultsOK, MetersOK, Stages, Before, Ends, Results,
     Directions, Zero, None
<1>7. Conserved'
  BY DEF ControlOK, EndsOK, BytesOK, ResultsOK, MetersOK, Conserved, Lossy
<1>8. Failures'
  BY DEF ControlOK, EndsOK, BytesOK, ResultsOK, MetersOK, Stages, Before, Failures,
     Exhausted, Lossy, From, Directions
<1>9. Chunks'
  BY DEF ControlOK, EndsOK, BytesOK, ResultsOK, MetersOK, Chunks
<1>10. Unreset'
  BY DEF ControlOK, EndsOK, BytesOK, ResultsOK, MetersOK, Stages, Before, Unreset, Chunks,
     Zero, None, Directions, Results, CopyVars, LoopVars
<1>11. Counted'
  BY DEF ControlOK, EndsOK, BytesOK, ResultsOK, MetersOK, Counted, Chunks
<1> QED
  BY <1>1, <1>2, <1>3, <1>4, <1>5, <1>6, <1>7, <1>8, <1>9, <1>10, <1>11

LEMMA FarSendInd ==
  ASSUME NEW d \in Directions, IInv, FarSend(d)
  PROVE  IInv'
<1> USE ConstantFacts DEF IInv, TypeOK, Live, FarSend, ServeVars, AskVars, LoopVars
<1>1. ControlOK'
  BY DEF ControlOK, Stages, Before, None
<1>2. EndsOK'
  BY DEF EndsOK, Ends, From
<1>3. BytesOK'
  BY DEF BytesOK
<1>4. ResultsOK'
  BY DEF ResultsOK, Results
<1>5. MetersOK'
  BY DEF BytesOK, MetersOK, Meters
<1>6. Stages'
  BY DEF ControlOK, EndsOK, BytesOK, ResultsOK, MetersOK, Stages, Before, Ends, Results,
     Directions, From, Zero, None
<1>7. Conserved'
  <2>1. \A e \in Directions : /\ sent[e] \in Nat /\ got[e] \in Nat /\ unread[e] \in Nat
                              /\ sent'[e] = IF e = d THEN sent[e] + 1 ELSE sent[e]
                              /\ unread'[e] = IF e = d THEN unread[e] + 1 ELSE unread[e]
    BY DEF BytesOK
  <2>2. got' = got /\ (Lossy => Lossy')
    BY DEF Lossy
  <2> HIDE DEF FarSend
  <2> QED
    BY <2>1, <2>2 DEF Conserved
<1>8. Failures'
  <2>1. \A e \in Directions : Exhausted(e) => Exhausted(e)'
    <3>1. \A e \in Directions : From[e] \in ended => unread'[e] = unread[e]
      BY DEF BytesOK
    <3> QED
      BY <3>1 DEF Exhausted, Lossy
  <2>2. UNCHANGED <<c, copy, stage, cause>> /\ c \in Seq(Results)
    BY DEF ResultsOK
  <2>3. \A i \in 1..Len(c) : c[i][1] \in Directions
    BY <2>2 DEF Results
  <2>4. stage # "stop"
    BY DEF Live
  <2> HIDE DEF FarSend
  <2> QED
    BY <2>1, <2>2, <2>3, <2>4 DEF Failures
<1>9. Chunks'
  BY DEF ControlOK, EndsOK, BytesOK, ResultsOK, MetersOK, Chunks
<1>10. Unreset'
  BY DEF ControlOK, EndsOK, BytesOK, ResultsOK, MetersOK, Stages, Before, Unreset, Chunks,
     Directions
<1>11. Counted'
  BY DEF ControlOK, EndsOK, BytesOK, ResultsOK, MetersOK, Counted, Chunks
<1> QED
  BY <1>1, <1>2, <1>3, <1>4, <1>5, <1>6, <1>7, <1>8, <1>9, <1>10, <1>11

LEMMA FarEndInd ==
  ASSUME NEW d \in Directions, IInv, FarEnd(d)
  PROVE  IInv'
<1> USE ConstantFacts DEF IInv, TypeOK, Live, FarEnd
<1>1. ControlOK'
  BY DEF ControlOK, Stages, Before, None, ServeVars, AskVars, CopyVars, LoopVars
<1>2. EndsOK'
  BY DirectionFacts DEF EndsOK
<1>3. BytesOK'
  BY DEF BytesOK, ServeVars, AskVars, CopyVars, LoopVars
<1>4. ResultsOK'
  BY DEF ResultsOK, Results, ServeVars, AskVars, CopyVars, LoopVars
<1>5. MetersOK'
  BY DEF BytesOK, MetersOK, Meters, ServeVars, AskVars, CopyVars, LoopVars
<1>6. Stages'
  BY DEF ControlOK, EndsOK, BytesOK, ResultsOK, MetersOK, Stages, Before, Ends, Results,
     Directions, From, Zero, None, ServeVars, AskVars, CopyVars, LoopVars
<1>7. Conserved'
  BY DEF ControlOK, EndsOK, BytesOK, ResultsOK, MetersOK, Conserved, Lossy, ServeVars,
     AskVars,
     CopyVars, LoopVars
<1>8. Failures'
  BY DEF ControlOK, EndsOK, BytesOK, ResultsOK, MetersOK, Stages, Before, Failures,
     Exhausted, Lossy, From, Directions, ServeVars, AskVars, CopyVars, LoopVars
<1>9. Chunks'
  BY DEF ControlOK, EndsOK, BytesOK, ResultsOK, MetersOK, Chunks, ServeVars, AskVars,
     CopyVars, LoopVars
<1>10. Unreset'
  BY DEF ControlOK, EndsOK, BytesOK, ResultsOK, MetersOK, Stages, Before, Unreset, Chunks,
     Directions, ServeVars, AskVars, CopyVars, LoopVars
<1>11. Counted'
  BY DEF ControlOK, EndsOK, BytesOK, ResultsOK, MetersOK, Counted, Chunks, ServeVars,
     AskVars, CopyVars, LoopVars
<1> QED
  BY <1>1, <1>2, <1>3, <1>4, <1>5, <1>6, <1>7, <1>8, <1>9, <1>10, <1>11

LEMMA FarBreaksInd ==
  ASSUME NEW d \in Directions, IInv, FarBreaks(d)
  PROVE  IInv'
<1> USE ConstantFacts DEF IInv, TypeOK, Live, FarBreaks
<1>1. ControlOK'
  BY DEF ControlOK, Stages, Before, None, ServeVars, AskVars, CopyVars, LoopVars
<1>2. EndsOK'
  BY DirectionFacts DEF EndsOK
<1>3. BytesOK'
  BY DEF BytesOK, ServeVars, AskVars, CopyVars, LoopVars
<1>4. ResultsOK'
  BY DEF ResultsOK, Results, ServeVars, AskVars, CopyVars, LoopVars
<1>5. MetersOK'
  BY DEF BytesOK, MetersOK, Meters, ServeVars, AskVars, CopyVars, LoopVars
<1>6. Stages'
  BY DEF ControlOK, EndsOK, BytesOK, ResultsOK, MetersOK, Stages, Before, Ends, Results,
     Directions, From, Zero, None, ServeVars, AskVars, CopyVars, LoopVars
<1>7. Conserved'
  BY DEF ControlOK, EndsOK, BytesOK, ResultsOK, MetersOK, Conserved, Lossy, ServeVars,
     AskVars,
     CopyVars, LoopVars
<1>8. Failures'
  BY DEF ControlOK, EndsOK, BytesOK, ResultsOK, MetersOK, Stages, Before, Failures,
     Exhausted, Lossy, From, Directions, ServeVars, AskVars, CopyVars, LoopVars
<1>9. Chunks'
  BY DEF ControlOK, EndsOK, BytesOK, ResultsOK, MetersOK, Chunks, ServeVars, AskVars,
     CopyVars, LoopVars
<1>10. Unreset'
  BY DEF ControlOK, EndsOK, BytesOK, ResultsOK, MetersOK, Stages, Before, Unreset, Chunks,
     Directions, ServeVars, AskVars, CopyVars, LoopVars
<1>11. Counted'
  BY DEF ControlOK, EndsOK, BytesOK, ResultsOK, MetersOK, Counted, Chunks, ServeVars,
     AskVars, CopyVars, LoopVars
<1> QED
  BY <1>1, <1>2, <1>3, <1>4, <1>5, <1>6, <1>7, <1>8, <1>9, <1>10, <1>11

LEMMA CopyByteInd ==
  ASSUME NEW d \in Directions, IInv, CopyByte(d)
  PROVE  IInv'
<1> USE ConstantFacts DEF IInv, TypeOK, CopyByte, ServeVars, AskVars, EndVars
<1>1. ControlOK'
  BY DEF ControlOK, Stages, Before, None, Count
<1>2. EndsOK'
  BY DEF EndsOK, Ends, Count
<1>3. BytesOK'
  BY DEF BytesOK, Count
<1>4. ResultsOK'
  BY DEF ResultsOK, Results, Count
<1>5. MetersOK'
  <2>1. CASE n[d] + 1 = Chunk
    BY <2>1, CountFacts
  <2>2. CASE n[d] + 1 # Chunk
    BY <2>2 DEF MetersOK
  <2> QED
    BY <2>1, <2>2
<1>6. Stages'
  BY DEF ControlOK, EndsOK, BytesOK, ResultsOK, MetersOK, Stages, Before, Ends, Results,
     Directions, Zero, None, Count
<1>7. Conserved'
  <2>1. \A e \in Directions : /\ sent[e] \in Nat /\ got[e] \in Nat /\ unread[e] \in Nat
                              /\ got'[e] = IF e = d THEN got[e] + 1 ELSE got[e]
                              /\ unread'[e] = IF e = d THEN unread[e] - 1 ELSE unread[e]
    BY DEF BytesOK
  <2>2. sent' = sent /\ (Lossy => Lossy')
    BY DEF Lossy
  <2> HIDE DEF CopyByte
  <2> QED
    BY <2>1, <2>2 DEF Conserved
<1>8. Failures'
  <2>1. \A e \in Directions : /\ e # d => copy'[e] = copy[e] /\ unread'[e] = unread[e]
                              /\ copy'[d] # "failed" /\ unread[d] > 0
    BY DEF BytesOK, ResultsOK
  <2>2. \A e \in Directions : Exhausted(e) => Exhausted(e)'
    BY <2>1 DEF Exhausted, Lossy, Ends
  <2>3. c' = c /\ c \in Seq(Results) /\ stage' = stage /\ cause' = cause
    BY DEF ResultsOK
  <2> QED
    BY <2>1, <2>2, <2>3 DEF Failures, Results, Stages
<1>9. Chunks'
  <2>1. CASE n[d] + 1 = Chunk
    BY <2>1 DEF BytesOK, ResultsOK, Chunks
  <2>2. CASE n[d] + 1 # Chunk
    <3>1. n[d] + 1 < Chunk
      BY <2>2 DEF Chunks, BytesOK
    <3> QED
      BY <2>2, <3>1 DEF BytesOK, ResultsOK, Chunks
  <2> QED
    BY <2>1, <2>2
<1>10. Unreset'
  <2>1. CASE n[d] + 1 = Chunk
    BY <2>1 DEF BytesOK, ResultsOK, Unreset
  <2>2. CASE n[d] + 1 # Chunk
    <3>1. UNCHANGED <<c, copy, stage>>
      BY <2>2
    <3>2. \A e \in Directions : /\ fresh[e] \in Nat /\ n[e] \in Nat
                                /\ n'[e] = IF e = d THEN n[e] + 1 ELSE n[e]
      BY <2>2 DEF BytesOK
    <3>3. stage = "proxy" => \A e \in Directions :
                               fresh'[e] = IF e = d THEN fresh[e] + 1 ELSE fresh[e]
      BY DEF BytesOK
    <3> HIDE DEF CopyByte
    <3> QED
      BY <3>1, <3>2, <3>3 DEF Unreset
  <2> QED
    BY <2>1, <2>2
<1>11. Counted'
  <2>1. \A e \in Directions : got'[e] = IF e = d THEN got[e] + 1 ELSE got[e]
    BY DEF BytesOK
  <2>2. \A e \in Metered : meter[e] \in Meters /\ got[e] \in Nat /\ n[e] \in Nat
    BY DEF MetersOK, BytesOK
  <2>3. CASE n[d] + 1 = Chunk
    <3>1. Count(d, Chunk) /\ \A e \in Directions : n'[e] = IF e = d THEN 0 ELSE n[e]
      BY <2>3 DEF BytesOK
    <3>2. SUFFICES ASSUME NEW e \in Metered PROVE Counted!(e)'
      BY DEF Counted
    <3>3. CASE e = d
      BY <2>1, <2>2, <2>3, <3>1, <3>3, CountFacts DEF Counted, Meters
    <3>4. CASE e # d
      BY <2>1, <2>2, <3>1, <3>4, CountFacts DEF Counted
    <3> QED
      BY <3>3, <3>4
  <2>4. CASE n[d] + 1 # Chunk
    BY <2>1, <2>2, <2>4 DEF Counted, BytesOK, Meters
  <2> QED
    BY <2>3, <2>4
<1> QED
  BY <1>1, <1>2, <1>3, <1>4, <1>5, <1>6, <1>7, <1>8, <1>9, <1>10, <1>11

LEMMA ReadFailsInd ==
  ASSUME NEW d \in Directions, IInv, ReadFails(d)
  PROVE  IInv'
<1> USE ConstantFacts DEF IInv, TypeOK, ReadFails, CopyEnds, AtEnd, ServeVars, AskVars,
   EndVars,
   LoopVars
<1>1. ControlOK'
  BY DEF ControlOK, Stages, Before, None, Count
<1>2. EndsOK'
  BY DEF EndsOK, Ends, From, Count
<1>3. BytesOK'
  BY DEF BytesOK, Count
<1>4. ResultsOK'
  BY DEF ResultsOK, Results, Count
<1>5. MetersOK'
  <2>1. Count(d, n[d]) /\ n[d] \in Nat
    BY DEF BytesOK
  <2> QED
    BY <2>1, CountFacts
<1>6. Stages'
  BY DEF ControlOK, EndsOK, BytesOK, ResultsOK, MetersOK, Stages, Before, Ends, Results,
     Directions, From, To, Zero, None, Count
<1>7. Conserved'
  BY DEF ControlOK, EndsOK, BytesOK, ResultsOK, MetersOK, Conserved, Lossy, Count
<1>8. Failures'
  BY DEF ControlOK, EndsOK, BytesOK, ResultsOK, MetersOK, Stages, Before, Failures,
     Exhausted, Lossy, Results, Ends, From, To, Directions, None, Count, CopyVars
<1>9. Chunks'
  BY DEF ControlOK, EndsOK, BytesOK, ResultsOK, MetersOK, Chunks, Count
<1>10. Unreset'
  BY DEF ControlOK, EndsOK, BytesOK, ResultsOK, MetersOK, Stages, Before, Unreset, Chunks,
     Directions, Count
<1>11. Counted'
  <2>1. Count(d, n[d]) /\ n[d] \in Nat
    BY DEF BytesOK
  <2>2. \A e \in Directions : n'[e] = (IF e = d THEN 0 ELSE n[e]) /\ got'[e] = got[e]
    BY DEF BytesOK
  <2>3. SUFFICES ASSUME NEW e \in Metered PROVE Counted!(e)'
    BY DEF Counted
  <2>4. meter[e] \in Meters /\ got[e] \in Nat
    BY DEF MetersOK, BytesOK
  <2>5. CASE e = d
    BY <2>1, <2>2, <2>4, <2>5, CountFacts DEF Counted, Meters
  <2>6. CASE e # d
    BY <2>1, <2>2, <2>4, <2>6, CountFacts DEF Counted
  <2> QED
    BY <2>5, <2>6
<1> QED
  BY <1>1, <1>2, <1>3, <1>4, <1>5, <1>6, <1>7, <1>8, <1>9, <1>10, <1>11

LEMMA WriteFailsInd ==
  ASSUME NEW d \in Directions, IInv, WriteFails(d)
  PROVE  IInv'
<1> USE ConstantFacts DEF IInv, TypeOK, WriteFails, CopyEnds, ServeVars, AskVars, EndVars,
   LoopVars
<1>1. ControlOK'
  BY DEF ControlOK, Stages, Before, None, Count
<1>2. EndsOK'
  BY DEF EndsOK, Ends, From, Count
<1>3. BytesOK'
  BY DEF BytesOK, Count
<1>4. ResultsOK'
  BY DEF ResultsOK, Results, Count
<1>5. MetersOK'
  <2>1. Count(d, n[d]) /\ n[d] \in Nat
    BY DEF BytesOK
  <2> QED
    BY <2>1, CountFacts
<1>6. Stages'
  BY DEF ControlOK, EndsOK, BytesOK, ResultsOK, MetersOK, Stages, Before, Ends, Results,
     Directions, From, To, Zero, None, Count
<1>7. Conserved'
  <2>1. To[d] \in open \/ Lossy
    BY DirectionFacts DEF Stages, Before, ControlOK, Lossy, None
  <2>2. Lossy'
    BY <2>1 DEF Lossy
  <2> QED
    BY <2>2 DEF Conserved
<1>8. Failures'
  <2>1. Lossy'
    <3>1. To[d] \in open \/ Lossy
      BY DirectionFacts DEF Stages, Before, ControlOK, Lossy, None
    <3> QED
      BY <3>1 DEF Lossy
  <2> HIDE DEF WriteFails
  <2> QED
    BY <2>1 DEF Failures, Exhausted
<1>9. Chunks'
  BY DEF ControlOK, EndsOK, BytesOK, ResultsOK, MetersOK, Chunks, Count
<1>10. Unreset'
  BY DEF ControlOK, EndsOK, BytesOK, ResultsOK, MetersOK, Stages, Before, Unreset, Chunks,
     Directions, Count
<1>11. Counted'
  <2>1. Count(d, n[d]) /\ n[d] \in Nat
    BY DEF BytesOK
  <2>2. \A e \in Directions : n'[e] = (IF e = d THEN 0 ELSE n[e]) /\ got'[e] = got[e]
    BY DEF BytesOK
  <2>3. SUFFICES ASSUME NEW e \in Metered PROVE Counted!(e)'
    BY DEF Counted
  <2>4. meter[e] \in Meters /\ got[e] \in Nat
    BY DEF MetersOK, BytesOK
  <2>5. CASE e = d
    BY <2>1, <2>2, <2>4, <2>5, CountFacts DEF Counted, Meters
  <2>6. CASE e # d
    BY <2>1, <2>2, <2>4, <2>6, CountFacts DEF Counted
  <2> QED
    BY <2>5, <2>6
<1> QED
  BY <1>1, <1>2, <1>3, <1>4, <1>5, <1>6, <1>7, <1>8, <1>9, <1>10, <1>11

LEMMA ReportInd ==
  ASSUME NEW d \in Directions, IInv, Report(d)
  PROVE  IInv'
<1> USE ConstantFacts DEF IInv, TypeOK, Report, ServeVars, AskVars, EndVars, LoopVars
<1>1. ControlOK'
  BY DEF ControlOK, Stages, Before, None
<1>2. EndsOK'
  BY DEF EndsOK, Ends
<1>3. BytesOK'
  BY DEF BytesOK
<1>4. ResultsOK'
  BY DEF ResultsOK, Results
<1>5. MetersOK'
  BY DEF BytesOK, MetersOK, Meters
<1>6. Stages'
  BY DEF ControlOK, EndsOK, BytesOK, ResultsOK, MetersOK, Stages, Before, Ends, Results,
     Directions, Zero, None
<1>7. Conserved'
  BY DEF ControlOK, EndsOK, BytesOK, ResultsOK, MetersOK, Conserved, Lossy
<1>8. Failures'
  <2>1. \A e \in Directions : Exhausted(e)' <=> Exhausted(e)
    BY DEF Exhausted, Lossy
  <2>2. c \in Seq(Results) /\ <<d, copy[d]>> \in Results
    BY DEF ResultsOK, Results
  <2>3. /\ Len(c') = Len(c) + 1 /\ c'[Len(c) + 1] = <<d, copy[d]>>
        /\ \A i \in 1..Len(c) : c'[i] = c[i] /\ c[i][1] \in Directions
    BY <2>2 DEF Results
  <2>4. \A e \in Directions : copy'[e] = "failed" => copy[e] = "failed"
    BY DEF ResultsOK
  <2>5. stage' = stage /\ cause' = cause /\ Len(c) \in Nat
    BY <2>2
  <2>6. stage = "stop" => cause[1] \in Directions
    BY DEF Stages, Results
  <2> HIDE DEF Report
  <2>7. (\A i \in 1..Len(c) : c[i][2] = "failed" => Exhausted(c[i][1]))'
    <3> SUFFICES ASSUME NEW i \in (1..Len(c))', c'[i][2] = "failed" PROVE Exhausted(c[i][1])'
      OBVIOUS
    <3>1. CASE i \in 1..Len(c)
      BY <2>1, <2>3, <3>1 DEF Failures
    <3>2. CASE i = Len(c) + 1
      <4>1. c'[i][1] = d /\ copy[d] = "failed"
        BY <2>3, <3>2
      <4> QED
        BY <2>1, <4>1 DEF Failures
    <3> QED
      BY <2>3, <2>5, <3>1, <3>2
  <2> QED
    BY <2>1, <2>4, <2>5, <2>6, <2>7 DEF Failures
<1>9. Chunks'
  BY DEF ControlOK, EndsOK, BytesOK, ResultsOK, MetersOK, Chunks
<1>10. Unreset'
  BY DEF ControlOK, EndsOK, BytesOK, ResultsOK, MetersOK, Stages, Before, Unreset, Chunks,
     Directions
<1>11. Counted'
  BY DEF ControlOK, EndsOK, BytesOK, ResultsOK, MetersOK, Counted, Chunks
<1> QED
  BY <1>1, <1>2, <1>3, <1>4, <1>5, <1>6, <1>7, <1>8, <1>9, <1>10, <1>11

LEMMA ReceiveInd ==
  ASSUME IInv, Receive
  PROVE  IInv'
<1> USE ConstantFacts DEF IInv, TypeOK, Receive, Reset, ServeVars, AskVars, EndVars,
   CopyVars
<1>1. ControlOK'
  BY DEF ControlOK, Stages, Before, None
<1>2. EndsOK'
  BY DEF EndsOK, Ends, Directions
<1>3. BytesOK'
  <2>1. Zero \in [Directions -> Nat]
    BY DEF Zero
  <2>2. fresh' \in {fresh, Zero}
    OBVIOUS
  <2> QED
    BY <2>1, <2>2 DEF BytesOK
<1>4. ResultsOK'
  BY DEF ResultsOK, Results
<1>5. MetersOK'
  BY DEF BytesOK, MetersOK, Meters
<1>6. Stages'
  <2>1. UNCHANGED <<reply, open, cut, events>> /\ stage = "proxy" /\ c # <<>>
    OBVIOUS
  <2>2. reply = "success" /\ events = <<"TunnelAdded">> /\ open = IF cut THEN {} ELSE Ends
    BY <2>1 DEF Stages
  <2>3. CASE Head(c)[2] = "failed"
    <3>1. Head(c) \in Results
      BY <2>1 DEF ResultsOK
    <3>2. stage' = "stop" /\ cause' = Head(c)
      BY <2>3
    <3> HIDE DEF IInv, TypeOK, Receive
    <3>3. cause' \in Results /\ cause'[2] = "failed"
      BY <2>3, <3>1, <3>2
    <3> QED
      BY <2>1, <2>2, <3>2, <3>3 DEF Stages, None
  <2>4. CASE Head(c)[2] # "failed"
    <3>1. stage' = "proxy"
      BY <2>1, <2>4
    <3> HIDE DEF IInv, TypeOK, Receive
    <3> QED
      BY <2>1, <2>2, <3>1 DEF Stages, None
  <2> QED
    BY <2>3, <2>4
<1>7. Conserved'
  BY DEF ControlOK, EndsOK, BytesOK, ResultsOK, MetersOK, Conserved, Lossy
<1>8. Failures'
  <2>1. \A e \in Directions : Exhausted(e) => Exhausted(e)'
    BY DEF Exhausted, Lossy
  <2>2. c \in Seq(Results) /\ c # <<>> /\ c' = Tail(c) /\ copy' = copy /\ stage = "proxy"
    BY DEF ResultsOK
  <2>3. /\ Len(c') = Len(c) - 1 /\ Len(c) \in Nat /\ Head(c) = c[1] /\ 1 \in 1..Len(c)
        /\ \A i \in 1..Len(c') : c'[i] = c[i + 1] /\ i + 1 \in 1..Len(c)
        /\ \A i \in 1..Len(c) : c[i][1] \in Directions
    BY <2>2 DEF Results
  <2>4. stage' = "stop" => cause' = c[1] /\ c[1][2] = "failed"
    BY <2>2, <2>3
  <2> HIDE DEF Receive
  <2> QED
    BY <2>1, <2>2, <2>3, <2>4 DEF Failures
<1>9. Chunks'
  BY DEF ControlOK, EndsOK, BytesOK, ResultsOK, MetersOK, Chunks
<1>10. Unreset'
  BY DEF ControlOK, EndsOK, BytesOK, ResultsOK, MetersOK, Stages, Before, Unreset, Chunks,
     Zero, Directions
<1>11. Counted'
  BY DEF ControlOK, EndsOK, BytesOK, ResultsOK, MetersOK, Counted, Chunks
<1> QED
  BY <1>1, <1>2, <1>3, <1>4, <1>5, <1>6, <1>7, <1>8, <1>9, <1>10, <1>11

LEMMA TimerFiresInd ==
  ASSUME IInv, TimerFires
  PROVE  IInv'
<1> USE ConstantFacts DEF IInv, TypeOK, TimerFires, ServeVars, AskVars, EndVars, CopyVars
<1>1. ControlOK'
  BY DEF ControlOK, Stages, Before, None
<1>2. EndsOK'
  BY DEF EndsOK, Ends
<1>3. BytesOK'
  BY DEF BytesOK
<1>4. ResultsOK'
  BY DEF ResultsOK, Results
<1>5. MetersOK'
  BY DEF BytesOK, MetersOK, Meters
<1>6. Stages'
  BY DEF ControlOK, EndsOK, BytesOK, ResultsOK, MetersOK, Stages, Before, Ends, Results,
     Directions, Zero, None
<1>7. Conserved'
  BY DEF ControlOK, EndsOK, BytesOK, ResultsOK, MetersOK, Conserved, Lossy
<1>8. Failures'
  BY DEF ControlOK, EndsOK, BytesOK, ResultsOK, MetersOK, Stages, Before, Failures,
     Exhausted, Lossy, From, Directions
<1>9. Chunks'
  BY DEF ControlOK, EndsOK, BytesOK, ResultsOK, MetersOK, Chunks
<1>10. Unreset'
  BY DEF ControlOK, EndsOK, BytesOK, ResultsOK, MetersOK, Stages, Before, Unreset, Chunks,
     Directions
<1>11. Counted'
  BY DEF ControlOK, EndsOK, BytesOK, ResultsOK, MetersOK, Counted, Chunks
<1> QED
  BY <1>1, <1>2, <1>3, <1>4, <1>5, <1>6, <1>7, <1>8, <1>9, <1>10, <1>11

LEMMA ProxyStopInd ==
  ASSUME IInv, ProxyStop
  PROVE  IInv'
<1> USE ConstantFacts DEF IInv, TypeOK, ProxyStop, Return, ServeVars, AskVars, EndVars,
   CopyVars
<1>1. ControlOK'
  <2>1. events = <<"TunnelAdded">>
    BY DEF Stages
  <2>2. events' = <<"TunnelAdded", "TunnelRemoved">>
    BY <2>1, EventFacts
  <2> QED
    BY <2>2 DEF ControlOK
<1>2. EndsOK'
  BY DEF EndsOK, Ends
<1>3. BytesOK'
  BY DEF BytesOK
<1>4. ResultsOK'
  BY DEF ResultsOK, Results
<1>5. MetersOK'
  BY DEF BytesOK, MetersOK, Meters
<1>6. Stages'
  <2>1. events = <<"TunnelAdded">> /\ reply = "success"
    BY DEF Stages
  <2>2. events' = <<"TunnelAdded", "TunnelRemoved">>
    BY <2>1, EventFacts
  <2> QED
    BY <2>1, <2>2 DEF Stages, None
<1>7. Conserved'
  BY DEF ControlOK, EndsOK, BytesOK, ResultsOK, MetersOK, Conserved, Lossy
<1>8. Failures'
  BY DEF ControlOK, EndsOK, BytesOK, ResultsOK, MetersOK, Stages, Before, Failures,
     Exhausted, Lossy, From, Directions
<1>9. Chunks'
  BY DEF ControlOK, EndsOK, BytesOK, ResultsOK, MetersOK, Chunks
<1>10. Unreset'
  BY DEF ControlOK, EndsOK, BytesOK, ResultsOK, MetersOK, Stages, Before, Unreset, Chunks,
     Directions
<1>11. Counted'
  BY DEF ControlOK, EndsOK, BytesOK, ResultsOK, MetersOK, Counted, Chunks
<1> QED
  BY <1>1, <1>2, <1>3, <1>4, <1>5, <1>6, <1>7, <1>8, <1>9, <1>10, <1>11

LEMMA CloseDstInd ==
  ASSUME IInv, CloseDst
  PROVE  IInv'
<1> USE ConstantFacts DEF IInv, TypeOK, CloseDst, ServeVars, AskVars, EndVars, CopyVars,
   LoopVars
<1>1. ControlOK'
  BY DEF ControlOK, Stages, Before, None
<1>2. EndsOK'
  BY DEF EndsOK, Ends
<1>3. BytesOK'
  BY DEF BytesOK
<1>4. ResultsOK'
  BY DEF ResultsOK, Results
<1>5. MetersOK'
  BY DEF BytesOK, MetersOK, Meters
<1>6. Stages'
  BY DEF ControlOK, EndsOK, BytesOK, ResultsOK, MetersOK, Stages, Before, Ends, Results,
     Directions, Zero, None
<1>7. Conserved'
  BY DEF ControlOK, EndsOK, BytesOK, ResultsOK, MetersOK, Conserved, Lossy
<1>8. Failures'
  BY DEF ControlOK, EndsOK, BytesOK, ResultsOK, MetersOK, Stages, Before, Failures,
     Exhausted, Lossy, From, Directions
<1>9. Chunks'
  BY DEF ControlOK, EndsOK, BytesOK, ResultsOK, MetersOK, Chunks
<1>10. Unreset'
  BY DEF ControlOK, EndsOK, BytesOK, ResultsOK, MetersOK, Stages, Before, Unreset, Chunks,
     Directions
<1>11. Counted'
  BY DEF ControlOK, EndsOK, BytesOK, ResultsOK, MetersOK, Counted, Chunks
<1> QED
  BY <1>1, <1>2, <1>3, <1>4, <1>5, <1>6, <1>7, <1>8, <1>9, <1>10, <1>11

LEMMA CloseSrcInd ==
  ASSUME IInv, CloseSrc
  PROVE  IInv'
<1> USE ConstantFacts DEF IInv, TypeOK, CloseSrc, ServeVars, AskVars, EndVars, CopyVars,
   LoopVars
<1>1. ControlOK'
  BY DEF ControlOK, Stages, Before, None
<1>2. EndsOK'
  BY DEF EndsOK, Ends
<1>3. BytesOK'
  BY DEF BytesOK
<1>4. ResultsOK'
  BY DEF ResultsOK, Results
<1>5. MetersOK'
  BY DEF BytesOK, MetersOK, Meters
<1>6. Stages'
  BY DEF ControlOK, EndsOK, BytesOK, ResultsOK, MetersOK, Stages, Before, Ends, Results,
     Directions, Zero, None
<1>7. Conserved'
  BY DEF ControlOK, EndsOK, BytesOK, ResultsOK, MetersOK, Conserved, Lossy
<1>8. Failures'
  BY DEF ControlOK, EndsOK, BytesOK, ResultsOK, MetersOK, Stages, Before, Failures,
     Exhausted, Lossy, From, Directions
<1>9. Chunks'
  BY DEF ControlOK, EndsOK, BytesOK, ResultsOK, MetersOK, Chunks
<1>10. Unreset'
  BY DEF ControlOK, EndsOK, BytesOK, ResultsOK, MetersOK, Stages, Before, Unreset, Chunks,
     Directions
<1>11. Counted'
  BY DEF ControlOK, EndsOK, BytesOK, ResultsOK, MetersOK, Counted, Chunks
<1> QED
  BY <1>1, <1>2, <1>3, <1>4, <1>5, <1>6, <1>7, <1>8, <1>9, <1>10, <1>11

LEMMA TickReadInd ==
  ASSUME NEW d \in Metered, IInv, TickRead(d)
  PROVE  IInv'
<1> USE ConstantFacts DEF IInv, TypeOK, TickRead, ServeVars, AskVars, EndVars, CopyVars,
   LoopVars
<1>1. ControlOK'
  BY DEF ControlOK, Stages, Before, None
<1>2. EndsOK'
  BY DEF EndsOK, Ends
<1>3. BytesOK'
  BY DEF BytesOK
<1>4. ResultsOK'
  BY DEF ResultsOK, Results
<1>5. MetersOK'
  BY DEF BytesOK, MetersOK, Meters
<1>6. Stages'
  BY DEF ControlOK, EndsOK, BytesOK, ResultsOK, MetersOK, Stages, Before, Ends, Results,
     Directions, Zero, None
<1>7. Conserved'
  BY DEF ControlOK, EndsOK, BytesOK, ResultsOK, MetersOK, Conserved, Lossy
<1>8. Failures'
  BY DEF ControlOK, EndsOK, BytesOK, ResultsOK, MetersOK, Stages, Before, Failures,
     Exhausted, Lossy, From, Directions
<1>9. Chunks'
  BY DEF ControlOK, EndsOK, BytesOK, ResultsOK, MetersOK, Chunks
<1>10. Unreset'
  BY DEF ControlOK, EndsOK, BytesOK, ResultsOK, MetersOK, Stages, Before, Unreset, Chunks,
     Directions
<1>11. Counted'
  <2>1. \A e \in Metered : meter[e] \in Meters /\ got[e] \in Nat /\ n[e] \in Nat
    BY DEF MetersOK, BytesOK
  <2>2. meter' = [meter EXCEPT ![d] = [meter[d] EXCEPT !.read = meter[d].N]]
    BY <2>1 DEF MetersOK
  <2>3. \A e \in Metered : /\ e # d => meter'[e] = meter[e]
                           /\ meter'[d] = [meter[d] EXCEPT !.read = meter[d].N]
    BY <2>2 DEF MetersOK
  <2>4. got' = got /\ n' = n
    OBVIOUS
  <2> QED
    BY <2>1, <2>3, <2>4 DEF Counted, Meters
<1> QED
  BY <1>1, <1>2, <1>3, <1>4, <1>5, <1>6, <1>7, <1>8, <1>9, <1>10, <1>11

LEMMA TickPublishInd ==
  ASSUME NEW d \in Metered, IInv, TickPublish(d)
  PROVE  IInv'
<1> USE ConstantFacts DEF IInv, TypeOK, TickPublish, ServeVars, AskVars, EndVars, CopyVars,
   LoopVars
<1>1. ControlOK'
  BY DEF ControlOK, Stages, Before, None
<1>2. EndsOK'
  BY DEF EndsOK, Ends
<1>3. BytesOK'
  BY DEF BytesOK
<1>4. ResultsOK'
  BY DEF ResultsOK, Results
<1>5. MetersOK'
  <2>1. meter[d] \in Meters /\ meter[d].read # -1 /\ meter[d].sum = meter[d].prev
    BY DEF MetersOK, Counted
  <2>3. meter[d].read \in Nat /\ meter[d].sum + meter[d].read - meter[d].prev = meter[d].read
    BY <2>1 DEF Meters
  <2>2. [meter[d] EXCEPT !.prev = meter[d].read, !.sum = @ + meter[d].read - meter[d].prev,
                         !.tot = meter[d].N, !.read = -1] \in Meters
    BY <2>1, <2>3 DEF Meters
  <2> QED
    BY <2>2 DEF MetersOK
<1>6. Stages'
  BY DEF ControlOK, EndsOK, BytesOK, ResultsOK, MetersOK, Stages, Before, Ends, Results,
     Directions, Zero, None
<1>7. Conserved'
  BY DEF ControlOK, EndsOK, BytesOK, ResultsOK, MetersOK, Conserved, Lossy
<1>8. Failures'
  BY DEF ControlOK, EndsOK, BytesOK, ResultsOK, MetersOK, Stages, Before, Failures,
     Exhausted, Lossy, From, Directions
<1>9. Chunks'
  BY DEF ControlOK, EndsOK, BytesOK, ResultsOK, MetersOK, Chunks
<1>10. Unreset'
  BY DEF ControlOK, EndsOK, BytesOK, ResultsOK, MetersOK, Stages, Before, Unreset, Chunks,
     Directions
<1>11. Counted'
  <2>1. \A e \in Metered : meter[e] \in Meters /\ got[e] \in Nat /\ n[e] \in Nat
    BY DEF MetersOK, BytesOK
  <2>2. \A e \in Metered :
           /\ e # d => meter'[e] = meter[e]
           /\ meter'[d] = [meter[d] EXCEPT !.prev = meter[d].read, !.tot = meter[d].N, !.read = -1,
                                           !.sum = meter[d].sum + meter[d].read - meter[d].prev]
    BY <2>1 DEF MetersOK, Meters
  <2>3. got' = got /\ n' = n /\ meter[d].read # -1
    OBVIOUS
  <2>4. meter[d].sum + meter[d].read - meter[d].prev = meter[d].read
    BY <2>1, <2>3 DEF Counted, Meters
  <2>5. SUFFICES ASSUME NEW e \in Metered PROVE Counted!(e)'
    BY DEF Counted
  <2>6. CASE e = d
    <3> HIDE DEF TickPublish, TypeOK, ServeVars
    <3>1. /\ meter'[e].prev = meter[d].read /\ meter'[e].tot = meter[d].N /\ meter'[e].read = -1
          /\ meter'[e].sum = meter[d].read /\ meter'[e].N = meter[d].N
      BY <2>1, <2>2, <2>4, <2>6 DEF Meters
    <3> QED
      BY <2>1, <2>3, <2>6, <3>1 DEF Counted, Meters
  <2>7. CASE e # d
    BY <2>1, <2>2, <2>3, <2>7 DEF Counted, Meters
  <2> QED
    BY <2>6, <2>7
<1> QED
  BY <1>1, <1>2, <1>3, <1>4, <1>5, <1>6, <1>7, <1>8, <1>9, <1>10, <1>11

LEMMA StepInd == IInv /\ [Next]_vars => IInv'
<1> SUFFICES ASSUME IInv, [Next]_vars PROVE IInv'
  OBVIOUS
<1>1. CASE Stop
  BY <1>1, StopInd
<1>3. CASE Accept
  BY <1>3, AcceptInd
<1>4. CASE Handle
  BY <1>4, NegotiateInd, ReadRequestInd, ConnectInd, BindOrAssociateInd, ProxyStartInd,
     ReceiveInd, ProxyStopInd, CloseDstInd, CloseSrcInd DEF Handle
<1>5. CASE TimerFires
  BY <1>5, TimerFiresInd
<1>6. ASSUME NEW d \in Directions, FarSend(d) \/ FarEnd(d) \/ FarBreaks(d) PROVE IInv'
  BY <1>6, FarSendInd, FarEndInd, FarBreaksInd
<1>7. ASSUME NEW d \in Directions, Copy(d) PROVE IInv'
  BY <1>7, CopyByteInd, ReadFailsInd, WriteFailsInd, ReportInd DEF Copy
<1>8. ASSUME NEW d \in Metered, TickRead(d) \/ TickPublish(d) PROVE IInv'
  BY <1>8, TickReadInd, TickPublishInd
<1>9. CASE UNCHANGED vars
  <2> USE <1>9 DEF IInv, vars
  <2>1. TypeOK'
    BY DEF TypeOK, ControlOK, EndsOK, BytesOK, ResultsOK, MetersOK
  <2>2. Stages' /\ Failures'
    BY DEF Stages, Before, Failures, Exhausted, Lossy
  <2>3. Conserved' /\ Chunks' /\ Unreset' /\ Counted'
    BY DEF Conserved, Lossy, Chunks, Unreset, Counted
  <2> QED
    BY <2>1, <2>2, <2>3
<1> QED
  BY <1>1, <1>3, <1>4, <1>5, <1>6, <1>7, <1>8, <1>9 DEF Next

LEMMA Invariance == Spec => []IInv
BY InitInd, StepInd, PTL DEF Spec

(* The variables keep their types, for any size of a chunk and any number *)
(* of bytes.                                                              *)
THEOREM TypeCorrect == Spec => []TypeOK
<1>1. IInv => TypeOK
  BY DEF IInv
<1> QED
  BY <1>1, Invariance, PTL

(* The client has been told of its success and the tunnel announced when   *)
(* it gets the first byte; the tunnel is revoked once, before either       *)
(* connection is closed, unless the idle timer closed them (socks5.go:312, *)
(* 317); and ReadAddress reads what was encoded.                           *)
THEOREM ToldInOrder == Spec => []Told
<1>1. IInv => Told
  <2> SUFFICES ASSUME IInv PROVE Told
    OBVIOUS
  <2> USE DEF IInv
  <2>1. (\E d \in Directions : got[d] > 0) => reply = "success" /\ events # <<>>
    <3> SUFFICES ASSUME ~Before PROVE reply = "success" /\ events # <<>>
      BY DEF Before, Zero
    <3> QED
      BY DEF TypeOK, ControlOK, Stages
  <2>2. stage = None => \A a \in Addresses : ReadAddress(EncodeAddress(a)) = a
    BY AddressRead
  <2>3. events \in {<<>>, <<"TunnelAdded">>, <<"TunnelAdded", "TunnelRemoved">>}
    BY DEF TypeOK, ControlOK
  <2>4. Announced => open = {"src", "dst"} \/ cut
    BY DEF TypeOK, ControlOK, Stages, Before, Announced, Ends
  <2>5. stage = "done" => ~Announced /\ open = {}
    BY DEF Stages, Before, Announced
  <2> QED
    BY <2>1, <2>2, <2>3, <2>4, <2>5 DEF Told
<1> QED
  BY <1>1, Invariance, PTL

(* The direction whose end ends a session has given all it was sent,       *)
(* unless the timer has closed the connections or one broke                *)
(* (socks5.go:352, network.go:250).                                        *)
THEOREM DeliversAtEnd == Spec => []EndDelivers
<1>1. IInv => EndDelivers
  <2> SUFFICES ASSUME IInv, stage = "stop", ~cut, broken = {} PROVE got[cause[1]] = sent[cause[1]]
    BY DEF EndDelivers
  <2> DEFINE d == cause[1]
  <2>1. d \in Directions
    BY DEF IInv, Stages, Results
  <2>2. unread[d] = 0
    BY DEF IInv, Failures, Exhausted, Lossy
  <2>3. sent[d] = got[d] + unread[d] /\ got[d] \in Nat
    BY <2>1 DEF IInv, Conserved, Lossy, TypeOK, BytesOK
  <2> QED
    BY <2>2, <2>3
<1> QED
  BY <1>1, Invariance, PTL

(* Every byte is counted once, and the bandwidth that is published adds up *)
(* to no more than the total published with it.                            *)
THEOREM CountsOnce == Spec => []MeterRight
<1>1. IInv => MeterRight
  BY DEF IInv, Counted, MeterRight
<1> QED
  BY <1>1, Invariance, PTL

(* The timer cuts a session only if neither direction has filled a chunk   *)
(* since it was set, or its result is not received yet.                    *)
THEOREM CutsTheSilent == Spec => CutBelowChunk
<1> DEFINE Cut == TimerFires /\ stage = "proxy" =>
                    \/ c # <<>> \/ \E d \in Directions : copy[d] \in {"ok", "failed"}
                    \/ \A d \in Directions : fresh[d] < Chunk
<1>1. IInv => Cut
  <2> SUFFICES ASSUME IInv, stage = "proxy", c = <<>>,
                      \A d \in Directions : copy[d] \notin {"ok", "failed"},
                      NEW d \in Directions
               PROVE  fresh[d] < Chunk
    OBVIOUS
  <2>1. fresh[d] <= n[d]
    BY DEF IInv, Unreset
  <2> QED
    BY <2>1, ConstantFacts DEF IInv, Chunks, TypeOK, BytesOK
<1>2. IInv /\ [Next]_vars => [Cut]_vars
  BY <1>1
<1> QED
  BY <1>2, Invariance, PTL DEF Spec, CutBelowChunk

=============================================================================
