--------------------------- MODULE TransportProofs ---------------------------
(***************************************************************************)
(* Proofs about Transport, for any senders and packets: who writes holds   *)
(* the mutex; why a packet may stay with the goroutine of Consume; that    *)
(* what Decode returns are the packets whose Encode began, whole and in    *)
(* order, and that it fails only when the connection has ended.            *)
(*                                                                         *)
(* The last two rest on an invariant that relates the bytes on the         *)
(* connection to the writes of the packets (Stream, below).  It is found   *)
(* by giving every write its place: the reader, wherever it is, asks for   *)
(* just the bytes of the next one.                                         *)
(***************************************************************************)
EXTENDS Transport, FunctionTheorems, FiniteSetTheorems, SequenceTheorems, WellFoundedInduction, TLAPS

-----------------------------------------------------------------------------
(* Who writes, and who reads.                                              *)

(* One Send writes at a time. *)
Exclusive ==
    /\ sender = [s \in Senders |-> sender[s]]
    /\ \A s \in Senders : sender[s] = "write" <=> mutex = s

(* Until the hello is decoded nobody handles packets; Handle ends by       *)
(* itself only with its channel, which Consume closes at its end.          *)
HandlerFollows ==
    /\ reader \in {"recv", "decode", "offer", "ended"}
    /\ handler \in {"idle", "ready", "failed", "done"}
    /\ reader = "recv" => handler = "idle"
    /\ handler = "idle" => reader \in {"recv", "ended"}
    /\ handler = "done" => reader = "ended"

(* The inductive invariant. *)
IInv == Exclusive /\ HandlerFollows

LEMMA SendInd ==
  ASSUME IInv, NEW s \in Senders, CallSend(s) \/ StartEncode(s) \/ Write(s) \/ Timeout(s)
  PROVE  IInv'
<1>1. UNCHANGED <<reader, handler>>
  BY DEF CallSend, StartEncode, Write, Timeout, ReadVars
<1>2. HandlerFollows'
  BY <1>1 DEF IInv, HandlerFollows
<1>3. Exclusive'
  <2> USE DEF IInv, Exclusive
  <2>1. CASE CallSend(s)
    BY <2>1 DEF CallSend
  <2>2. CASE StartEncode(s)
    BY <2>2, NoneAssumption DEF StartEncode
  <2>3. CASE Write(s)
    BY <2>3, NoneAssumption DEF Write, Return
  <2>4. CASE Timeout(s)
    BY <2>4 DEF Timeout, SendVars
  <2> QED
    BY <2>1, <2>2, <2>3, <2>4
<1> QED
  BY <1>2, <1>3 DEF IInv

LEMMA ReadInd ==
  ASSUME IInv, LinkLost \/ ReadTag \/ ReadField \/ Offer
  PROVE  IInv'
<1>1. UNCHANGED <<sender, mutex>>
  BY DEF LinkLost, ReadTag, ReadField, Offer, SendVars
<1>2. Exclusive'
  BY <1>1 DEF IInv, Exclusive
<1>3. HandlerFollows'
  <2> USE DEF IInv, HandlerFollows
  <2>1. CASE LinkLost
    BY <2>1 DEF LinkLost, ReadVars
  <2>2. CASE ReadTag
    BY <2>2 DEF ReadTag, DecodeGoesOn, DecodeFails
  <2>3. CASE ReadField
    BY <2>3 DEF ReadField, DecodeFails
  <2>4. CASE Offer
    BY <2>4 DEF Offer
  <2> QED
    BY <2>1, <2>2, <2>3, <2>4
<1> QED
  BY <1>2, <1>3 DEF IInv

LEMMA InitInd == Init => IInv
BY NoneAssumption DEF Init, IInv, Exclusive, HandlerFollows

LEMMA StepInd == IInv /\ [Next]_vars => IInv'
<1> SUFFICES ASSUME IInv, [Next]_vars PROVE IInv'
  OBVIOUS
<1>1. CASE UNCHANGED vars
  BY <1>1 DEF vars, IInv, Exclusive, HandlerFollows
<1>2. CASE Next
  BY <1>2, SendInd, ReadInd DEF Next
<1> QED
  BY <1>1, <1>2

LEMMA Invariance == Spec => []IInv
BY InitInd, StepInd, PTL DEF Spec

(* The bytes of two packets are never mixed: however many goroutines send, *)
(* one is between the first and the last write of its packet               *)
(* (network.go:127).                                                       *)
OneWriter == \A s, r \in Senders : sender[s] = "write" /\ sender[r] = "write" => s = r
THEOREM WritesAlone == Spec => []OneWriter
<1>1. IInv => OneWriter
  BY DEF IInv, Exclusive, OneWriter
<1> QED
  BY <1>1, Invariance, PTL

(* Whatever is sent and wherever the connection breaks, the goroutine of   *)
(* Consume keeps a packet for ever only if Handle has failed on the one    *)
(* before (network.go:96).                                                 *)
THEOREM StrandedOnlyByFailure == Spec => []StrandedByFailure
<1>1. IInv => StrandedByFailure
  BY DEF IInv, HandlerFollows, StrandedByFailure
<1> QED
  BY <1>1, Invariance, PTL

-----------------------------------------------------------------------------
(* Sequences: what FlattenSeq makes of lists of the same length, which is   *)
(* what a packet and its modules are.                                      *)

(* A set of numbers has a least one.                                       *)
LEMMA LeastOf == ASSUME NEW S \in SUBSET Nat, S # {} PROVE \E x \in S : \A y \in S : x <= y
<1> DEFINE R == OpToRel(<, Nat)
<1>1. IsWellFoundedOn(R, Nat)
  BY NatLessThanWellFounded
<1> HIDE DEF R
<1>2. PICK x \in S : \A y \in S : ~(<<y, x>> \in R)
  BY <1>1, WFMin
<1>3. \A y \in S : <<y, x>> \in Nat \X Nat /\ ~(<<y, x>>[1] < <<y, x>>[2])
  BY <1>2 DEF R, OpToRel
<1>4. \A y \in S : y \in Nat /\ x \in Nat /\ ~(y < x)
  BY <1>3
<1> QED
  BY <1>4

(* g is what FlattenSeq folds: the first i lists together.                 *)
Joins(s, g, n) == g = [i \in 1..n |-> IF i = 1 THEN s[i] ELSE g[i - 1] \o s[i]]

(* One step of g, and that there is such a function.                       *)
LEMMA JoinsAt ==
  ASSUME NEW s, NEW g, NEW n \in Nat, Joins(s, g, n), NEW i \in 1..n
  PROVE  g[i] = IF i = 1 THEN s[i] ELSE g[i - 1] \o s[i]
BY DEF Joins

(* Every length has such joins.                                            *)
LEMMA JoinsExists == ASSUME NEW s, NEW n \in Nat PROVE \E g : Joins(s, g, n)
<1> DEFINE B == {k \in Nat : ~ \E g : Joins(s, g, k)}
<1>1. SUFFICES ASSUME B # {} PROVE FALSE
  BY DEF B
<1>2. PICK k \in B : \A y \in B : k <= y
  <2>1. B \in SUBSET Nat
    OBVIOUS
  <2> HIDE DEF B
  <2> QED
    BY <1>1, <2>1, LeastOf
<1>3. k \in Nat /\ ~ \E g : Joins(s, g, k)
  BY <1>2
<1>4. k # 0
  <2> DEFINE g == [i \in {} |-> s[i]]
  <2>1. 1..0 = {}
    OBVIOUS
  <2>2. g = [i \in 1..0 |-> IF i = 1 THEN s[i] ELSE g[i - 1] \o s[i]]
    BY <2>1
  <2>3. Joins(s, g, 0)
    BY <2>2 DEF Joins
  <2> QED
    BY <1>3, <2>3
<1>5. k - 1 \in Nat /\ k - 1 \notin B
  BY <1>2, <1>3, <1>4
<1>6. PICK h : Joins(s, h, k - 1)
  BY <1>5
<1> HIDE DEF B
<1> DEFINE g == [i \in 1..k |-> IF i = 1 THEN s[i] ELSE h[i - 1] \o s[i]]
<1>7. \A i \in 1..(k - 1) : g[i] = h[i]
  <2> SUFFICES ASSUME NEW i \in 1..(k - 1) PROVE g[i] = h[i]
    OBVIOUS
  <2>1. h[i] = IF i = 1 THEN s[i] ELSE h[i - 1] \o s[i]
    BY <1>5, <1>6, JoinsAt
  <2>2. i \in 1..k
    BY <1>3, <1>5
  <2> QED
    BY <2>1, <2>2
<1>8. \A i \in 1..k : i # 1 => i - 1 \in 1..(k - 1)
  BY <1>3
<1>9. g = [i \in 1..k |-> IF i = 1 THEN s[i] ELSE g[i - 1] \o s[i]]
  <2>1. \A i \in 1..k : (IF i = 1 THEN s[i] ELSE h[i - 1] \o s[i]) = IF i = 1 THEN s[i] ELSE g[i - 1] \o s[i]
    BY <1>7, <1>8
  <2> DEFINE a(i) == IF i = 1 THEN s[i] ELSE h[i - 1] \o s[i]
             b(i) == IF i = 1 THEN s[i] ELSE g[i - 1] \o s[i]
  <2>2. g = [i \in 1..k |-> a(i)] /\ \A i \in 1..k : a(i) = b(i)
    BY <2>1
  <2> HIDE DEF a, b, g
  <2>3. g = [i \in 1..k |-> b(i)]
    BY <2>2
  <2> QED
    BY <2>3 DEF b
<1>10. Joins(s, g, k)
  BY <1>9 DEF Joins
<1> QED
  BY <1>3, <1>10

(* Two sequences, one after the other.                                     *)
LEMMA CatFacts ==
  ASSUME NEW S, NEW p \in Seq(S), NEW t \in Seq(S)
  PROVE  /\ p \o t \in Seq(S) /\ Len(p \o t) = Len(p) + Len(t)
         /\ \A i \in 1..Len(p) : (p \o t)[i] = p[i]
         /\ \A i \in 1..Len(t) : (p \o t)[Len(p) + i] = t[i]
OBVIOUS

(* FlattenSeq of lists that all have n elements: the j-th of the i-th      *)
(* list.                                                                   *)
LEMMA FlattenAt ==
  ASSUME NEW S, NEW s \in Seq(Seq(S)), NEW n \in {2, 7}, \A i \in 1..Len(s) : Len(s[i]) = n
  PROVE  /\ FlattenSeq(s) \in Seq(S) /\ Len(FlattenSeq(s)) = n * Len(s)
         /\ \A i \in 1..Len(s), j \in 1..n : FlattenSeq(s)[n * (i - 1) + j] = s[i][j]
<1> DEFINE L == Len(s)
           f == CHOOSE g : Joins(s, g, L)
<1>0. L \in Nat
  OBVIOUS
<1>1. L \in Nat /\ Joins(s, f, L)
  <2> HIDE DEF L
  <2> QED
    BY <1>0, JoinsExists
<1>2. CASE L = 0
  <2>1. FlattenSeq(s) = s /\ s = <<>>
    BY <1>2 DEF FlattenSeq
  <2> QED
    BY <2>1
<1>3. CASE L # 0
  <2>1. FlattenSeq(s) = f[L]
    BY <1>3 DEF FlattenSeq, Joins
  <2> HIDE DEF f
  <2> DEFINE Good(k) == /\ f[k] \in Seq(S) /\ Len(f[k]) = n * k
                        /\ \A i \in 1..k, j \in 1..n : f[k][n * (i - 1) + j] = s[i][j]
             B == {k \in 1..L : ~Good(k)}
  <2>2. SUFFICES ASSUME B # {} PROVE FALSE
    <3>1. L \in 1..L
      BY <1>0, <1>3
    <3>2. Good(L) => FlattenSeq(s) \in Seq(S) /\ Len(FlattenSeq(s)) = n * L
                     /\ \A i \in 1..L, j \in 1..n : FlattenSeq(s)[n * (i - 1) + j] = s[i][j]
      BY <2>1
    <3> HIDE DEF Good
    <3> QED
      BY <3>1, <3>2
  <2>3. PICK k \in B : \A y \in B : k <= y
    <3>1. B \in SUBSET Nat
      OBVIOUS
    <3> HIDE DEF B
    <3> QED
      BY <2>2, <3>1, LeastOf
  <2>4. k \in 1..L /\ ~Good(k) /\ s[k] \in Seq(S) /\ Len(s[k]) = n
    BY <2>3
  <2>5. k # 1 => k - 1 \in 1..L /\ Good(k - 1)
    <3> HIDE DEF Good
    <3>1. k # 1 => k - 1 \in 1..L /\ ~(k <= k - 1)
      BY <1>0, <2>4
    <3> QED
      BY <2>3, <3>1
  <2>6. f[k] = IF k = 1 THEN s[k] ELSE f[k - 1] \o s[k]
    <3> HIDE DEF Good, L
    <3> QED
      BY <1>1, <2>4, JoinsAt
  <2> HIDE DEF B
  <2>7. CASE k = 1
    BY <2>4, <2>6, <2>7
  <2>8. CASE k # 1
    <3> DEFINE p == f[k - 1]
    <3>1. p \in Seq(S) /\ Len(p) = n * (k - 1) /\ \A i \in 1..(k - 1), j \in 1..n : p[n * (i - 1) + j] = s[i][j]
      BY <2>5, <2>8
    <3>2. f[k] = p \o s[k]
      BY <2>6, <2>8
    <3> HIDE DEF p
    <3>3. k \in Nat /\ k > 1
      BY <2>4, <2>8
    <3>4. n * (k - 1) + n = n * k /\ n * (k - 1) \in Nat
      BY <3>3
    <3>5. /\ f[k] \in Seq(S) /\ Len(f[k]) = n * (k - 1) + n
          /\ \A i \in 1..Len(p) : f[k][i] = p[i]
          /\ \A i \in 1..n : f[k][Len(p) + i] = s[k][i]
      <4> DEFINE c == s[k]
      <4>1. c \in Seq(S) /\ Len(c) = n
        BY <2>4
      <4> HIDE DEF c
      <4>2. /\ p \o c \in Seq(S) /\ Len(p \o c) = Len(p) + Len(c)
            /\ \A i \in 1..Len(p) : (p \o c)[i] = p[i]
            /\ \A i \in 1..Len(c) : (p \o c)[Len(p) + i] = c[i]
        BY <3>1, <4>1, CatFacts
      <4> QED
        BY <3>1, <3>2, <4>1, <4>2 DEF c
    <3>6. ASSUME NEW i \in 1..k, NEW j \in 1..n PROVE f[k][n * (i - 1) + j] = s[i][j]
      <4>1. CASE i = k
        BY <4>1, <3>1, <3>5
      <4>2. CASE i # k
        <5>1. i \in 1..(k - 1)
          BY <4>2, <3>3
        <5>2. n * (i - 1) + j \in 1..Len(p)
          <6>1. CASE n = 2
            BY <6>1, <5>1, <3>1, <3>3
          <6>2. CASE n = 7
            BY <6>2, <5>1, <3>1, <3>3
          <6> QED
            BY <6>1, <6>2
        <5>3. f[k][n * (i - 1) + j] = p[n * (i - 1) + j]
          BY <5>2, <3>5
        <5> QED
          BY <5>1, <5>3, <3>1
      <4> QED
        BY <4>1, <4>2
    <3> QED
      BY <2>4, <3>4, <3>5, <3>6
  <2> QED
    BY <2>7, <2>8
<1> QED
  BY <1>2, <1>3

-----------------------------------------------------------------------------
(* The invariant of the stream.                                            *)

Bytes == Seq(Byte)
Packets == {Packet[s] : s \in Senders}

(* A packet with the order in which its modules were encoded.              *)
Sending == UNION {[packet : {p}, order : SetToSeqs(DOMAIN p.modules)] : p \in Packets}
Count(x) == Len(x.order)
Writes(x) == Encode(x.packet, x.order)
(* The place of a write: the packet, and which of its writes it is.        *)
Places == [p : Nat \ {0}, j : Nat \ {0}]

Fields == [kind : {"tag", "meta", "count", "id", "size", "payload"}, t : Nat]
PartNames == {"meta", "modules", "id", "size"}

(* What Decode reads at the c-th write of a packet with m modules. *)
FieldAt(m, c) ==
    IF c <= 8 THEN PacketFields[c]
    ELSE IF c <= 8 + 7 * m THEN ModuleFields[((c - 9) % 7) + 1]
    ELSE Tag(PacketClose)

(* What is left to read of packet x after e items.                         *)
Wanted(x, e) ==
    /\ want \in Seq(Fields)
    /\ Len(want) = (IF e < 8 THEN 8 ELSE 9 + 7 * Count(x)) - e
    /\ \A j \in 1..Len(want) : want[j] = FieldAt(Count(x), e + j)

(* What was made of it: in its head.                                       *)
Half(x, e) ==
    /\ e < 8
    /\ part.meta = SubSeq(x.packet.meta, 1, e \div 2)
    /\ part.modules = Empty.modules

(* In its modules: i of them are read, and q items of the next one.        *)
Body(x, e) ==
    \E i \in 0..Count(x), q \in 0..6 :
      /\ e = 8 + 7 * i + q /\ (i = Count(x) => q = 0)
      /\ part.meta = x.packet.meta
      /\ DOMAIN part.modules = {x.order[y] : y \in 1..(IF q = 6 THEN i + 1 ELSE i)}
      /\ \A id \in DOMAIN part.modules : part.modules[id] = x.packet.modules[id]
      /\ q >= 2 => part.id = x.order[i + 1]
      /\ q >= 4 => part.size = Len(x.packet.modules[x.order[i + 1]])

(* The reader is in packet x and has read e items of it.                   *)
Progress(x, e) == e \in Nat /\ Wanted(x, e) /\ DOMAIN part = PartNames /\ (Half(x, e) \/ Body(x, e))

(* The packets whose encoding began. *)
Sent(q) ==
    /\ q \in Seq(Sending) /\ Len(q) = Len(begun)
    /\ \A i \in 1..Len(q) : q[i].packet = begun[i]

(* The writes they make. *)
Line(q, at) ==
    /\ at \in Seq(Places)
    /\ \A i \in 1..Len(at) : at[i].p <= Len(q) /\ at[i].j <= Len(Writes(q[at[i].p]))
    /\ \A i \in 1..Len(at) :
         IF at[i].j < Len(Writes(q[at[i].p])) THEN i < Len(at) /\ at[i + 1] = [p |-> at[i].p, j |-> at[i].j + 1]
         ELSE IF at[i].p < Len(q) THEN i < Len(at) /\ at[i + 1] = [p |-> at[i].p + 1, j |-> 1]
         ELSE i = Len(at)

(* The bytes of the i-th write.                                            *)
Chunk(q, at, i) == Writes(q[at[i].p])[at[i].j]

(* w writes are done: B are their bytes, those of the i-th end at O[i].    *)
(* The others are those that the sender has still to do, unless the        *)
(* connection has ended.                                                   *)
Written(q, at, w, O, B) ==
    /\ w \in 0..Len(at)
    /\ B \in Bytes
    /\ O \in [0..w -> 0..Len(B)] /\ O[w] = Len(B)
    /\ \A i \in 1..w : /\ O[i] = O[i - 1] + Len(Chunk(q, at, i))
                       /\ \A j \in 1..Len(Chunk(q, at, i)) : B[O[i - 1] + j] = Chunk(q, at, i)[j]
    /\ ~closed => IF mutex = None THEN w = Len(at)
                  ELSE /\ Len(todo[mutex]) = Len(at) - w
                       /\ \A j \in 1..Len(todo[mutex]) : todo[mutex][j] = Chunk(q, at, w + j)

(* The reader is in the packet after those it has returned; if all are     *)
(* returned it has read nothing, or the end of the connection in place of  *)
(* a tag.                                                                  *)
Reading(q, e) ==
    /\ Len(decoded) <= Len(q)
    /\ IF Len(decoded) < Len(q) THEN e \in Nat /\ Progress(q[Len(decoded) + 1], e)
       ELSE /\ e \in {0, 1} /\ (e = 1 => closed /\ wire = <<>>)
            /\ want = SubSeq(PacketFields, e + 1, 8) /\ part = Empty

(* r writes are read, the next is the one the reader asks for, and the     *)
(* connection holds the bytes that follow, all of them unless it has       *)
(* ended.                                                                  *)
Synced(q, at, w, O, B, e, r) ==
    /\ r \in 0..w
    /\ IF Len(decoded) < Len(q) THEN r < Len(at) /\ at[r + 1] = [p |-> Len(decoded) + 1, j |-> e + 1]
       ELSE r = Len(at)
    /\ Len(wire) <= Len(B) - O[r]
    /\ \A j \in 1..Len(wire) : wire[j] = B[O[r] + j]
    /\ ~closed => Len(wire) = Len(B) - O[r]

(* All together.  When the connection has ended and is read to its end, a  *)
(* reader meets no more bytes, and Synced does not matter.                 *)
Stream(q, at, w, O, B, e, r) ==
    /\ Sent(q) /\ Line(q, at) /\ Written(q, at, w, O, B)
    /\ Reading(q, e)
    /\ (closed /\ wire = <<>>) \/ Synced(q, at, w, O, B, e, r)
    /\ \A i \in 1..Len(decoded) : SamePacket(decoded[i], q[i].packet)
    /\ reader = "ended" => closed

-----------------------------------------------------------------------------
(* What is written: the writes of a packet, one by one.                    *)

(* A function on 1..n is a sequence.                                       *)
LEMMA FunctionIsSeq ==
  ASSUME NEW S, NEW n \in Nat, NEW f \in [1..n -> S]
  PROVE  f \in Seq(S) /\ Len(f) = n
OBVIOUS

(* What the constants say of a packet.                                     *)
LEMMA PacketFacts ==
  ASSUME NEW p \in Packets
  PROVE  /\ p.meta \in Seq(Byte) /\ Len(p.meta) = 3
         /\ IsFiniteSet(DOMAIN p.modules) /\ Cardinality(DOMAIN p.modules) \in 1..255
         /\ Base \in 2..256
         /\ \A id \in DOMAIN p.modules :
              /\ id \in Seq(Byte) /\ Len(id) = 2 /\ p.modules[id] \in Seq(Byte)
              /\ Len(p.modules[id]) \in 1..(Base * Base - 1)
<1>1. PICK s \in Senders : p = Packet[s]
  BY DEF Packets
<1>2. p.meta \in [1..3 -> Byte]
  BY <1>1, ConstantsAssumption
<1>3. p.meta \in Seq(Byte) /\ Len(p.meta) = 3
  BY <1>2, FunctionIsSeq
<1> QED
  BY <1>1, <1>3, ConstantsAssumption

(* The order in which Encode meets the modules has each of them.           *)
LEMMA OrderFacts ==
  ASSUME NEW p \in Packets, NEW order \in SetToSeqs(DOMAIN p.modules)
  PROVE  /\ order \in Seq(DOMAIN p.modules) /\ Len(order) \in 1..255 /\ DOMAIN order = 1..Len(order)
         /\ {order[y] : y \in 1..Len(order)} = DOMAIN p.modules
<1> DEFINE D == DOMAIN p.modules
           c == Cardinality(D)
<1>1. IsFiniteSet(D) /\ c \in 1..255
  BY PacketFacts
<1>2. order \in [1..c -> D] /\ \A i, j \in 1..c : i # j => order[i] # order[j]
  BY DEF SetToSeqs
<1> HIDE DEF D, c
<1>3. order \in Seq(D) /\ Len(order) = c
  BY <1>1, <1>2
<1>4. order \in Injection(1..c, D)
  BY <1>2 DEF Injection, IsInjective
<1>5. Cardinality(1..c) = c
  <2>1. c \in Int /\ 1 \in Int /\ ~(1 > c) /\ c - 1 + 1 = c
    BY <1>1
  <2> QED
    BY <2>1, FS_Interval
<1>6. order \in Surjection(1..c, D)
  BY <1>1, <1>4, <1>5, FS_Injection DEF c
<1>7. \A id \in D : \E y \in 1..c : order[y] = id
  BY <1>6 DEF Surjection
<1> QED
  BY <1>1, <1>2, <1>3, <1>7 DEF D

(* The two bytes of a size. *)
LEMMA SizeBytes ==
  ASSUME NEW n \in 1..(Base * Base - 1)
  PROVE  /\ n \div Base \in Byte /\ n % Base \in Byte
         /\ (n \div Base) * Base + (n % Base) = n
<1>1. Base \in 2..256 /\ Base * Base \in Nat /\ n \in Nat
  <2>1. Base \in 2..256
    BY ConstantsAssumption
  <2>2. Base * Base \in Nat
    BY <2>1
  <2> QED
    BY <2>1, <2>2
<1> DEFINE d == n \div Base
           m == n % Base
<1>2. d \in Nat /\ m \in 0..(Base - 1) /\ n = Base * d + m
  BY <1>1
<1> HIDE DEF d, m
<1>3. d < Base
  <2>1. SUFFICES ASSUME d >= Base PROVE FALSE
    BY <1>1, <1>2
  <2>2. Base * d >= Base * Base
    BY <1>1, <1>2, <2>1
  <2> QED
    BY <1>1, <1>2, <2>2
<1>4. d * Base = Base * d
  BY <1>1, <1>2
<1> QED
  BY <1>1, <1>2, <1>3, <1>4 DEF d, m, Byte

(* The writes of a module.                                                 *)
LEMMA ModuleWrites ==
  ASSUME NEW p \in Packets, NEW id \in DOMAIN p.modules
  PROVE  LET M == EncodeModule(id, p.modules[id])
             n == Len(p.modules[id])
         IN  /\ M \in Seq(Bytes) /\ Len(M) = 7
             /\ M[1] = <<ModuleOpen>> /\ M[2] = id /\ M[3] = <<Sep>>
             /\ M[4] = <<n \div Base, n % Base>> /\ M[5] = <<Sep>>
             /\ M[6] = p.modules[id] /\ M[7] = <<ModuleClose>>
<1> DEFINE n == Len(p.modules[id])
           b == p.modules[id]
           z == <<n \div Base, n % Base>>
<1>1. id \in Bytes /\ b \in Bytes /\ n \div Base \in Byte /\ n % Base \in Byte
  BY PacketFacts, SizeBytes DEF Bytes
<1>2. z \in Bytes /\ <<ModuleOpen>> \in Bytes /\ <<ModuleClose>> \in Bytes /\ <<Sep>> \in Bytes
  BY <1>1 DEF Bytes, Byte, ModuleOpen, ModuleClose, Sep
<1>3. EncodeModule(id, b) = <<<<ModuleOpen>>, id, <<Sep>>, z, <<Sep>>, b, <<ModuleClose>>>>
  BY DEF EncodeModule
<1> HIDE DEF z, b
<1> QED
  BY <1>1, <1>2, <1>3 DEF z, b

(* Two lists of writes.                                                    *)
Cat(p, t) == p \o t
(* What the concatenation holds at each index.                             *)
LEMMA CatAt ==
  ASSUME NEW p \in Seq(Bytes), NEW t \in Seq(Bytes)
  PROVE  /\ Cat(p, t) \in Seq(Bytes) /\ Len(Cat(p, t)) = Len(p) + Len(t)
         /\ \A i \in 1..(Len(p) + Len(t)) : Cat(p, t)[i] = IF i <= Len(p) THEN p[i] ELSE t[i - Len(p)]
BY DEF Cat

(* The writes of a packet.                                                 *)
LEMMA PacketWrites ==
  ASSUME NEW p \in Packets, NEW order \in SetToSeqs(DOMAIN p.modules)
  PROVE  LET E == Encode(p, order)
             m == Len(order)
         IN  /\ E \in Seq(Bytes) /\ Len(E) = 9 + 7 * m
             /\ E[1] = <<PacketOpen>>
             /\ E[2] = <<p.meta[1]>> /\ E[3] = <<Sep>> /\ E[4] = <<p.meta[2]>> /\ E[5] = <<Sep>>
             /\ E[6] = <<p.meta[3]>> /\ E[7] = <<Sep>> /\ E[8] = <<m>>
             /\ \A i \in 1..m, j \in 1..7 :
                  E[8 + (7 * (i - 1) + j)] = EncodeModule(order[i], p.modules[order[i]])[j]
             /\ E[9 + 7 * m] = <<PacketClose>>
<1> DEFINE m == Len(order)
           ms == [i \in 1..3 |-> <<<<p.meta[i]>>, <<Sep>>>>]
           ds == [i \in DOMAIN order |-> EncodeModule(order[i], p.modules[order[i]])]
           a == <<<<PacketOpen>>>>
           b == FlattenSeq(ms)
           c == <<<<m>>>>
           d == FlattenSeq(ds)
           z == <<<<PacketClose>>>>
<1>1. Encode(p, order) = a \o b \o c \o d \o z
  BY DEF Encode
<1>2. m \in 1..255 /\ DOMAIN order = 1..m /\ \A i \in 1..m : order[i] \in DOMAIN p.modules
  BY OrderFacts
<1>3. b \in Seq(Bytes) /\ Len(b) = 6 /\ b[1] = <<p.meta[1]>> /\ b[2] = <<Sep>> /\ b[3] = <<p.meta[2]>>
      /\ b[4] = <<Sep>> /\ b[5] = <<p.meta[3]>> /\ b[6] = <<Sep>>
  <2>1. \A i \in 1..3 : p.meta[i] \in Byte
    BY PacketFacts
  <2>2. \A i \in 1..3 : <<p.meta[i]>> \in Bytes /\ <<Sep>> \in Bytes
    BY <2>1 DEF Bytes, Byte, Sep
  <2>3. ms \in [1..3 -> Seq(Bytes)]
    BY <2>2
  <2>4. /\ ms \in Seq(Seq(Bytes)) /\ Len(ms) = 3
        /\ \A i \in 1..3 : Len(ms[i]) = 2 /\ ms[i][1] = <<p.meta[i]>> /\ ms[i][2] = <<Sep>>
    BY <2>3
  <2> HIDE DEF ms
  <2>5. /\ b \in Seq(Bytes) /\ Len(b) = 2 * 3
        /\ \A i \in 1..3, j \in 1..2 : b[2 * (i - 1) + j] = ms[i][j]
    <3> HIDE DEF b
    <3>1. (\A i \in 1..Len(ms) : Len(ms[i]) = 2) /\ 2 \in {2, 7} /\ b = FlattenSeq(ms)
      BY <2>4 DEF b
    <3>2. FlattenSeq(ms) \in Seq(Bytes) /\ Len(FlattenSeq(ms)) = 2 * Len(ms)
      BY <2>4, <3>1, FlattenAt
    <3>3. \A i \in 1..Len(ms), j \in 1..2 : FlattenSeq(ms)[2 * (i - 1) + j] = ms[i][j]
      BY <2>4, <3>1, FlattenAt
    <3> QED
      BY <2>4, <3>1, <3>2, <3>3
  <2>6. b[2 * (1 - 1) + 1] = ms[1][1] /\ b[2 * (1 - 1) + 2] = ms[1][2] /\ b[2 * (2 - 1) + 1] = ms[2][1]
        /\ b[2 * (2 - 1) + 2] = ms[2][2] /\ b[2 * (3 - 1) + 1] = ms[3][1] /\ b[2 * (3 - 1) + 2] = ms[3][2]
    BY <2>5
  <2> HIDE DEF b
  <2> QED
    BY <2>4, <2>5, <2>6
<1>4. /\ d \in Seq(Bytes) /\ Len(d) = 7 * m
      /\ \A i \in 1..m, j \in 1..7 : d[7 * (i - 1) + j] = EncodeModule(order[i], p.modules[order[i]])[j]
  <2>1. \A i \in 1..m : ds[i] \in Seq(Bytes) /\ Len(ds[i]) = 7 /\ ds[i] = EncodeModule(order[i], p.modules[order[i]])
    BY <1>2, ModuleWrites
  <2>2. ds = [i \in 1..m |-> ds[i]]
    BY <1>2
  <2> HIDE DEF ds, m
  <2>3. ds \in Seq(Seq(Bytes)) /\ Len(ds) = m
    <3>1. ds \in [1..m -> Seq(Bytes)]
      BY <2>1, <2>2
    <3>2. m \in Nat
      <4>1. m \in 1..255
        BY <1>2
      <4> QED
        BY <4>1
    <3> QED
      BY <3>1, <3>2, FunctionIsSeq
  <2>4. /\ d \in Seq(Bytes) /\ Len(d) = 7 * m
        /\ \A i \in 1..m, j \in 1..7 : d[7 * (i - 1) + j] = ds[i][j]
    <3>1. (\A i \in 1..Len(ds) : Len(ds[i]) = 7) /\ 7 \in {2, 7}
      BY <2>1, <2>3
    <3> HIDE DEF d
    <3>2. d = FlattenSeq(ds)
      BY DEF d
    <3>3. FlattenSeq(ds) \in Seq(Bytes) /\ Len(FlattenSeq(ds)) = 7 * Len(ds)
      BY <2>3, <3>1, FlattenAt
    <3>4. \A i \in 1..Len(ds), j \in 1..7 : FlattenSeq(ds)[7 * (i - 1) + j] = ds[i][j]
      BY <2>3, <3>1, FlattenAt
    <3> QED
      BY <2>3, <3>2, <3>3, <3>4
  <2> QED
    BY <2>1, <2>4
<1>5. a \in Seq(Bytes) /\ Len(a) = 1 /\ a[1] = <<PacketOpen>> /\ c \in Seq(Bytes) /\ Len(c) = 1 /\ c[1] = <<m>>
      /\ z \in Seq(Bytes) /\ Len(z) = 1 /\ z[1] = <<PacketClose>>
  <2> HIDE DEF m, b, d, ms, ds
  <2>1. <<PacketOpen>> \in Bytes /\ <<PacketClose>> \in Bytes /\ <<m>> \in Bytes
    BY <1>2 DEF Bytes, Byte, PacketOpen, PacketClose
  <2> QED
    BY <2>1
<1>0. m \in Nat
  BY <1>2
<1> HIDE DEF a, b, c, d, z, m, ms, ds
<1>20. a \in Seq(Bytes) /\ Len(a) = 1 /\ c \in Seq(Bytes) /\ Len(c) = 1 /\ z \in Seq(Bytes) /\ Len(z) = 1
  BY <1>5
<1>21. b \in Seq(Bytes) /\ Len(b) = 6
  BY <1>3
<1> DEFINE e == Cat(a, b)
           f == Cat(e, c)
           g == Cat(f, d)
<1>6. e \in Seq(Bytes) /\ Len(e) = 7 /\ \A i \in 1..7 : e[i] = IF i <= 1 THEN a[i] ELSE b[i - 1]
  <2>1. a \in Seq(Bytes) /\ b \in Seq(Bytes)
      BY <1>20, <1>21
    <2>2. /\ Cat(a, b) \in Seq(Bytes) /\ Len(Cat(a, b)) = Len(a) + Len(b)
          /\ \A i \in 1..(Len(a) + Len(b)) : Cat(a, b)[i] = IF i <= Len(a) THEN a[i] ELSE b[i - Len(a)]
      BY <2>1, CatAt
  <2> QED
    BY <2>2, <1>20, <1>21
<1> HIDE DEF e
<1>7. f \in Seq(Bytes) /\ Len(f) = 8 /\ \A i \in 1..8 : f[i] = IF i <= 7 THEN e[i] ELSE c[i - 7]
  <2>1. e \in Seq(Bytes) /\ c \in Seq(Bytes)
      BY <1>6, <1>20
    <2>2. /\ Cat(e, c) \in Seq(Bytes) /\ Len(Cat(e, c)) = Len(e) + Len(c)
          /\ \A i \in 1..(Len(e) + Len(c)) : Cat(e, c)[i] = IF i <= Len(e) THEN e[i] ELSE c[i - Len(e)]
      BY <2>1, CatAt
  <2> QED
    BY <2>2, <1>6, <1>20
<1> HIDE DEF f
<1>8. /\ g \in Seq(Bytes) /\ Len(g) = 8 + 7 * m
      /\ \A i \in 1..(8 + 7 * m) : g[i] = IF i <= 8 THEN f[i] ELSE d[i - 8]
  <2> DEFINE k == 7 * m
  <2>1. Len(d) = k
    BY <1>4
  <2> HIDE DEF k
  <2>2. /\ g \in Seq(Bytes) /\ Len(g) = 8 + k
        /\ \A i \in 1..(8 + k) : g[i] = IF i <= 8 THEN f[i] ELSE d[i - 8]
    <3>1. f \in Seq(Bytes) /\ d \in Seq(Bytes)
        BY <1>7, <1>4
      <3>2. /\ Cat(f, d) \in Seq(Bytes) /\ Len(Cat(f, d)) = Len(f) + Len(d)
            /\ \A i \in 1..(Len(f) + Len(d)) : Cat(f, d)[i] = IF i <= Len(f) THEN f[i] ELSE d[i - Len(f)]
        BY <3>1, CatAt
    <3> QED
      BY <3>2, <1>7, <1>4, <2>1
  <2> QED
    BY <2>2 DEF k
<1> HIDE DEF g
<1> DEFINE E == Cat(g, z)
<1> HIDE DEF E
<1>10. E = Encode(p, order)
  BY <1>1 DEF E, g, f, e, Cat
<1>9. /\ E \in Seq(Bytes) /\ Len(E) = (8 + 7 * m) + 1
      /\ \A i \in 1..((8 + 7 * m) + 1) : E[i] = IF i <= 8 + 7 * m THEN g[i] ELSE z[i - (8 + 7 * m)]
  <2> DEFINE k == 8 + 7 * m
  <2>1. Len(g) = k
    BY <1>8
  <2> HIDE DEF k
  <2>2. /\ E \in Seq(Bytes) /\ Len(E) = k + 1
        /\ \A i \in 1..(k + 1) : E[i] = IF i <= k THEN g[i] ELSE z[i - k]
    <3>1. g \in Seq(Bytes) /\ z \in Seq(Bytes)
        BY <1>8, <1>20
      <3>2. /\ Cat(g, z) \in Seq(Bytes) /\ Len(Cat(g, z)) = Len(g) + Len(z)
            /\ \A i \in 1..(Len(g) + Len(z)) : Cat(g, z)[i] = IF i <= Len(g) THEN g[i] ELSE z[i - Len(g)]
        BY <3>1, CatAt
    <3> QED
      BY <3>2, <1>8, <1>20, <2>1 DEF E
  <2> QED
    BY <2>2 DEF k
<1>11. \A i \in 1..8 : E[i] = f[i]
  BY <1>0, <1>8, <1>9
<1>12. E[1] = <<PacketOpen>> /\ E[8] = <<m>> /\ \A i \in 1..6 : E[1 + i] = b[i]
  <2>1. \A i \in 1..7 : E[i] = e[i]
    BY <1>7, <1>11
  <2>2. E[8] = c[1]
    BY <1>7, <1>11
  <2>3. E[1] = a[1]
    BY <2>1, <1>6
  <2>4. \A i \in 1..6 : E[1 + i] = b[i]
    BY <2>1, <1>6
  <2> QED
    BY <1>5, <2>2, <2>3, <2>4
<1>13. E[2] = b[1] /\ E[3] = b[2] /\ E[4] = b[3] /\ E[5] = b[4] /\ E[6] = b[5] /\ E[7] = b[6]
  <2>1. E[1 + 1] = b[1] /\ E[1 + 2] = b[2] /\ E[1 + 3] = b[3] /\ E[1 + 4] = b[4] /\ E[1 + 5] = b[5] /\ E[1 + 6] = b[6]
    BY <1>12
  <2> QED
    BY <2>1
<1>14. ASSUME NEW i \in 1..m, NEW j \in 1..7
       PROVE  E[8 + (7 * (i - 1) + j)] = EncodeModule(order[i], p.modules[order[i]])[j]
  <2> DEFINE k == 7 * (i - 1) + j
  <2>1. k \in 1..(7 * m) /\ 8 + k \in 1..(8 + 7 * m)
    BY <1>0
  <2>2. d[k] = EncodeModule(order[i], p.modules[order[i]])[j]
    BY <1>4
  <2> HIDE DEF k
  <2>3. E[8 + k] = d[k]
    BY <2>1, <1>0, <1>8, <1>9
  <2> QED
    BY <2>2, <2>3 DEF k
<1>15. E \in Seq(Bytes) /\ Len(E) = 9 + 7 * m /\ E[9 + 7 * m] = <<PacketClose>>
  <2>1. (8 + 7 * m) + 1 = 9 + 7 * m /\ 9 + 7 * m \in 1..((8 + 7 * m) + 1) /\ ~(9 + 7 * m <= 8 + 7 * m)
        /\ (9 + 7 * m) - (8 + 7 * m) = 1
    BY <1>0
  <2> QED
    BY <2>1, <1>5, <1>9
<1> QED
  BY <1>3, <1>10, <1>12, <1>13, <1>14, <1>15 DEF m

-----------------------------------------------------------------------------
(* What Decode asks for fits what Encode wrote.                            *)

(* What Decode asks for, item by item.                                     *)
LEMMA PacketFieldsFacts ==
    /\ PacketFields \in Seq(Fields) /\ Len(PacketFields) = 8
    /\ PacketFields[1] = Tag(PacketOpen) /\ PacketFields[2] = Field("meta") /\ PacketFields[3] = Tag(Sep)
    /\ PacketFields[4] = Field("meta") /\ PacketFields[5] = Tag(Sep) /\ PacketFields[6] = Field("meta")
    /\ PacketFields[7] = Tag(Sep) /\ PacketFields[8] = Field("count")
<1>1. Tag(PacketOpen) \in Fields /\ Field("meta") \in Fields /\ Tag(Sep) \in Fields /\ Field("count") \in Fields
  BY DEF Tag, Field, Fields, PacketOpen, Sep
<1> QED
  BY <1>1 DEF PacketFields

(* The seven fields of a module.                                           *)
LEMMA ModuleFieldsFacts ==
    /\ ModuleFields \in Seq(Fields) /\ Len(ModuleFields) = 7
    /\ ModuleFields[1] = Tag(ModuleOpen) /\ ModuleFields[2] = Field("id") /\ ModuleFields[3] = Tag(Sep)
    /\ ModuleFields[4] = Field("size") /\ ModuleFields[5] = Tag(Sep) /\ ModuleFields[6] = Field("payload")
    /\ ModuleFields[7] = Tag(ModuleClose)
<1>1. Tag(ModuleOpen) \in Fields /\ Field("id") \in Fields /\ Tag(Sep) \in Fields /\ Field("size") \in Fields
      /\ Field("payload") \in Fields /\ Tag(ModuleClose) \in Fields
  BY DEF Tag, Field, Fields, ModuleOpen, ModuleClose, Sep
<1> QED
  BY <1>1 DEF ModuleFields

(* What a tag or a field to read says of itself.                           *)
LEMMA TagFacts ==
  /\ \A t : Tag(t).kind = "tag" /\ Tag(t).t = t
  /\ \A k : Field(k).kind = k
BY DEF Tag, Field

(* A packet with its order.                                                *)
LEMMA SendingFacts ==
  ASSUME NEW x \in Sending
  PROVE  /\ x.packet \in Packets /\ x.order \in SetToSeqs(DOMAIN x.packet.modules)
         /\ Count(x) \in 1..255 /\ DOMAIN x.order = 1..Count(x)
         /\ \A y \in 1..Count(x) : x.order[y] \in DOMAIN x.packet.modules
         /\ {x.order[y] : y \in 1..Count(x)} = DOMAIN x.packet.modules
<1>1. PICK p \in Packets : x \in [packet : {p}, order : SetToSeqs(DOMAIN p.modules)]
  BY DEF Sending
<1>2. x.packet = p /\ x.order \in SetToSeqs(DOMAIN p.modules)
  BY <1>1
<1>3. /\ x.order \in Seq(DOMAIN p.modules) /\ Len(x.order) \in 1..255 /\ DOMAIN x.order = 1..Len(x.order)
      /\ {x.order[y] : y \in 1..Len(x.order)} = DOMAIN p.modules
  BY <1>2, OrderFacts
<1>4. \A y \in 1..Len(x.order) : x.order[y] \in DOMAIN p.modules
  BY <1>3
<1> QED
  BY <1>2, <1>3, <1>4 DEF Count

(* The i-th write of the head, and the q-th of a module. *)
LEMMA WritesAt ==
  ASSUME NEW x \in Sending
  PROVE  /\ Writes(x) \in Seq(Bytes) /\ Len(Writes(x)) = 9 + 7 * Count(x)
         /\ Writes(x)[1] = <<PacketOpen>> /\ Writes(x)[2] = <<x.packet.meta[1]>>
         /\ Writes(x)[3] = <<Sep>> /\ Writes(x)[4] = <<x.packet.meta[2]>>
         /\ Writes(x)[5] = <<Sep>> /\ Writes(x)[6] = <<x.packet.meta[3]>>
         /\ Writes(x)[7] = <<Sep>> /\ Writes(x)[8] = <<Count(x)>>
         /\ \A i \in 0..(Count(x) - 1), q \in 0..6 :
              Writes(x)[8 + 7 * i + q + 1] = EncodeModule(x.order[i + 1], x.packet.modules[x.order[i + 1]])[q + 1]
         /\ Writes(x)[9 + 7 * Count(x)] = <<PacketClose>>
<1>1. x.packet \in Packets /\ x.order \in SetToSeqs(DOMAIN x.packet.modules) /\ Count(x) \in 1..255
  BY SendingFacts
<1> DEFINE W == Writes(x)
           m == Count(x)
<1>2. /\ W \in Seq(Bytes) /\ Len(W) = 9 + 7 * m
      /\ W[1] = <<PacketOpen>>
      /\ W[2] = <<x.packet.meta[1]>> /\ W[3] = <<Sep>> /\ W[4] = <<x.packet.meta[2]>> /\ W[5] = <<Sep>>
      /\ W[6] = <<x.packet.meta[3]>> /\ W[7] = <<Sep>> /\ W[8] = <<m>>
      /\ \A i \in 1..m, j \in 1..7 :
           W[8 + (7 * (i - 1) + j)] = EncodeModule(x.order[i], x.packet.modules[x.order[i]])[j]
      /\ W[9 + 7 * m] = <<PacketClose>>
  BY <1>1, PacketWrites DEF Writes, Count
<1> HIDE DEF W, m
<1>3. ASSUME NEW i \in 0..(m - 1), NEW q \in 0..6
      PROVE  W[8 + 7 * i + q + 1] = EncodeModule(x.order[i + 1], x.packet.modules[x.order[i + 1]])[q + 1]
  <2>1. m \in 1..255
    BY <1>1 DEF m
  <2>2. i + 1 \in 1..m /\ q + 1 \in 1..7
    BY <2>1
  <2>3. W[8 + (7 * ((i + 1) - 1) + (q + 1))] = EncodeModule(x.order[i + 1], x.packet.modules[x.order[i + 1]])[q + 1]
    BY <1>2, <2>2
  <2>4. 8 + (7 * ((i + 1) - 1) + (q + 1)) = 8 + 7 * i + q + 1
    BY <2>1
  <2> QED
    BY <2>3, <2>4
<1> QED
  BY <1>2, <1>3 DEF W, m

(* The items of a module repeat after seven.                               *)
LEMMA ModSeven == \A i \in Nat, q \in 0..6 : ((8 + 7 * i + q + 1 - 9) % 7) + 1 = q + 1
OBVIOUS

(* FieldAt, item by item.                                                  *)
LEMMA FieldFacts ==
  ASSUME NEW m \in Nat
  PROVE  /\ FieldAt(m, 1) = Tag(PacketOpen) /\ FieldAt(m, 2) = Field("meta") /\ FieldAt(m, 3) = Tag(Sep)
         /\ FieldAt(m, 4) = Field("meta") /\ FieldAt(m, 5) = Tag(Sep) /\ FieldAt(m, 6) = Field("meta")
         /\ FieldAt(m, 7) = Tag(Sep) /\ FieldAt(m, 8) = Field("count")
         /\ \A i \in 0..(m - 1), q \in 0..6 : FieldAt(m, 8 + 7 * i + q + 1) = ModuleFields[q + 1]
         /\ FieldAt(m, 9 + 7 * m) = Tag(PacketClose)
<1>1. \A c \in 1..8 : FieldAt(m, c) = PacketFields[c]
  BY DEF FieldAt
<1>2. ASSUME NEW i \in 0..(m - 1), NEW q \in 0..6 PROVE FieldAt(m, 8 + 7 * i + q + 1) = ModuleFields[q + 1]
  <2>1. ~(8 + 7 * i + q + 1 <= 8) /\ 8 + 7 * i + q + 1 <= 8 + 7 * m
    OBVIOUS
  <2>2. ((8 + 7 * i + q + 1 - 9) % 7) + 1 = q + 1
    BY ModSeven
  <2> QED
    BY <2>1, <2>2 DEF FieldAt
<1>3. FieldAt(m, 9 + 7 * m) = Tag(PacketClose)
  BY DEF FieldAt
<1> QED
  BY <1>1, <1>2, <1>3, PacketFieldsFacts

(* The next item, and when it is the last of the list.                     *)
LEMMA WantedHead ==
  ASSUME NEW x \in Sending, NEW e, Progress(x, e)
  PROVE  /\ e \in 0..(8 + 7 * Count(x)) /\ want # <<>> /\ Head(want) = FieldAt(Count(x), e + 1)
         /\ Len(want) = 1 <=> (e = 7 \/ e = 8 + 7 * Count(x))
<1> DEFINE m == Count(x)
<1>1. m \in Nat /\ m >= 1 /\ e \in Nat
  <2>1. m \in 1..255
    BY SendingFacts
  <2> HIDE DEF m
  <2> QED
    BY <2>1 DEF Progress
<1>2. e < 8 \/ \E i \in 0..m, q \in 0..6 : e = 8 + 7 * i + q /\ (i = m => q = 0)
  BY DEF Progress, Half, Body
<1>3. want \in Seq(Fields) /\ Len(want) = (IF e < 8 THEN 8 ELSE 9 + 7 * m) - e
      /\ \A j \in 1..Len(want) : want[j] = FieldAt(m, e + j)
  BY DEF Progress, Wanted
<1> HIDE DEF m
<1>4. e \in 0..(8 + 7 * m)
  <2>1. CASE e < 8
    BY <1>1, <2>1
  <2>2. CASE \E i \in 0..m, q \in 0..6 : e = 8 + 7 * i + q /\ (i = m => q = 0)
    <3>1. PICK i \in 0..m, q \in 0..6 : e = 8 + 7 * i + q /\ (i = m => q = 0)
      BY <2>2
    <3>2. i \in Nat /\ q \in Nat /\ (i = m \/ i + 1 <= m)
      BY <1>1
    <3> QED
      BY <1>1, <3>1, <3>2
  <2> QED
    BY <1>2, <2>1, <2>2
<1>5. Len(want) >= 1 /\ (Len(want) = 1 <=> (e = 7 \/ e = 8 + 7 * m))
  BY <1>1, <1>3, <1>4
<1>6. want # <<>> /\ Head(want) = want[1]
  BY <1>3, <1>5
<1> QED
  BY <1>3, <1>4, <1>5, <1>6 DEF m

(* What the reader asks for next is what was written next. *)
LEMMA Fits ==
  ASSUME NEW x \in Sending, NEW e, Progress(x, e)
  PROVE  LET b == Writes(x)[e + 1]
         IN  /\ e + 1 \in 1..Len(Writes(x)) /\ b \in Bytes
             /\ IF Head(want).kind = "tag" THEN b = <<Head(want).t>> /\ e # 7
                ELSE Len(b) = Width(Head(want).kind) /\ Len(b) >= 1
<1> DEFINE m == Count(x)
           W == Writes(x)
<1>1. m \in 1..255 /\ e \in 0..(8 + 7 * m) /\ Head(want) = FieldAt(m, e + 1)
  BY SendingFacts, WantedHead
<1>2. W \in Seq(Bytes) /\ Len(W) = 9 + 7 * m
  BY WritesAt
<1>3. e + 1 \in 1..Len(W) /\ W[e + 1] \in Bytes
  <2> HIDE DEF W, m
  <2> QED
    BY <1>1, <1>2
<1>7. /\ W[1] = <<PacketOpen>> /\ W[3] = <<Sep>> /\ W[5] = <<Sep>> /\ W[7] = <<Sep>>
      /\ Len(W[2]) = 1 /\ Len(W[4]) = 1 /\ Len(W[6]) = 1 /\ Len(W[8]) = 1
      /\ W[9 + 7 * m] = <<PacketClose>>
  <2>1. /\ W[1] = <<PacketOpen>> /\ W[2] = <<x.packet.meta[1]>>
        /\ W[3] = <<Sep>> /\ W[4] = <<x.packet.meta[2]>>
        /\ W[5] = <<Sep>> /\ W[6] = <<x.packet.meta[3]>>
        /\ W[7] = <<Sep>> /\ W[8] = <<m>> /\ W[9 + 7 * m] = <<PacketClose>>
    BY WritesAt
  <2> HIDE DEF W, m
  <2>2. \A y : Len(<<y>>) = 1
    OBVIOUS
  <2> QED
    BY <2>1, <2>2
<1>8. \A i \in 0..(m - 1), q \in 0..6 :
        W[8 + 7 * i + q + 1] = EncodeModule(x.order[i + 1], x.packet.modules[x.order[i + 1]])[q + 1]
  BY WritesAt
<1>9. \A y \in 1..m : x.order[y] \in DOMAIN x.packet.modules
  BY SendingFacts
<1>10. ~(e < 8) => \E i \in 0..m, q \in 0..6 :
                      /\ e = 8 + 7 * i + q /\ (i = m => q = 0)
                      /\ q >= 2 => part.id = x.order[i + 1]
                      /\ q >= 4 => part.size = Len(x.packet.modules[x.order[i + 1]])
  BY DEF Progress, Half, Body
<1> DEFINE Fit == IF Head(want).kind = "tag" THEN W[e + 1] = <<Head(want).t>> /\ e # 7
                  ELSE Len(W[e + 1]) = Width(Head(want).kind) /\ Len(W[e + 1]) >= 1
<1> SUFFICES Fit
  BY <1>3
<1> HIDE DEF W, m
<1>4. CASE e < 8
  <2>1. e \in 0..7
    BY <1>1, <1>4
  <2>3. /\ FieldAt(m, 1) = Tag(PacketOpen) /\ FieldAt(m, 2) = Field("meta") /\ FieldAt(m, 3) = Tag(Sep)
        /\ FieldAt(m, 4) = Field("meta") /\ FieldAt(m, 5) = Tag(Sep) /\ FieldAt(m, 6) = Field("meta")
        /\ FieldAt(m, 7) = Tag(Sep) /\ FieldAt(m, 8) = Field("count")
    <3>1. m \in Nat
      BY <1>1
    <3> QED
      BY <3>1, FieldFacts
  <2>4. Width("meta") = 1 /\ Width("count") = 1
    BY DEF Width
  <2>5. CASE e \in {0, 2, 4, 6}
    <3>1. \/ Head(want) = Tag(PacketOpen) /\ W[e + 1] = <<PacketOpen>>
          \/ Head(want) = Tag(Sep) /\ W[e + 1] = <<Sep>>
      BY <1>1, <1>7, <2>3, <2>5
    <3> QED
      BY <3>1, <2>5, TagFacts
  <2>6. CASE e \in {1, 3, 5, 7}
    <3>1. (Head(want) = Field("meta") \/ Head(want) = Field("count")) /\ Len(W[e + 1]) = 1
      BY <1>1, <1>7, <2>3, <2>6
    <3> QED
      BY <3>1, <2>4, TagFacts
  <2> QED
    BY <2>1, <2>5, <2>6
<1>5. CASE e = 8 + 7 * m
  <2>1. W[e + 1] = <<PacketClose>> /\ Head(want) = Tag(PacketClose)
    <3>1. e + 1 = 9 + 7 * m
      BY <1>1, <1>5
    <3>3. m \in Nat
      BY <1>1
    <3>2. FieldAt(m, 9 + 7 * m) = Tag(PacketClose)
      BY <3>3, FieldFacts
    <3> QED
      BY <1>1, <1>7, <3>1, <3>2
  <2>2. e # 7
    BY <1>1, <1>5
  <2> QED
    BY <2>1, <2>2, TagFacts
<1>6. CASE ~(e < 8) /\ e # 8 + 7 * m
  <2>2. PICK i \in 0..m, q \in 0..6 :
          /\ e = 8 + 7 * i + q /\ (i = m => q = 0)
          /\ q >= 2 => part.id = x.order[i + 1]
          /\ q >= 4 => part.size = Len(x.packet.modules[x.order[i + 1]])
    BY <1>6, <1>10
  <2>3. i \in 0..(m - 1)
    <3>1. i # m
      BY <1>6, <2>2
    <3> QED
      BY <1>1, <3>1
  <2> DEFINE d == x.order[i + 1]
             p == x.packet.modules[d]
             M == EncodeModule(d, p)
  <2>4. W[e + 1] = M[q + 1] /\ Head(want) = ModuleFields[q + 1]
    <3>1. e + 1 = 8 + 7 * i + q + 1
      BY <2>2
    <3>2. W[8 + 7 * i + q + 1] = M[q + 1] /\ FieldAt(m, 8 + 7 * i + q + 1) = ModuleFields[q + 1]
      <4>1. m \in Nat
        BY <1>1
      <4>2. FieldAt(m, 8 + 7 * i + q + 1) = ModuleFields[q + 1]
        BY <4>1, <2>3, FieldFacts
      <4> QED
        BY <4>2, <1>8, <2>3
    <3> QED
      BY <1>1, <3>1, <3>2
  <2>5. /\ M[1] = <<ModuleOpen>> /\ M[2] = d /\ M[3] = <<Sep>> /\ Len(M[4]) = 2 /\ M[5] = <<Sep>>
        /\ M[6] = p /\ M[7] = <<ModuleClose>> /\ Len(d) = 2 /\ Len(p) \in Nat /\ Len(p) >= 1
    <3>1. x.packet \in Packets /\ d \in DOMAIN x.packet.modules
      <4>1. i + 1 \in 1..m
        BY <1>1, <2>3
      <4> QED
        BY <4>1, <1>9, SendingFacts
    <3>2. Len(d) = 2 /\ Len(p) \in 1..(Base * Base - 1)
      BY <3>1, PacketFacts
    <3>3. /\ M[1] = <<ModuleOpen>> /\ M[2] = d /\ M[3] = <<Sep>>
          /\ M[4] = <<Len(p) \div Base, Len(p) % Base>> /\ M[5] = <<Sep>>
          /\ M[6] = p /\ M[7] = <<ModuleClose>>
      BY <3>1, ModuleWrites
    <3> HIDE DEF M, p, d
    <3> QED
      BY <3>2, <3>3
  <2>6. e # 7
    BY <1>6
  <2>7. Width("id") = 2 /\ Width("size") = 2 /\ Width("payload") = part.size
    BY DEF Width
  <2> HIDE DEF M, p
  <2>8. CASE q \in {0, 2, 4, 6}
    <3>1. \/ Head(want) = Tag(ModuleOpen) /\ W[e + 1] = <<ModuleOpen>>
          \/ Head(want) = Tag(Sep) /\ W[e + 1] = <<Sep>>
          \/ Head(want) = Tag(ModuleClose) /\ W[e + 1] = <<ModuleClose>>
      BY <2>4, <2>5, <2>8, ModuleFieldsFacts
    <3> QED
      BY <3>1, <2>6, TagFacts
  <2>9. CASE q \in {1, 3}
    <3>1. (Head(want) = Field("id") \/ Head(want) = Field("size")) /\ Len(W[e + 1]) = 2
      BY <2>4, <2>5, <2>9, ModuleFieldsFacts
    <3> QED
      BY <3>1, <2>7, TagFacts
  <2>10. CASE q = 5
    <3>1. Head(want) = Field("payload") /\ W[e + 1] = p /\ part.size = Len(p)
      BY <2>2, <2>4, <2>5, <2>10, ModuleFieldsFacts DEF p
    <3> QED
      BY <3>1, <2>5, <2>7, TagFacts
  <2> QED
    BY <2>8, <2>9, <2>10
<1> QED
  BY <1>4, <1>5, <1>6

-----------------------------------------------------------------------------
(* What Decode makes of what it reads.                                     *)

(* Kinds of items.                                                         *)
LEMMA KindFacts ==
    /\ Tag(PacketOpen).kind = "tag" /\ Tag(PacketClose).kind = "tag" /\ Tag(Sep).kind = "tag"
    /\ Tag(ModuleOpen).kind = "tag" /\ Tag(ModuleClose).kind = "tag"
    /\ Field("meta").kind = "meta" /\ Field("count").kind = "count" /\ Field("id").kind = "id"
    /\ Field("size").kind = "size" /\ Field("payload").kind = "payload"
BY DEF Tag, Field

(* Where in the packet the reader is, and what kind of thing comes next. *)
LEMMA Where ==
  ASSUME NEW x \in Sending, NEW e, Progress(x, e)
  PROVE  \/ /\ e \in {0, 2, 4, 6} /\ Head(want).kind = "tag" /\ Half(x, e)
         \/ /\ e \in {1, 3, 5} /\ Head(want).kind = "meta" /\ Half(x, e)
         \/ /\ e = 7 /\ Head(want).kind = "count" /\ Half(x, e)
         \/ /\ e = 8 + 7 * Count(x) /\ Head(want).kind = "tag" /\ Body(x, e)
         \/ /\ e >= 8 /\ e < 8 + 7 * Count(x) /\ Body(x, e)
            /\ \A i \in 0..(Count(x) - 1), q \in 0..6 :
                 e = 8 + 7 * i + q => Head(want) = ModuleFields[q + 1]
<1> DEFINE m == Count(x)
<1>1. m \in Nat /\ m >= 1
  <2>1. m \in 1..255
    BY SendingFacts
  <2> HIDE DEF m
  <2> QED
    BY <2>1
<1>2. e \in 0..(8 + 7 * m) /\ Head(want) = FieldAt(m, e + 1)
  BY WantedHead
<1>3. /\ FieldAt(m, 1) = Tag(PacketOpen) /\ FieldAt(m, 2) = Field("meta") /\ FieldAt(m, 3) = Tag(Sep)
      /\ FieldAt(m, 4) = Field("meta") /\ FieldAt(m, 5) = Tag(Sep) /\ FieldAt(m, 6) = Field("meta")
      /\ FieldAt(m, 7) = Tag(Sep) /\ FieldAt(m, 8) = Field("count")
      /\ \A i \in 0..(m - 1), q \in 0..6 : FieldAt(m, 8 + 7 * i + q + 1) = ModuleFields[q + 1]
      /\ FieldAt(m, 9 + 7 * m) = Tag(PacketClose)
  BY <1>1, FieldFacts
<1>4. Half(x, e) \/ Body(x, e)
  BY DEF Progress
<1>5. Half(x, e) => e < 8
  BY DEF Half
<1>6. Body(x, e) => e >= 8
  <2> SUFFICES ASSUME Body(x, e) PROVE e >= 8
    OBVIOUS
  <2>1. PICK i \in 0..m, q \in 0..6 : e = 8 + 7 * i + q
    BY DEF Body
  <2> HIDE DEF m
  <2>2. i \in Nat /\ q \in Nat
    BY <1>1
  <2> QED
    BY <2>1, <2>2
<1> HIDE DEF m
<1>7. CASE e < 8
  <2>1. Half(x, e) /\ e \in {0, 1, 2, 3, 4, 5, 6, 7}
    BY <1>1, <1>2, <1>4, <1>6, <1>7
  <2>2. e \in {0, 2, 4, 6} => Head(want) = Tag(PacketOpen) \/ Head(want) = Tag(Sep)
    BY <1>2, <1>3
  <2>3. e \in {1, 3, 5} => Head(want) = Field("meta")
    BY <1>2, <1>3
  <2>4. e = 7 => Head(want) = Field("count")
    BY <1>2, <1>3
  <2> QED
    BY <2>1, <2>2, <2>3, <2>4, KindFacts
<1>8. CASE e = 8 + 7 * m
  <2>1. e + 1 = 9 + 7 * m /\ ~(e < 8)
    BY <1>1, <1>8
  <2>2. Head(want) = Tag(PacketClose)
    BY <1>2, <1>3, <2>1
  <2> QED
    BY <1>4, <1>5, <1>8, <2>1, <2>2, KindFacts DEF m
<1>9. CASE e >= 8 /\ e < 8 + 7 * m
  <2>1. \A i \in 0..(m - 1), q \in 0..6 : e = 8 + 7 * i + q => Head(want) = ModuleFields[q + 1]
    BY <1>2, <1>3
  <2>2. ~(e < 8)
    BY <1>1, <1>2, <1>9
  <2>3. Body(x, e)
    BY <1>4, <1>5, <2>2
  <2> QED
    BY <1>9, <2>1, <2>3 DEF m
<1> QED
  BY <1>1, <1>2, <1>7, <1>8, <1>9

(* One item less to read.                                                  *)
LEMMA TailWanted ==
  ASSUME NEW x \in Sending, NEW e, Progress(x, e), e # 7, e # 8 + 7 * Count(x), want' = Tail(want)
  PROVE  e + 1 \in Nat /\ Wanted(x, e + 1)'
<1> DEFINE m == Count(x)
<1>1. m \in Nat /\ e \in 0..(8 + 7 * m) /\ e # 8 + 7 * m
  <2>1. m \in 1..255
    BY SendingFacts
  <2>2. e \in 0..(8 + 7 * m)
    BY WantedHead
  <2>3. e # 8 + 7 * m
    OBVIOUS
  <2> HIDE DEF m
  <2> QED
    BY <2>1, <2>2, <2>3
<1>2. want \in Seq(Fields) /\ Len(want) = (IF e < 8 THEN 8 ELSE 9 + 7 * m) - e
      /\ \A j \in 1..Len(want) : want[j] = FieldAt(m, e + j)
  BY DEF Progress, Wanted
<1> HIDE DEF m
<1> DEFINE n == IF e < 8 THEN 8 ELSE 9 + 7 * m
<1>3. n \in Nat /\ n - e > 1 /\ n = IF e + 1 < 8 THEN 8 ELSE 9 + 7 * m
  BY <1>1
<1> HIDE DEF n
<1>4. Len(want) = n - e
  BY <1>2 DEF n
<1>5. want' \in Seq(Fields) /\ Len(want') = n - (e + 1) /\ \A j \in 1..Len(want') : want'[j] = want[j + 1]
  BY <1>1, <1>2, <1>3, <1>4
<1>6. ASSUME NEW j \in 1..Len(want') PROVE want'[j] = FieldAt(m, (e + 1) + j)
  <2>1. j + 1 \in 1..Len(want) /\ e + (j + 1) = (e + 1) + j
    BY <1>1, <1>3, <1>4, <1>5
  <2> QED
    BY <1>2, <1>5, <2>1
<1>7. e + 1 \in Nat
  BY <1>1
<1> QED
  BY <1>3, <1>5, <1>6, <1>7 DEF Wanted, m

(* A tag is read: nothing else changes.                                    *)
LEMMA TagRead ==
  ASSUME NEW x \in Sending, NEW e, Progress(x, e), Head(want).kind = "tag", Len(want) # 1,
         want' = Tail(want), part' = part
  PROVE  Progress(x, e + 1)'
<1> DEFINE m == Count(x)
<1>1. e # 7 /\ e # 8 + 7 * m
  BY WantedHead
<1>2. e + 1 \in Nat /\ Wanted(x, e + 1)'
  BY <1>1, TailWanted
<1>3. DOMAIN part' = PartNames
  BY DEF Progress
<1>4. CASE e \in {0, 2, 4, 6} /\ Half(x, e)
  <2>1. (e + 1) \div 2 = e \div 2 /\ e + 1 < 8
    BY <1>4
  <2>2. Half(x, e + 1)'
    BY <1>4, <2>1 DEF Half
  <2> QED
    BY <1>2, <1>3, <2>2 DEF Progress
<1>5. CASE e >= 8 /\ e < 8 + 7 * m /\ Body(x, e)
           /\ \A i \in 0..(m - 1), q \in 0..6 : e = 8 + 7 * i + q => Head(want) = ModuleFields[q + 1]
  <2>1. PICK i \in 0..m, q \in 0..6 :
          /\ e = 8 + 7 * i + q /\ (i = m => q = 0)
          /\ part.meta = x.packet.meta
          /\ DOMAIN part.modules = {x.order[y] : y \in 1..(IF q = 6 THEN i + 1 ELSE i)}
          /\ \A id \in DOMAIN part.modules : part.modules[id] = x.packet.modules[id]
          /\ q >= 2 => part.id = x.order[i + 1]
          /\ q >= 4 => part.size = Len(x.packet.modules[x.order[i + 1]])
    BY <1>5 DEF Body
  <2>0. m \in Nat /\ i \in Nat /\ i # m /\ i + 1 \in 0..m /\ i \in 0..(m - 1)
    <3>1. m \in 1..255
      BY SendingFacts
    <3> HIDE DEF m
    <3>2. i # m
      BY <1>5, <2>1
    <3> QED
      BY <3>1, <3>2
  <2>2. Head(want) = ModuleFields[q + 1]
    BY <1>5, <2>0, <2>1
  <2>3. q \in {0, 2, 4, 6}
    <3>1. q \in {1, 3, 5} => Head(want).kind # "tag"
      BY <2>2, ModuleFieldsFacts, KindFacts
    <3> QED
      BY <3>1
  <2>4. Body(x, e + 1)'
    <3> HIDE DEF m
    <3>1. CASE q = 6
      <4>1. e + 1 = 8 + 7 * (i + 1) + 0
        BY <2>0, <2>1, <3>1
      <4>2. /\ e + 1 = 8 + 7 * (i + 1) + 0 /\ (i + 1 = m => 0 = 0)
            /\ part'.meta = x.packet.meta
            /\ DOMAIN part'.modules = {x.order[y] : y \in 1..(i + 1)}
            /\ \A id \in DOMAIN part'.modules : part'.modules[id] = x.packet.modules[id]
        BY <2>1, <3>1, <4>1
      <4>3. ~(0 >= 2) /\ ~(0 >= 4) /\ 0 # 6 /\ 0 \in 0..6 /\ i + 1 \in 0..Count(x)
        BY <2>0 DEF m
      <4> QED
        BY <4>2, <4>3 DEF Body, m
    <3>2. CASE q \in {0, 2, 4}
      <4>1. /\ e + 1 = 8 + 7 * i + (q + 1) /\ q + 1 # 6 /\ q # 6 /\ q + 1 \in 0..6
            /\ (q + 1 >= 2 => q >= 2) /\ (q + 1 >= 4 => q >= 4)
        BY <2>0, <2>1, <3>2
      <4>2. /\ e + 1 = 8 + 7 * i + (q + 1) /\ (i = m => q + 1 = 0)
            /\ part'.meta = x.packet.meta
            /\ DOMAIN part'.modules = {x.order[y] : y \in 1..(IF q + 1 = 6 THEN i + 1 ELSE i)}
            /\ \A id \in DOMAIN part'.modules : part'.modules[id] = x.packet.modules[id]
            /\ q + 1 >= 2 => part'.id = x.order[i + 1]
            /\ q + 1 >= 4 => part'.size = Len(x.packet.modules[x.order[i + 1]])
        BY <2>0, <2>1, <4>1
      <4> QED
        BY <4>1, <4>2 DEF Body, m
    <3> QED
      BY <2>3, <3>1, <3>2
  <2> QED
    BY <1>2, <1>3, <2>4 DEF Progress
<1> QED
  BY <1>1, <1>4, <1>5, Where

(* The closing tag: the packet is whole. *)
LEMMA Complete ==
  ASSUME NEW x \in Sending, NEW e, Progress(x, e), Head(want).kind = "tag", Len(want) = 1
  PROVE  /\ SamePacket([meta |-> part.meta, modules |-> part.modules], x.packet)
         /\ e = 8 + 7 * Count(x)
<1> DEFINE m == Count(x)
<1>0. m \in Nat /\ m >= 1
  <2>1. m \in 1..255
    BY SendingFacts
  <2> HIDE DEF m
  <2> QED
    BY <2>1
<1>1. e = 8 + 7 * m /\ Body(x, e)
  <2>1. e = 7 \/ e = 8 + 7 * m
    BY WantedHead
  <2> HIDE DEF m
  <2>2. ~(8 + 7 * m < 8) /\ 8 + 7 * m \notin {0, 1, 2, 3, 4, 5, 6, 7}
    BY <1>0
  <2> QED
    BY <2>1, <2>2, Where DEF m
<1>2. PICK i \in 0..m, q \in 0..6 :
        /\ e = 8 + 7 * i + q /\ (i = m => q = 0)
        /\ part.meta = x.packet.meta
        /\ DOMAIN part.modules = {x.order[y] : y \in 1..(IF q = 6 THEN i + 1 ELSE i)}
        /\ \A id \in DOMAIN part.modules : part.modules[id] = x.packet.modules[id]
  BY <1>1 DEF Body
<1>3. i = m /\ q = 0
  <2> HIDE DEF m
  <2>1. i \in Nat /\ q \in Nat /\ (i = m \/ i + 1 <= m) /\ q <= 6
    BY <1>0
  <2>2. 8 + 7 * m = 8 + 7 * i + q
    BY <1>1, <1>2 DEF m
  <2>3. i + 1 <= m => FALSE
    BY <1>0, <2>1, <2>2
  <2> QED
    BY <1>2, <2>1, <2>3
<1>4. DOMAIN part.modules = DOMAIN x.packet.modules
  BY <1>2, <1>3, SendingFacts
<1> QED
  BY <1>1, <1>2, <1>4 DEF SamePacket

(* The rest of the head of a packet.                                       *)
LEMMA SubSeqFacts ==
  ASSUME NEW F \in Seq(Fields), Len(F) = 8, NEW e \in {0, 1}
  PROVE  /\ SubSeq(F, e + 1, 8) \in Seq(Fields) /\ Len(SubSeq(F, e + 1, 8)) = 8 - e
         /\ \A j \in 1..(8 - e) : SubSeq(F, e + 1, 8)[j] = F[e + j]
<1>1. \A i \in (e + 1)..8 : F[i] \in Fields
  BY ElementOfSeq
<1>2. e + 1 \in Int /\ 8 \in Int /\ e + 1 <= 8 /\ 8 - (e + 1) + 1 = 8 - e
  OBVIOUS
<1>3. SubSeq(F, e + 1, 8) \in Seq(Fields)
  BY <1>1, <1>2, SubSeqProperties
<1>4. Len(SubSeq(F, e + 1, 8)) = IF e + 1 <= 8 THEN 8 - (e + 1) + 1 ELSE 0
  BY <1>1, <1>2, SubSeqProperties
<1>5. \A i \in 1..(8 - (e + 1) + 1) : SubSeq(F, e + 1, 8)[i] = F[(e + 1) + i - 1]
  BY <1>1, <1>2, SubSeqProperties
<1> QED
  BY <1>2, <1>3, <1>4, <1>5

(* A packet of which nothing is read yet, or its opening tag. *)
LEMMA FreshWanted ==
  ASSUME NEW x \in Sending, NEW e \in {0, 1}, want' = SubSeq(PacketFields, e + 1, 8), part' = Empty
  PROVE  Progress(x, e)'
<1>1. DOMAIN part' = PartNames /\ part'.meta = <<>>
  BY DEF Empty, PartNames
<1>2. x.packet.meta \in Seq(Byte) /\ Len(x.packet.meta) = 3
  BY SendingFacts, PacketFacts
<1>3. Half(x, e)'
  <2>1. e \div 2 = 0
    OBVIOUS
  <2>2. SubSeq(x.packet.meta, 1, 0) = <<>>
    BY <1>2
  <2> QED
    BY <1>1, <2>1, <2>2 DEF Half
<1>4. /\ want' \in Seq(Fields) /\ Len(want') = 8 - e
      /\ \A j \in 1..(8 - e) : want'[j] = PacketFields[e + j]
  <2>1. PacketFields \in Seq(Fields) /\ Len(PacketFields) = 8 /\ e \in {0, 1}
    BY PacketFieldsFacts
  <2> DEFINE F == PacketFields
  <2>2. F \in Seq(Fields) /\ Len(F) = 8 /\ want' = SubSeq(F, e + 1, 8)
    BY <2>1
  <2> HIDE DEF F
  <2>3. /\ SubSeq(F, e + 1, 8) \in Seq(Fields) /\ Len(SubSeq(F, e + 1, 8)) = 8 - e
        /\ \A j \in 1..(8 - e) : SubSeq(F, e + 1, 8)[j] = F[e + j]
    BY <2>2, SubSeqFacts
  <2> QED
    BY <2>2, <2>3 DEF F
<1>5. \A j \in 1..(8 - e) : want'[j] = FieldAt(Count(x), e + j)
  BY <1>4 DEF FieldAt
<1>6. e \in Nat /\ (IF e < 8 THEN 8 ELSE 9 + 7 * Count(x)) - e = 8 - e
  OBVIOUS
<1>7. Wanted(x, e)'
  BY <1>4, <1>5, <1>6 DEF Wanted
<1> QED
  BY <1>1, <1>3, <1>6, <1>7 DEF Progress

(* A byte of the metadata. *)
LEMMA MetaRead ==
  ASSUME NEW x \in Sending, NEW e \in {1, 3, 5}, Progress(x, e), Half(x, e),
         part' = Filled("meta", Writes(x)[e + 1])
  PROVE  Half(x, e + 1)' /\ DOMAIN part' = PartNames
<1> DEFINE M == x.packet.meta
           b == Writes(x)[e + 1]
           k == e \div 2
<1>1. M \in Seq(Byte) /\ Len(M) = 3
  BY SendingFacts, PacketFacts
<1>2. k \in {0, 1, 2} /\ (e + 1) \div 2 = k + 1 /\ e + 1 < 8
  OBVIOUS
<1>3. b = <<M[k + 1]>>
  <2>1. Writes(x)[2] = <<M[1]>> /\ Writes(x)[4] = <<M[2]>> /\ Writes(x)[6] = <<M[3]>>
    BY WritesAt
  <2>2. (e = 1 => k + 1 = 1 /\ e + 1 = 2) /\ (e = 3 => k + 1 = 2 /\ e + 1 = 4) /\ (e = 5 => k + 1 = 3 /\ e + 1 = 6)
    OBVIOUS
  <2> HIDE DEF k, M
  <2> QED
    BY <2>1, <2>2
<1>4. DOMAIN part = PartNames /\ part.meta = SubSeq(M, 1, k) /\ part.modules = Empty.modules
  BY DEF Progress, Half
<1>5. part' = [part EXCEPT !.meta = Append(@, b[1])]
  BY DEF Filled, FilledWith
<1> HIDE DEF M, b, k
<1>6. b[1] = M[k + 1]
  BY <1>3
<1>7. Append(SubSeq(M, 1, k), M[k + 1]) = SubSeq(M, 1, k + 1)
  BY <1>1, <1>2
<1>8. DOMAIN part' = PartNames /\ part'.modules = part.modules /\ part'.meta = Append(part.meta, b[1])
  BY <1>4, <1>5 DEF PartNames
<1>9. part'.meta = SubSeq(M, 1, k + 1)
  BY <1>4, <1>6, <1>7, <1>8
<1> QED
  BY <1>2, <1>4, <1>8, <1>9 DEF Half, M, k

(* What is left to read once the number of modules is known. *)
LEMMA RestOfPacket ==
  ASSUME NEW m \in Nat
  PROVE  LET w == [i \in 1..(7 * m) |-> ModuleFields[((i - 1) % 7) + 1]] \o <<Tag(PacketClose)>>
         IN  w \in Seq(Fields) /\ Len(w) = 7 * m + 1 /\ \A j \in 1..(7 * m + 1) : w[j] = FieldAt(m, 8 + j)
<1> DEFINE n == 7 * m
           f == [i \in 1..n |-> ModuleFields[((i - 1) % 7) + 1]]
           z == <<Tag(PacketClose)>>
<1>1. n \in Nat /\ 8 + 7 * m = 8 + n
  OBVIOUS
<1> HIDE DEF n
<1>2. f \in [1..n -> Fields]
  <2>1. \A i \in 1..n : ((i - 1) % 7) + 1 \in 1..7
    BY <1>1
  <2>2. \A c \in 1..7 : ModuleFields[c] \in Fields
    <3> DEFINE F == ModuleFields
    <3>1. F \in Seq(Fields) /\ Len(F) = 7
      BY ModuleFieldsFacts
    <3> HIDE DEF F
    <3>2. \A c \in 1..7 : F[c] \in Fields
      BY <3>1, ElementOfSeq
    <3> QED
      BY <3>2 DEF F
  <2>3. \A i \in 1..n : ModuleFields[((i - 1) % 7) + 1] \in Fields
    BY <2>1, <2>2
  <2> QED
    BY <2>3
<1>3. \A j \in 1..n : f[j] = ModuleFields[((j - 1) % 7) + 1]
  OBVIOUS
<1> HIDE DEF f
<1>4. f \in Seq(Fields) /\ Len(f) = n
  BY <1>1, <1>2, FunctionIsSeq
<1>5. z \in Seq(Fields) /\ Len(z) = 1 /\ z[1] = Tag(PacketClose)
  <2>1. Tag(PacketClose) \in Fields
    BY DEF Tag, Fields, PacketClose
  <2> QED
    BY <2>1
<1> HIDE DEF z
<1>6. /\ f \o z \in Seq(Fields) /\ Len(f \o z) = Len(f) + Len(z)
      /\ \A i \in 1..(Len(f) + Len(z)) : (f \o z)[i] = IF i <= Len(f) THEN f[i] ELSE z[i - Len(f)]
  <2>1. f \in Seq(Fields) /\ z \in Seq(Fields)
    BY <1>4, <1>5
  <2> QED
    BY <2>1, ConcatProperties
<1> DEFINE w == f \o z
<1>7. /\ w \in Seq(Fields) /\ Len(w) = n + 1
      /\ \A i \in 1..n : w[i] = f[i]
      /\ w[n + 1] = Tag(PacketClose)
  <2>1. 1 \in 1..Len(z)
    BY <1>5
  <2> HIDE DEF w
  <2> QED
    BY <1>4, <1>5, <1>6, <2>1 DEF w
<1> HIDE DEF w
<1>8. ASSUME NEW j \in 1..(n + 1) PROVE w[j] = FieldAt(m, 8 + j)
  <2>1. CASE j <= n
    <3>1. j \in 1..n /\ ~(8 + j <= 8) /\ 8 + j <= 8 + n /\ 8 + j - 9 = j - 1
      BY <1>1, <2>1
    <3>2. FieldAt(m, 8 + j) = ModuleFields[((8 + j - 9) % 7) + 1]
      BY <1>1, <3>1 DEF FieldAt
    <3> QED
      BY <3>1, <3>2, <1>3, <1>7
  <2>2. CASE ~(j <= n)
    <3>1. j = n + 1 /\ ~(8 + j <= 8) /\ ~(8 + j <= 8 + n)
      BY <1>1, <2>2
    <3> QED
      BY <1>1, <3>1, <1>7 DEF FieldAt
  <2> QED
    BY <2>1, <2>2
<1> QED
  BY <1>7, <1>8 DEF w, f, z, n

(* The number of modules. *)
LEMMA CountRead ==
  ASSUME NEW x \in Sending, Progress(x, 7), Half(x, 7), NEW b, b = Writes(x)[8],
         part' = Filled("count", b),
         want' = [i \in 1..(7 * b[1]) |-> ModuleFields[((i - 1) % 7) + 1]] \o <<Tag(PacketClose)>>
  PROVE  Progress(x, 8)'
<1> DEFINE m == Count(x)
<1>1. m \in Nat /\ m >= 1
  <2>1. m \in 1..255
    BY SendingFacts
  <2> HIDE DEF m
  <2> QED
    BY <2>1
<1>2. b[1] = m
  <2>1. b = <<m>>
    BY WritesAt
  <2> HIDE DEF m
  <2> QED
    BY <2>1
<1>3. part' = part
  BY DEF Filled, FilledWith
<1>4. Body(x, 8)'
  <2>1. x.packet.meta \in Seq(Byte) /\ Len(x.packet.meta) = 3
    BY SendingFacts, PacketFacts
  <2>2. part.meta = x.packet.meta
    <3>1. 7 \div 2 = 3
      OBVIOUS
    <3>2. part.meta = SubSeq(x.packet.meta, 1, 3)
      BY <3>1 DEF Half
    <3> QED
      BY <2>1, <3>2
  <2>3. DOMAIN part.modules = {}
    BY DEF Half, Empty
  <2>4. {x.order[y] : y \in 1..0} = {}
    OBVIOUS
  <2>5. /\ 8 = 8 + 7 * 0 + 0 /\ 0 \in 0..Count(x) /\ 0 \in 0..6 /\ 0 # 6 /\ ~(0 >= 2) /\ ~(0 >= 4)
    BY <1>1
  <2> QED
    BY <1>3, <2>2, <2>3, <2>4, <2>5 DEF Body
<1>5. DOMAIN part' = PartNames
  BY <1>3 DEF Progress
<1>6. want' \in Seq(Fields) /\ Len(want') = 7 * m + 1 /\ \A j \in 1..(7 * m + 1) : want'[j] = FieldAt(m, 8 + j)
  <2>1. want' = [i \in 1..(7 * m) |-> ModuleFields[((i - 1) % 7) + 1]] \o <<Tag(PacketClose)>>
    BY <1>2
  <2> HIDE DEF m
  <2> QED
    BY <1>1, <2>1, RestOfPacket
<1>7. 7 * m + 1 = (IF 8 < 8 THEN 8 ELSE 9 + 7 * m) - 8
  <2> HIDE DEF m
  <2> QED
    BY <1>1
<1>8. Wanted(x, 8)'
  BY <1>6, <1>7 DEF Wanted
<1> QED
  BY <1>4, <1>5, <1>8 DEF Progress

(* A field of a module. *)
LEMMA ModuleRead ==
  ASSUME NEW x \in Sending, NEW e, Progress(x, e), Body(x, e), e >= 8, e < 8 + 7 * Count(x),
         \A i \in 0..(Count(x) - 1), q \in 0..6 : e = 8 + 7 * i + q => Head(want) = ModuleFields[q + 1],
         Head(want).kind # "tag", part' = Filled(Head(want).kind, Writes(x)[e + 1])
  PROVE  Body(x, e + 1)' /\ DOMAIN part' = PartNames /\ Head(want).kind # "count"
<1> DEFINE m == Count(x)
<1>1. PICK i \in 0..m, q \in 0..6 :
        /\ e = 8 + 7 * i + q /\ (i = m => q = 0)
        /\ part.meta = x.packet.meta
        /\ DOMAIN part.modules = {x.order[y] : y \in 1..(IF q = 6 THEN i + 1 ELSE i)}
        /\ \A id \in DOMAIN part.modules : part.modules[id] = x.packet.modules[id]
        /\ q >= 2 => part.id = x.order[i + 1]
        /\ q >= 4 => part.size = Len(x.packet.modules[x.order[i + 1]])
  BY DEF Body
<1>2. m \in Nat /\ i \in Nat /\ i # m /\ i + 1 \in 0..m /\ i \in 0..(m - 1)
  <2>1. m \in 1..255
    BY SendingFacts
  <2>2. i # m
    BY <1>1
  <2> HIDE DEF m
  <2> QED
    BY <2>1, <2>2
<1>3. Head(want) = ModuleFields[q + 1]
  BY <1>1, <1>2
<1>4. \/ q = 1 /\ Head(want).kind = "id"
      \/ q = 3 /\ Head(want).kind = "size"
      \/ q = 5 /\ Head(want).kind = "payload"
  <2>1. q = 0 \/ q = 2 \/ q = 4 \/ q = 6 => Head(want).kind = "tag"
    BY <1>3, ModuleFieldsFacts, KindFacts
  <2>2. (q = 1 => Head(want) = Field("id")) /\ (q = 3 => Head(want) = Field("size"))
        /\ (q = 5 => Head(want) = Field("payload"))
    BY <1>3, ModuleFieldsFacts
  <2> QED
    BY <2>1, <2>2, KindFacts
<1> DEFINE d == x.order[i + 1]
           p == x.packet.modules[d]
           n == Len(p)
           b == Writes(x)[e + 1]
           M == EncodeModule(d, p)
<1>5. b = M[q + 1]
  <2>1. e + 1 = 8 + 7 * i + q + 1
    BY <1>1
  <2>2. Writes(x)[8 + 7 * i + q + 1] = M[q + 1]
    BY <1>2, WritesAt
  <2> HIDE DEF M
  <2> QED
    BY <2>1, <2>2
<1>6. x.packet \in Packets /\ d \in DOMAIN x.packet.modules
  <2>1. i + 1 \in 1..m
    BY <1>2
  <2> QED
    BY <2>1, SendingFacts
<1>7. /\ M[2] = d /\ M[4] = <<n \div Base, n % Base>> /\ M[6] = p
      /\ (n \div Base) * Base + (n % Base) = n
  <2>1. n \in 1..(Base * Base - 1)
    BY <1>6, PacketFacts
  <2>2. M[2] = d /\ M[4] = <<n \div Base, n % Base>> /\ M[6] = p
    BY <1>6, ModuleWrites
  <2> HIDE DEF M, n
  <2> QED
    BY <2>1, <2>2, SizeBytes
<1>8. DOMAIN part = PartNames
  BY DEF Progress
<1>9. part' = FilledWith(Head(want).kind, b, b[1] * Base + Last(b), WithModule(b))
  BY DEF Filled
<1> HIDE DEF M, b, n
<1> DEFINE Done ==
      /\ DOMAIN part' = PartNames /\ part'.meta = x.packet.meta
      /\ DOMAIN part'.modules = {x.order[y] : y \in 1..(IF q + 1 = 6 THEN i + 1 ELSE i)}
      /\ \A id \in DOMAIN part'.modules : part'.modules[id] = x.packet.modules[id]
      /\ part'.id = d
      /\ q + 1 >= 4 => part'.size = Len(p)
<1>10. ASSUME q = 1 /\ Head(want).kind = "id" PROVE Done
  <2>1. part' = [part EXCEPT !.id = d]
    BY <1>5, <1>7, <1>9, <1>10 DEF FilledWith
  <2> HIDE DEF d, p
  <2>2. /\ DOMAIN part' = PartNames /\ part'.meta = part.meta /\ part'.modules = part.modules /\ part'.id = d
    BY <1>8, <2>1 DEF PartNames
  <2>3. q # 6 /\ q + 1 # 6 /\ ~(q + 1 >= 4)
    BY <1>10
  <2> QED
    BY <1>1, <2>2, <2>3
<1>11. ASSUME q = 3 /\ Head(want).kind = "size" PROVE Done
  <2> DEFINE s == b[1] * Base + Last(b)
  <2>1. part' = [part EXCEPT !.size = s]
    BY <1>9, <1>11 DEF FilledWith
  <2>2. b = <<n \div Base, n % Base>>
    BY <1>5, <1>7, <1>11
  <2>3. b[1] = n \div Base /\ Last(b) = n % Base
    BY <2>2 DEF Last
  <2>4. s = Len(p)
    BY <1>7, <2>3 DEF n
  <2>6. part.id = d
    BY <1>1, <1>11
  <2> HIDE DEF s, d, p
  <2>5. /\ DOMAIN part' = PartNames /\ part'.meta = part.meta /\ part'.modules = part.modules
        /\ part'.id = part.id /\ part'.size = s
    BY <1>8, <2>1 DEF PartNames
  <2>7. q # 6 /\ q + 1 # 6
    BY <1>11
  <2> QED
    BY <1>1, <2>4, <2>5, <2>6, <2>7
<1>12. ASSUME q = 5 /\ Head(want).kind = "payload" PROVE Done
  <2>1. b = p
    BY <1>5, <1>7, <1>12
  <2>2. part.id = d /\ part.size = Len(p)
    BY <1>1, <1>12
  <2>3. part' = WithModule(p)
    BY <1>9, <1>12, <2>1 DEF FilledWith
  <2> DEFINE f == [y \in DOMAIN part.modules \cup {d} |-> IF y = d THEN p ELSE part.modules[y]]
  <2>4. part' = [part EXCEPT !.modules = f]
    BY <2>2, <2>3 DEF WithModule
  <2>5. DOMAIN f = DOMAIN part.modules \cup {d} /\ \A y \in DOMAIN f : f[y] = x.packet.modules[y]
    BY <1>1
  <2>6. DOMAIN part.modules = {x.order[y] : y \in 1..i}
    BY <1>1, <1>12
  <2>7. {x.order[y] : y \in 1..(i + 1)} = {x.order[y] : y \in 1..i} \cup {d}
    <3>1. 1..(i + 1) = 1..i \cup {i + 1}
      BY <1>2
    <3> QED
      BY <3>1
  <2> HIDE DEF f, d, p
  <2>8. /\ DOMAIN part' = PartNames /\ part'.meta = part.meta /\ part'.modules = f
        /\ part'.id = part.id /\ part'.size = part.size
    BY <1>8, <2>4 DEF PartNames
  <2>9. q + 1 = 6
    BY <1>12
  <2> QED
    BY <1>1, <2>2, <2>5, <2>6, <2>7, <2>8, <2>9
<1>13. Done
  BY <1>4, <1>10, <1>11, <1>12
<1>14. Body(x, e + 1)'
  <2>1. e + 1 = 8 + 7 * i + (q + 1) /\ q + 1 \in 0..6 /\ i \in 0..Count(x) /\ i # Count(x)
    BY <1>1, <1>2, <1>4
  <2> QED
    BY <1>13, <2>1 DEF Body
<1> QED
  BY <1>4, <1>13, <1>14

(* A field that is read as it was written. *)
LEMMA FieldRead ==
  ASSUME NEW x \in Sending, NEW e, Progress(x, e), Head(want).kind # "tag",
         NEW b, b = Writes(x)[e + 1],
         part' = Filled(Head(want).kind, b),
         want' = IF Head(want).kind # "count" THEN Tail(want)
                 ELSE [i \in 1..(7 * b[1]) |-> ModuleFields[((i - 1) % 7) + 1]] \o <<Tag(PacketClose)>>
  PROVE  Progress(x, e + 1)'
<1>1. CASE e \in {1, 3, 5} /\ Head(want).kind = "meta" /\ Half(x, e)
  <2>1. Half(x, e + 1)' /\ DOMAIN part' = PartNames
    BY <1>1, MetaRead
  <2>2. Count(x) \in 1..255
    BY SendingFacts
  <2>3. e # 7 /\ e # 8 + 7 * Count(x)
    <3> DEFINE m == Count(x)
    <3> HIDE DEF m
    <3>1. m \in 1..255
      BY <2>2 DEF m
    <3>2. e # 8 + 7 * m
      BY <1>1, <3>1
    <3> QED
      BY <1>1, <3>2 DEF m
  <2>4. e + 1 \in Nat /\ Wanted(x, e + 1)'
    BY <1>1, <2>3, TailWanted
  <2> QED
    BY <2>1, <2>4 DEF Progress
<1>2. CASE e = 7 /\ Head(want).kind = "count" /\ Half(x, e)
  <2>1. e + 1 = 8
    BY <1>2
  <2>2. Progress(x, 7) /\ Half(x, 7) /\ b = Writes(x)[8]
    BY <1>2, <2>1
  <2>3. part' = Filled("count", b)
        /\ want' = [i \in 1..(7 * b[1]) |-> ModuleFields[((i - 1) % 7) + 1]] \o <<Tag(PacketClose)>>
    BY <1>2
  <2>4. Progress(x, 8)'
    BY <2>2, <2>3, CountRead
  <2> QED
    BY <2>1, <2>4
<1>3. CASE e >= 8 /\ e < 8 + 7 * Count(x) /\ Body(x, e)
           /\ \A i \in 0..(Count(x) - 1), q \in 0..6 : e = 8 + 7 * i + q => Head(want) = ModuleFields[q + 1]
  <2>1. Body(x, e + 1)' /\ DOMAIN part' = PartNames /\ Head(want).kind # "count"
    BY <1>3, ModuleRead
  <2>2. e # 7 /\ e # 8 + 7 * Count(x)
    <3> DEFINE m == Count(x)
    <3>1. e \in Nat
      BY DEF Progress
    <3>2. m \in 1..255
      BY SendingFacts
    <3>3. e >= 8 /\ e < 8 + 7 * m
      BY <1>3
    <3> HIDE DEF m
    <3>4. e # 7 /\ e # 8 + 7 * m
      BY <3>1, <3>2, <3>3
    <3> QED
      BY <3>4 DEF m
  <2>3. e + 1 \in Nat /\ Wanted(x, e + 1)'
    BY <2>1, <2>2, TailWanted
  <2> QED
    BY <2>1, <2>3 DEF Progress
<1> QED
  BY <1>1, <1>2, <1>3, Where

-----------------------------------------------------------------------------
(* Where the reader is in the stream.                                      *)

(* The i-th write is one of a packet whose Encode began.                   *)
LEMMA ChunkFacts ==
  ASSUME NEW q, NEW at, Sent(q), Line(q, at), NEW i \in 1..Len(at)
  PROVE  /\ at[i].p \in 1..Len(q) /\ q[at[i].p] \in Sending
         /\ at[i].j \in 1..Len(Writes(q[at[i].p])) /\ Chunk(q, at, i) \in Bytes
<1>1. at[i] \in Places
  BY ElementOfSeq DEF Line
<1>2. at[i].p \in Nat \ {0} /\ at[i].j \in Nat \ {0}
  BY <1>1 DEF Places
<1>3. at[i].p <= Len(q) /\ at[i].j <= Len(Writes(q[at[i].p])) /\ q \in Seq(Sending) /\ Len(q) \in Nat
  BY LenProperties DEF Line, Sent
<1>4. at[i].p \in 1..Len(q)
  BY <1>2, <1>3
<1>5. q[at[i].p] \in Sending
  BY <1>3, <1>4, ElementOfSeq
<1>6. Writes(q[at[i].p]) \in Seq(Bytes)
  BY <1>5, WritesAt
<1>7. at[i].j \in 1..Len(Writes(q[at[i].p]))
  <2> DEFINE W == Writes(q[at[i].p])
             j == at[i].j
  <2>1. Len(W) \in Nat /\ j \in Nat \ {0} /\ j <= Len(W)
    BY <1>2, <1>3, <1>6, LenProperties
  <2> HIDE DEF W, j
  <2>2. j \in 1..Len(W)
    BY <2>1
  <2> QED
    BY <2>2 DEF W, j
<1>8. Writes(q[at[i].p])[at[i].j] \in Bytes
  BY <1>6, <1>7, ElementOfSeq
<1> QED
  BY <1>4, <1>5, <1>7, <1>8 DEF Chunk

(* What the reader finds on the connection. *)
LEMMA AtReader ==
  ASSUME NEW q, NEW at, NEW w, NEW O, NEW B, NEW e, NEW r,
         Sent(q), Line(q, at), Written(q, at, w, O, B), Reading(q, e), Synced(q, at, w, O, B, e, r),
         wire \in Bytes, wire # <<>>, Len(decoded) \in Nat
  PROVE  LET x == q[Len(decoded) + 1]
             c == Writes(x)[e + 1]
         IN  /\ Len(decoded) < Len(q) /\ x \in Sending /\ Progress(x, e)
             /\ r + 1 \in 1..w /\ Chunk(q, at, r + 1) = c
             /\ \A j \in 1..Len(c) : j <= Len(wire) => wire[j] = c[j]
             /\ O[r] \in Nat /\ O[r + 1] = O[r] + Len(c) /\ O[r + 1] \in 0..Len(B)
             /\ ~closed => Len(c) <= Len(wire)
<1> DEFINE n == Len(decoded)
           l == Len(B)
           a == Len(at)
           k == Len(wire)
<1>1. k \in Nat /\ k > 0 /\ l \in Nat /\ a \in Nat /\ w \in 0..a /\ r \in 0..w /\ Len(q) \in Nat
  <2>1. wire \in Seq(Byte) /\ B \in Seq(Byte)
    BY DEF Bytes, Written
  <2>2. k \in Nat /\ k > 0
    BY <2>1, EmptySeq
  <2>3. a \in Nat /\ Len(q) \in Nat /\ l \in Nat
    BY <2>1, LenProperties DEF Line, Sent
  <2> QED
    BY <2>2, <2>3 DEF Written, Synced
<1>2. O \in [0..w -> 0..l] /\ O[w] = l
  BY DEF Written
<1>3. /\ IF n < Len(q) THEN r < a /\ at[r + 1] = [p |-> n + 1, j |-> e + 1] ELSE r = a
      /\ k <= l - O[r]
      /\ \A j \in 1..k : wire[j] = B[O[r] + j]
      /\ ~closed => k = l - O[r]
  BY DEF Synced
<1>4. \A i \in 1..w : O[i] = O[i - 1] + Len(Chunk(q, at, i))
                      /\ \A j \in 1..Len(Chunk(q, at, i)) : B[O[i - 1] + j] = Chunk(q, at, i)[j]
  BY DEF Written
<1>5. n \in Nat
  OBVIOUS
<1> HIDE DEF n, l, a, k
<1>6. r # w /\ O[r] \in Nat
  <2>1. O[r] \in 0..l
    BY <1>1, <1>2
  <2>2. r = w => O[r] = l
    BY <1>2
  <2> QED
    BY <1>1, <1>3, <2>1, <2>2
<1>7. r \in Nat /\ r + 1 \in 1..w /\ r + 1 \in 1..a /\ r + 1 \in 0..w /\ r < a /\ r # a /\ (r + 1) - 1 = r
  BY <1>1, <1>6
<1>8. n < Len(q) /\ at[r + 1] = [p |-> n + 1, j |-> e + 1]
  BY <1>3, <1>7
<1> DEFINE x == q[n + 1]
           c == Writes(x)[e + 1]
<1>9. Chunk(q, at, r + 1) = c /\ x \in Sending /\ c \in Bytes
  <2>1. r + 1 \in 1..Len(at)
    BY <1>7 DEF a
  <2>2. at[r + 1].p = n + 1 /\ at[r + 1].j = e + 1
    BY <1>8
  <2> HIDE DEF x
  <2>3. q[at[r + 1].p] \in Sending /\ Chunk(q, at, r + 1) \in Bytes
    BY <2>1, ChunkFacts
  <2>4. Chunk(q, at, r + 1) = c /\ q[at[r + 1].p] = x
    BY <2>2 DEF Chunk, x
  <2> QED
    BY <2>3, <2>4
<1>10. Progress(x, e)
  BY <1>8 DEF Reading, n
<1> HIDE DEF x, c
<1>11. O[r + 1] = O[r] + Len(c) /\ \A j \in 1..Len(c) : B[O[r] + j] = c[j]
  BY <1>4, <1>7, <1>9
<1>12. O[r + 1] \in 0..l /\ Len(c) \in Nat
  <2>1. c \in Seq(Byte)
    BY <1>9 DEF Bytes
  <2>2. Len(c) \in Nat
    BY <2>1, LenProperties
  <2> QED
    BY <1>2, <1>7, <2>2
<1>13. ASSUME NEW j \in 1..Len(c), j <= k PROVE wire[j] = c[j]
  <2>1. j \in 1..k
    BY <1>12, <1>13, <1>1
  <2> QED
    BY <2>1, <1>3, <1>11
<1>14. ~closed => Len(c) <= k
  BY <1>1, <1>3, <1>6, <1>11, <1>12
<1> QED
  BY <1>6, <1>7, <1>8, <1>9, <1>10, <1>11, <1>12, <1>13, <1>14 DEF x, c, n, l, k

(* The next write is read. *)
LEMMA Advance ==
  ASSUME NEW q, NEW at, NEW w, NEW O, NEW B, NEW e, NEW r, NEW f,
         Sent(q), Line(q, at), Written(q, at, w, O, B), Reading(q, e), Synced(q, at, w, O, B, e, r),
         wire \in Bytes, wire # <<>>, Len(decoded) \in Nat, e \in Nat,
         Len(Writes(q[Len(decoded) + 1])[e + 1]) <= Len(wire),
         closed' = closed, Len(wire') = Len(wire) - Len(Writes(q[Len(decoded) + 1])[e + 1]),
         \A j \in 1..Len(wire') : wire'[j] = wire[Len(Writes(q[Len(decoded) + 1])[e + 1]) + j],
         \/ Len(decoded') = Len(decoded) /\ f = e + 1 /\ e + 1 < Len(Writes(q[Len(decoded) + 1]))
         \/ Len(decoded') = Len(decoded) + 1 /\ f = 0 /\ e + 1 = Len(Writes(q[Len(decoded) + 1]))
  PROVE  Synced(q, at, w, O, B, f, r + 1)'
<1> DEFINE n == Len(decoded)
           l == Len(B)
           a == Len(at)
           k == Len(wire)
           x == q[n + 1]
           c == Writes(x)[e + 1]
           d == Len(c)
           W == Len(Writes(x))
<1>1. k \in Nat /\ l \in Nat /\ a \in Nat /\ w \in 0..a /\ r \in 0..w /\ Len(q) \in Nat /\ n \in Nat
  <2>1. wire \in Seq(Byte) /\ B \in Seq(Byte)
    BY DEF Bytes, Written
  <2>3. a \in Nat /\ Len(q) \in Nat /\ l \in Nat /\ k \in Nat
    BY <2>1, LenProperties DEF Line, Sent
  <2> QED
    BY <2>3 DEF Written, Synced
<1>2. /\ n < Len(q) /\ r + 1 \in 1..w /\ O[r] \in Nat /\ O[r + 1] = O[r] + d /\ O[r + 1] \in 0..l
      /\ x \in Sending /\ Chunk(q, at, r + 1) = c
  BY AtReader
<1>3. /\ at[r + 1] = [p |-> n + 1, j |-> e + 1]
      /\ k <= l - O[r] /\ (\A j \in 1..k : wire[j] = B[O[r] + j])
      /\ ~closed => k = l - O[r]
  BY <1>2 DEF Synced
<1>4. d \in Nat
  <2>1. r + 1 \in 1..Len(at)
    BY <1>1, <1>2
  <2>2. c \in Bytes
    BY <1>2, <2>1, ChunkFacts
  <2>3. c \in Seq(Byte)
    BY <2>2 DEF Bytes
  <2> HIDE DEF c
  <2> QED
    BY <2>3, LenProperties
<1>5. IF at[r + 1].j < Len(Writes(q[at[r + 1].p]))
      THEN r + 1 < a /\ at[r + 1 + 1] = [p |-> at[r + 1].p, j |-> at[r + 1].j + 1]
      ELSE IF at[r + 1].p < Len(q) THEN r + 1 < a /\ at[r + 1 + 1] = [p |-> at[r + 1].p + 1, j |-> 1]
      ELSE r + 1 = a
  <2>1. r + 1 \in 1..a
    BY <1>1, <1>2
  <2>2. \A i \in 1..a :
         IF at[i].j < Len(Writes(q[at[i].p])) THEN i < a /\ at[i + 1] = [p |-> at[i].p, j |-> at[i].j + 1]
         ELSE IF at[i].p < Len(q) THEN i < a /\ at[i + 1] = [p |-> at[i].p + 1, j |-> 1]
         ELSE i = a
    BY DEF Line
  <2> QED
    BY <2>1, <2>2
<1>6. at[r + 1].p = n + 1 /\ at[r + 1].j = e + 1 /\ Len(Writes(q[at[r + 1].p])) = W
  BY <1>3
<1>7. /\ d <= k /\ Len(wire') = k - d /\ \A j \in 1..Len(wire') : wire'[j] = wire[d + j]
      /\ \/ Len(decoded') = n /\ f = e + 1 /\ e + 1 < W
         \/ Len(decoded') = n + 1 /\ f = 0 /\ e + 1 = W
  OBVIOUS
<1> HIDE DEF n, l, a, k, x, c, d, W
<1>8. r + 1 \in 0..w
  BY <1>2
<1>9. IF Len(decoded') < Len(q) THEN r + 1 < a /\ at[r + 1 + 1] = [p |-> Len(decoded') + 1, j |-> f + 1] ELSE r + 1 = a
  <2>1. CASE Len(decoded') = n /\ f = e + 1 /\ e + 1 < W
    BY <1>2, <1>5, <1>6, <2>1
  <2>2. CASE Len(decoded') = n + 1 /\ f = 0 /\ e + 1 = W
    BY <1>1, <1>2, <1>5, <1>6, <2>2
  <2> QED
    BY <1>7, <2>1, <2>2
<1> DEFINE u == O[r]
           v == O[r + 1]
           z == Len(wire')
<1>10. u \in Nat /\ v = u + d /\ d \in Nat /\ d <= k /\ z = k - d /\ k \in Nat /\ l \in Nat
  BY <1>1, <1>2, <1>4, <1>7
<1>11. k <= l - u /\ (~closed => k = l - u)
  BY <1>3
<1> HIDE DEF u, v, z
<1>12. z <= l - v /\ (~closed => z = l - v)
  BY <1>10, <1>11
<1>13. ASSUME NEW j \in 1..z PROVE wire'[j] = B[v + j]
  <2>1. d + j \in 1..k /\ u + (d + j) = v + j
    BY <1>10
  <2>2. wire[d + j] = B[u + (d + j)]
    BY <2>1, <1>3 DEF u
  <2>3. wire'[j] = wire[d + j]
    BY <1>7 DEF z
  <2> QED
    BY <2>1, <2>2, <2>3
<1>14. closed' = closed
  OBVIOUS
<1>15. /\ Len(wire') <= Len(B) - O[r + 1]
       /\ \A j \in 1..Len(wire') : wire'[j] = B[O[r + 1] + j]
       /\ ~closed' => Len(wire') = Len(B) - O[r + 1]
  BY <1>12, <1>13, <1>14 DEF z, v, l
<1>16. IF Len(decoded') < Len(q) THEN r + 1 < Len(at) /\ at[r + 1 + 1] = [p |-> Len(decoded') + 1, j |-> f + 1]
       ELSE r + 1 = Len(at)
  BY <1>9 DEF a
<1> QED
  BY <1>8, <1>15, <1>16 DEF Synced

-----------------------------------------------------------------------------
(* Types.                                                                  *)

(* The types that the steps need.                                          *)
Typed ==
    /\ sender \in [Senders -> {"idle", "lock", "write", "ok", "failed"}]
    /\ todo \in [Senders -> Seq(Bytes)]
    /\ \A s \in Senders : todo[s] # <<>> <=> mutex = s
    /\ mutex \in Senders \cup {None}
    /\ wire \in Bytes
    /\ closed \in BOOLEAN
    /\ begun \in Seq(Packets)
    /\ \E S : decoded \in Seq(S)

(* Bytes: together, the first ones, the rest.                              *)
LEMMA BytesFacts ==
  ASSUME NEW b \in Bytes
  PROVE  /\ Len(b) \in Nat /\ (b = <<>> <=> Len(b) = 0)
         /\ \A j \in 1..Len(b) : b[j] \in Byte
         /\ \A c \in Bytes :
              /\ b \o c \in Bytes /\ Len(b \o c) = Len(b) + Len(c)
              /\ \A j \in 1..(Len(b) + Len(c)) : (b \o c)[j] = IF j <= Len(b) THEN b[j] ELSE c[j - Len(b)]
         /\ \A k \in 0..Len(b) :
              /\ SubSeq(b, 1, k) \in Bytes /\ Len(SubSeq(b, 1, k)) = k
              /\ \A j \in 1..k : SubSeq(b, 1, k)[j] = b[j]
              /\ SubSeq(b, k + 1, Len(b)) \in Bytes /\ Len(SubSeq(b, k + 1, Len(b))) = Len(b) - k
              /\ \A j \in 1..(Len(b) - k) : SubSeq(b, k + 1, Len(b))[j] = b[k + j]
<1>1. b \in Seq(Byte)
  BY DEF Bytes
<1>2. Len(b) \in Nat /\ (b = <<>> <=> Len(b) = 0)
  BY <1>1, EmptySeq
<1>3. \A j \in 1..Len(b) : b[j] \in Byte
  BY <1>1, ElementOfSeq
<1>4. ASSUME NEW c \in Bytes
      PROVE  /\ b \o c \in Bytes /\ Len(b \o c) = Len(b) + Len(c)
             /\ \A j \in 1..(Len(b) + Len(c)) : (b \o c)[j] = IF j <= Len(b) THEN b[j] ELSE c[j - Len(b)]
  <2>1. c \in Seq(Byte)
    BY DEF Bytes
  <2>2. /\ b \o c \in Seq(Byte) /\ Len(b \o c) = Len(b) + Len(c)
        /\ \A j \in 1..(Len(b) + Len(c)) : (b \o c)[j] = IF j <= Len(b) THEN b[j] ELSE c[j - Len(b)]
    BY <1>1, <2>1, ConcatProperties
  <2> QED
    BY <2>2 DEF Bytes
<1>5. ASSUME NEW k \in 0..Len(b)
      PROVE  /\ SubSeq(b, 1, k) \in Bytes /\ Len(SubSeq(b, 1, k)) = k
             /\ \A j \in 1..k : SubSeq(b, 1, k)[j] = b[j]
  <2>1. k \in Int /\ 1 \in Int /\ k \in Nat /\ k - 1 + 1 = k /\ \A j \in 1..k : 1 + j - 1 = j
    BY <1>2
  <2>2. \A j \in 1..k : b[j] \in Byte
    BY <1>2, <1>3
  <2>3. /\ SubSeq(b, 1, k) \in Seq(Byte) /\ Len(SubSeq(b, 1, k)) = IF 1 <= k THEN k - 1 + 1 ELSE 0
        /\ \A i \in 1..(k - 1 + 1) : SubSeq(b, 1, k)[i] = b[1 + i - 1]
    BY <2>1, <2>2, SubSeqProperties
  <2>4. Len(SubSeq(b, 1, k)) = k
    BY <2>1, <2>3
  <2>5. \A j \in 1..k : SubSeq(b, 1, k)[j] = b[j]
    BY <2>1, <2>3
  <2> QED
    BY <2>3, <2>4, <2>5 DEF Bytes
<1>6. ASSUME NEW k \in 0..Len(b)
      PROVE  /\ SubSeq(b, k + 1, Len(b)) \in Bytes /\ Len(SubSeq(b, k + 1, Len(b))) = Len(b) - k
             /\ \A j \in 1..(Len(b) - k) : SubSeq(b, k + 1, Len(b))[j] = b[k + j]
  <2> DEFINE n == Len(b)
             t == SubSeq(b, k + 1, n)
  <2>1. k + 1 \in Int /\ n \in Int /\ k \in 0..n /\ n \in Nat
    BY <1>2
  <2>2. \A j \in (k + 1)..n : b[j] \in Byte
    BY <1>2, <1>3
  <2>3. /\ t \in Seq(Byte) /\ Len(t) = IF k + 1 <= n THEN n - (k + 1) + 1 ELSE 0
        /\ \A i \in 1..(n - (k + 1) + 1) : t[i] = b[(k + 1) + i - 1]
    BY <2>1, <2>2, SubSeqProperties
  <2> HIDE DEF n, t
  <2>4. Len(t) = n - k
    BY <2>1, <2>3
  <2>6. n - (k + 1) + 1 = n - k /\ \A j \in 1..(n - k) : (k + 1) + j - 1 = k + j
    BY <2>1
  <2>5. \A j \in 1..(n - k) : t[j] = b[k + j]
    BY <2>3, <2>6
  <2> QED
    BY <2>3, <2>4, <2>5 DEF Bytes, n, t
<1> QED
  BY <1>2, <1>3, <1>4, <1>5, <1>6

(* What is left of the bytes after the first.                              *)
LEMMA TailFacts ==
  ASSUME NEW b \in Bytes, b # <<>>
  PROVE  /\ Tail(b) \in Bytes /\ Len(Tail(b)) = Len(b) - 1
         /\ \A j \in 1..Len(Tail(b)) : Tail(b)[j] = b[1 + j]
<1>1. b \in Seq(Byte)
  BY DEF Bytes
<1>2. Tail(b) \in Seq(Byte) /\ Len(Tail(b)) = Len(b) - 1 /\ \A j \in 1..Len(Tail(b)) : Tail(b)[j] = b[j + 1]
  BY <1>1, HeadTailProperties
<1>3. Len(Tail(b)) \in Nat
  BY <1>2, LenProperties
<1>4. \A j \in 1..Len(Tail(b)) : j + 1 = 1 + j
  BY <1>3
<1> QED
  BY <1>2, <1>4 DEF Bytes

(* The writes that are left.                                               *)
LEMMA TodoFacts ==
  ASSUME NEW T \in Seq(Bytes), T # <<>>
  PROVE  /\ Len(T) \in Nat /\ Len(T) >= 1 /\ Head(T) = T[1] /\ Head(T) \in Bytes
         /\ Tail(T) \in Seq(Bytes) /\ Len(Tail(T)) = Len(T) - 1
         /\ \A j \in 1..Len(Tail(T)) : Tail(T)[j] = T[j + 1]
         /\ Len(T) # 1 => Tail(T) # <<>>
<1>1. Len(T) \in Nat \ {0}
  BY EmptySeq
<1>2. Head(T) \in Bytes /\ Tail(T) \in Seq(Bytes) /\ Len(Tail(T)) = Len(T) - 1
      /\ \A j \in 1..Len(Tail(T)) : Tail(T)[j] = T[j + 1]
  BY HeadTailProperties
<1>3. Head(T) = T[1]
  BY <1>1
<1>4. Len(T) # 1 => Tail(T) # <<>>
  <2>1. Len(T) # 1 => Len(Tail(T)) # 0
    BY <1>1, <1>2
  <2> QED
    BY <2>1, EmptySeq
<1> QED
  BY <1>1, <1>2, <1>3, <1>4

(* What StartEncode and Write change. *)
LEMMA Begin ==
  ASSUME Typed, NEW s \in Senders, StartEncode(s)
  PROVE  \E x \in Sending :
           /\ x.packet = Packet[s] /\ todo' = [todo EXCEPT ![s] = Writes(x)]
           /\ Writes(x) \in Seq(Bytes) /\ Writes(x) # <<>>
           /\ Packet[s] \in Packets
<1>1. PICK order \in SetToSeqs(DOMAIN Packet[s].modules) : todo' = [todo EXCEPT ![s] = Encode(Packet[s], order)]
  BY DEF StartEncode
<1>2. Packet[s] \in Packets
  BY DEF Packets
<1> DEFINE x == [packet |-> Packet[s], order |-> order]
<1>3. x.packet = Packet[s] /\ x.order = order
  OBVIOUS
<1>4. x \in Sending
  <2> DEFINE A == [packet : {Packet[s]}, order : SetToSeqs(DOMAIN Packet[s].modules)]
  <2>1. x \in A
    OBVIOUS
  <2>2. A \in {[packet : {p}, order : SetToSeqs(DOMAIN p.modules)] : p \in Packets}
    BY <1>2
  <2> QED
    BY <2>1, <2>2 DEF Sending
<1> HIDE DEF x
<1>5. Writes(x) = Encode(Packet[s], order)
  BY <1>3 DEF Writes
<1>6. Writes(x) \in Seq(Bytes) /\ Writes(x) # <<>>
  <2>1. Writes(x) \in Seq(Bytes) /\ Len(Writes(x)) = 9 + 7 * Count(x)
    BY <1>4, WritesAt
  <2>2. Count(x) \in 1..255
    BY <1>4, SendingFacts
  <2> DEFINE m == Count(x)
             W == Writes(x)
  <2>3. m \in 1..255 /\ W \in Seq(Bytes) /\ Len(W) = 9 + 7 * m
    BY <2>1, <2>2
  <2> HIDE DEF m, W
  <2>4. Len(W) # 0
    BY <2>3
  <2>5. W # <<>>
    BY <2>4, EmptySeq
  <2> QED
    BY <2>3, <2>5 DEF W
<1> QED
  BY <1>1, <1>2, <1>3, <1>4, <1>5, <1>6

(* Types are kept by every step.                                           *)
LEMMA TypedSend ==
  ASSUME IInv, Typed, NEW s \in Senders, CallSend(s) \/ StartEncode(s) \/ Write(s)
  PROVE  Typed'
<1>1. CASE CallSend(s)
  BY <1>1 DEF CallSend, ReadVars, Typed
<1>2. CASE StartEncode(s)
  <2>1. PICK x \in Sending :
           /\ todo' = [todo EXCEPT ![s] = Writes(x)]
           /\ Writes(x) \in Seq(Bytes) /\ Writes(x) # <<>>
           /\ Packet[s] \in Packets
    BY <1>2, Begin
  <2>2. /\ mutex = None /\ mutex' = s /\ sender' = [sender EXCEPT ![s] = "write"] /\ begun' = Append(begun, Packet[s])
        /\ wire' = wire /\ closed' = closed /\ decoded' = decoded
    BY <1>2 DEF StartEncode, ReadVars
  <2>3. begun' \in Seq(Packets)
    BY <2>1, <2>2, AppendProperties DEF Typed
  <2>4. todo' \in [Senders -> Seq(Bytes)] /\ \A t \in Senders : todo'[t] # <<>> <=> mutex' = t
    BY <2>1, <2>2, NoneAssumption DEF Typed
  <2>5. sender' \in [Senders -> {"idle", "lock", "write", "ok", "failed"}]
    BY <2>2 DEF Typed
  <2> QED
    BY <2>2, <2>3, <2>4, <2>5 DEF Typed
<1>3. CASE Write(s)
  <2>1. mutex = s /\ s # None /\ todo[s] \in Seq(Bytes) /\ todo[s] # <<>>
    BY <1>3, NoneAssumption DEF Write, IInv, Exclusive, Typed
  <2>2. /\ Head(todo[s]) \in Bytes /\ Tail(todo[s]) \in Seq(Bytes)
        /\ Len(todo[s]) # 1 => Tail(todo[s]) # <<>>
    BY <2>1, TodoFacts
  <2>3. closed' = closed /\ begun' = begun /\ decoded' = decoded
    BY <1>3 DEF Write, ReadVars
  <2>4. wire' \in Bytes
    <3>1. wire' = wire \/ wire' = wire \o Head(todo[s])
      BY <1>3 DEF Write
    <3>2. wire \in Bytes
      BY DEF Typed
    <3>3. wire \o Head(todo[s]) \in Bytes
      BY <2>2, <3>2, BytesFacts
    <3> QED
      BY <3>1, <3>2, <3>3
  <2>5. CASE Return(s, "ok") \/ Return(s, "failed")
    <3>1. /\ sender' \in [Senders -> {"idle", "lock", "write", "ok", "failed"}]
          /\ mutex' = None /\ todo' = [todo EXCEPT ![s] = <<>>]
      BY <2>5 DEF Return, Typed
    <3>2. <<>> \in Seq(Bytes)
      BY EmptySeq
    <3>3. todo' \in [Senders -> Seq(Bytes)] /\ \A t \in Senders : todo'[t] # <<>> <=> mutex' = t
      BY <2>1, <3>1, <3>2, NoneAssumption DEF Typed
    <3> QED
      BY <2>3, <2>4, <3>1, <3>3 DEF Typed
  <2>6. CASE Len(todo[s]) # 1 /\ todo' = [todo EXCEPT ![s] = Tail(@)] /\ UNCHANGED <<sender, mutex>>
    <3>1. todo' \in [Senders -> Seq(Bytes)] /\ \A t \in Senders : todo'[t] # <<>> <=> mutex' = t
      BY <2>1, <2>2, <2>6 DEF Typed
    <3> QED
      BY <2>3, <2>4, <2>6, <3>1 DEF Typed
  <2> QED
    BY <1>3, <2>5, <2>6 DEF Write
<1> QED
  BY <1>1, <1>2, <1>3

(* Break leaves a prefix of the bytes, so the types.                       *)
LEMMA TypedBreak ==
  ASSUME Typed, Break, UNCHANGED SendVars, UNCHANGED decoded
  PROVE  Typed'
<1>1. closed' = TRUE /\ \E k \in 0..Len(wire) : wire' = SubSeq(wire, 1, k)
  BY DEF Break
<1>2. wire' \in Bytes
  BY <1>1, BytesFacts DEF Typed
<1> QED
  BY <1>1, <1>2 DEF Typed, SendVars

(* What a sequence becomes is a sequence, whatever is appended.            *)
LEMMA AppendTyped ==
  ASSUME NEW S, NEW d \in Seq(S), NEW y
  PROVE  \E T : Append(d, y) \in Seq(T)
<1>1. d \in Seq(S \cup {y}) /\ y \in S \cup {y}
  BY SeqMonotonic
<1>2. Append(d, y) \in Seq(S \cup {y})
  BY <1>1, AppendProperties
<1> QED
  BY <1>2

(* A tag or a field that is read keeps the types.                          *)
LEMMA TypedRead ==
  ASSUME Typed, ReadTag \/ (ReadField /\ Width(Head(want).kind) \in Nat)
  PROVE  Typed'
<1>1. UNCHANGED SendVars
  BY DEF ReadTag, ReadField
<1>2. closed' \in BOOLEAN
  BY DEF ReadTag, ReadField, DecodeFails, Typed
<1>3. wire' \in Bytes
  <2>1. wire \in Bytes
    BY DEF Typed
  <2>2. CASE ReadTag
    <3>1. wire' = wire \/ (wire # <<>> /\ wire' = Tail(wire))
      BY <2>2 DEF ReadTag, DecodeFails
    <3> QED
      BY <2>1, <3>1, TailFacts
  <2>3. CASE ReadField /\ Width(Head(want).kind) \in Nat
    <3> DEFINE n == Width(Head(want).kind)
    <3>1. wire' = wire \/ (Len(wire) >= n /\ wire' = SubSeq(wire, n + 1, Len(wire)))
      BY <2>3 DEF ReadField, DecodeFails
    <3>2. n \in Nat /\ Len(wire) \in Nat
      BY <2>1, <2>3, BytesFacts
    <3> HIDE DEF n
    <3>3. CASE Len(wire) >= n /\ wire' = SubSeq(wire, n + 1, Len(wire))
      <4>1. n \in 0..Len(wire)
        BY <3>2, <3>3
      <4> QED
        BY <2>1, <3>3, <4>1, BytesFacts
    <3> QED
      BY <2>1, <3>1, <3>3
  <2> QED
    BY <2>2, <2>3
<1>4. \E S : decoded' \in Seq(S)
  <2>1. decoded' = decoded \/ \E y : decoded' = Append(decoded, y)
    BY DEF ReadTag, ReadField, DecodeFails, DecodeGoesOn
  <2>2. PICK S : decoded \in Seq(S)
    BY DEF Typed
  <2>3. CASE decoded' = decoded
    BY <2>2, <2>3
  <2>4. CASE \E y : decoded' = Append(decoded, y)
    <3>1. PICK y : decoded' = Append(decoded, y)
      BY <2>4
    <3>2. \E T : Append(decoded, y) \in Seq(T)
      BY <2>2, AppendTyped
    <3> QED
      BY <3>1, <3>2
  <2> QED
    BY <2>1, <2>3, <2>4
<1> QED
  BY <1>1, <1>2, <1>3, <1>4 DEF Typed, SendVars

-----------------------------------------------------------------------------
(* Senders: another packet, another write, the end of the connection.      *)

(* There is a stream.                                                      *)
StreamExists == \E q, at, w, O, B, e, r : Stream(q, at, w, O, B, e, r)

(* The place of the i-th write of the n-th packet.                          *)
Place(n, i) == [p |-> n, j |-> i]

(* Another packet is encoded: its writes come after those before.          *)
New(n, l) == [j \in 1..l |-> Place(n, j)]

(* q2 and at2 have one packet more than q and at.                          *)
Grown(q, at, x, n, a, l, q2, at2) ==
    /\ q \in Seq(Sending) /\ Line(q, at) /\ n \in Nat /\ a \in Nat /\ l \in Nat \ {0}
    /\ n = Len(q) /\ a = Len(at) /\ l = Len(Writes(x))
    /\ Len(q2) = n + 1 /\ q2[n + 1] = x /\ \A i \in 1..n : q2[i] = q[i]
    /\ at2 \in Seq(Places) /\ Len(at2) = a + l /\ \A i \in 1..a : at2[i] = at[i]
    /\ \A j \in 1..l : at2[a + j] = [p |-> n + 1, j |-> j]

(* A line of writes with those of one more packet is a line.               *)
LEMMA LineGrows ==
  ASSUME NEW q, NEW at, NEW x, NEW n, NEW a, NEW l, NEW q2, NEW at2, Grown(q, at, x, n, a, l, q2, at2)
  PROVE  /\ Line(q2, at2)
         /\ \A i \in 1..a : Chunk(q2, at2, i) = Chunk(q, at, i)
         /\ \A j \in 1..l : Chunk(q2, at2, a + j) = Writes(x)[j]
<1> SUFFICES ASSUME q \in Seq(Sending), Line(q, at), n \in Nat, a \in Nat, l \in Nat \ {0},
                    n = Len(q), a = Len(at), l = Len(Writes(x)),
                    Len(q2) = n + 1, q2[n + 1] = x, \A i \in 1..n : q2[i] = q[i],
                    at2 \in Seq(Places), Len(at2) = a + l, \A i \in 1..a : at2[i] = at[i],
                    \A j \in 1..l : at2[a + j] = [p |-> n + 1, j |-> j]
             PROVE  /\ Line(q2, at2)
                    /\ \A i \in 1..a : Chunk(q2, at2, i) = Chunk(q, at, i)
                    /\ \A j \in 1..l : Chunk(q2, at2, a + j) = Writes(x)[j]
  BY DEF Grown
<1>7. \A i \in 1..a : /\ at[i].p \in 1..n /\ at[i].j \in Nat /\ at[i].j >= 1
                      /\ at[i].j <= Len(Writes(q[at[i].p]))
                      /\ IF at[i].j < Len(Writes(q[at[i].p])) THEN i < a /\ at[i + 1] = [p |-> at[i].p, j |-> at[i].j + 1]
                         ELSE IF at[i].p < n THEN i < a /\ at[i + 1] = [p |-> at[i].p + 1, j |-> 1]
                         ELSE i = a
  <2> TAKE i \in 1..a
  <2>1. at[i] \in Places /\ at[i].p <= n
    BY ElementOfSeq DEF Line
  <2>2. at[i].p \in Nat \ {0} /\ at[i].j \in Nat \ {0}
    BY <2>1 DEF Places
  <2>3. /\ at[i].j <= Len(Writes(q[at[i].p]))
        /\ IF at[i].j < Len(Writes(q[at[i].p])) THEN i < a /\ at[i + 1] = [p |-> at[i].p, j |-> at[i].j + 1]
           ELSE IF at[i].p < n THEN i < a /\ at[i + 1] = [p |-> at[i].p + 1, j |-> 1]
           ELSE i = a
    BY DEF Line
  <2>4. at[i].p \in 1..n /\ at[i].j \in Nat /\ at[i].j >= 1
    BY <2>1, <2>2
  <2> QED
    BY <2>3, <2>4
<1>8. \A i \in 1..a : at2[i] = at[i] /\ q2[at2[i].p] = q[at[i].p]
  BY <1>7
<1>9. \A i \in 1..a : i + 1 <= a => at2[i + 1] = at[i + 1]
  <2> TAKE i \in 1..a
  <2> HAVE i + 1 <= a
  <2>1. i + 1 \in 1..a
    OBVIOUS
  <2> QED
    BY <2>1, <1>8
<1>14. at2[a + 1] = [p |-> n + 1, j |-> 1]
  <2>1. 1 \in 1..l
    OBVIOUS
  <2> QED
    BY <2>1
<1>10. ASSUME NEW i \in 1..(a + l)
       PROVE  /\ at2[i].p <= n + 1 /\ at2[i].j <= Len(Writes(q2[at2[i].p]))
              /\ IF at2[i].j < Len(Writes(q2[at2[i].p]))
                 THEN i < a + l /\ at2[i + 1] = [p |-> at2[i].p, j |-> at2[i].j + 1]
                 ELSE IF at2[i].p < n + 1 THEN i < a + l /\ at2[i + 1] = [p |-> at2[i].p + 1, j |-> 1]
                 ELSE i = a + l
  <2>2. CASE i <= a
    <3>1. i \in 1..a /\ i < a + l
      BY <2>2
    <3>4. at2[i] = at[i] /\ q2[at2[i].p] = q[at[i].p]
      BY <1>8, <3>1
    <3>5. /\ at[i].p \in 1..n /\ at[i].j \in Nat
          /\ at[i].j <= Len(Writes(q[at[i].p]))
          /\ IF at[i].j < Len(Writes(q[at[i].p])) THEN i < a /\ at[i + 1] = [p |-> at[i].p, j |-> at[i].j + 1]
             ELSE IF at[i].p < n THEN i < a /\ at[i + 1] = [p |-> at[i].p + 1, j |-> 1]
             ELSE i = a
      BY <1>7, <3>1
    <3> DEFINE g == at[i].p
               h == at[i].j
               W == Len(Writes(q[at[i].p]))
               y == at2[i + 1]
    <3>6. /\ g \in 1..n /\ h \in Nat /\ h <= W
          /\ IF h < W THEN i < a /\ at[i + 1] = [p |-> g, j |-> h + 1]
             ELSE IF g < n THEN i < a /\ at[i + 1] = [p |-> g + 1, j |-> 1]
             ELSE i = a
      BY <3>5
    <3>7. at2[i].p = g /\ at2[i].j = h /\ Len(Writes(q2[at2[i].p])) = W
      BY <3>4
    <3>2. i < a => y = at[i + 1]
      BY <1>9, <3>1
    <3>3. i = a => y = [p |-> n + 1, j |-> 1]
      BY <1>14
    <3> HIDE DEF g, h, W, y
    <3>9. i < a \/ i = a
      BY <3>1
    <3>10. g <= n + 1 /\ g < n + 1 /\ (~(g < n) => g = n)
      BY <3>6
    <3>11. h < W => i < a + l /\ y = [p |-> g, j |-> h + 1]
      BY <3>1, <3>2, <3>6
    <3>12. ~(h < W) => i < a + l /\ y = [p |-> g + 1, j |-> 1]
      BY <3>1, <3>2, <3>3, <3>6, <3>10
    <3> QED
      BY <3>6, <3>7, <3>10, <3>11, <3>12 DEF y
  <2>3. CASE ~(i <= a)
    <3> DEFINE j == i - a
    <3>1. j \in 1..l /\ i = a + j
      BY <2>3
    <3> HIDE DEF j
    <3>2. at2[i] = [p |-> n + 1, j |-> j]
      BY <3>1
    <3>3. at2[i].p = n + 1 /\ at2[i].j = j /\ q2[at2[i].p] = x
      BY <3>2
    <3>4. j < l => i < a + l /\ at2[i + 1] = [p |-> n + 1, j |-> j + 1]
      <4>1. j < l => j + 1 \in 1..l /\ a + (j + 1) = i + 1 /\ i < a + l
        BY <3>1
      <4> QED
        BY <4>1
    <3>5. ~(j < l) => i = a + l
      <4>1. j <= l /\ j \in Nat
        BY <3>1
      <4> QED
        BY <3>1, <4>1
    <3>6. n + 1 <= n + 1 /\ ~(n + 1 < n + 1) /\ j <= l
      BY <3>1
    <3> QED
      BY <3>3, <3>4, <3>5, <3>6
  <2> QED
    BY <2>2, <2>3
<1>11. Line(q2, at2)
  <2>1. \A i \in 1..Len(at2) : at2[i].p <= Len(q2) /\ at2[i].j <= Len(Writes(q2[at2[i].p]))
    BY <1>10
  <2>2. \A i \in 1..Len(at2) :
           IF at2[i].j < Len(Writes(q2[at2[i].p]))
           THEN i < Len(at2) /\ at2[i + 1] = [p |-> at2[i].p, j |-> at2[i].j + 1]
           ELSE IF at2[i].p < Len(q2) THEN i < Len(at2) /\ at2[i + 1] = [p |-> at2[i].p + 1, j |-> 1]
           ELSE i = Len(at2)
    BY <1>10
  <2> QED
    BY <2>1, <2>2 DEF Line
<1>12. \A i \in 1..a : Chunk(q2, at2, i) = Chunk(q, at, i)
  BY <1>8 DEF Chunk
<1>13. ASSUME NEW j \in 1..l PROVE Chunk(q2, at2, a + j) = Writes(x)[j]
  <2>3. at2[a + j] = [p |-> n + 1, j |-> j]
    OBVIOUS
  <2>1. at2[a + j].p = n + 1 /\ at2[a + j].j = j
    BY <2>3
  <2>2. q2[at2[a + j].p] = x
    BY <2>1
  <2> QED
    BY <2>1, <2>2 DEF Chunk
<1> QED
  BY <1>11, <1>12, <1>13

(* The places of a packet's writes.                                        *)
LEMMA NewFacts ==
  ASSUME NEW n \in Nat, NEW l \in Nat
  PROVE  New(n + 1, l) \in Seq(Places) /\ Len(New(n + 1, l)) = l
         /\ \A j \in 1..l : New(n + 1, l)[j] = Place(n + 1, j)
<1> DEFINE N == New(n + 1, l)
<1>1. \A j \in 1..l : Place(n + 1, j) \in Places
  BY DEF Places, Place
<1>2. N \in [1..l -> Places] /\ \A j \in 1..l : N[j] = Place(n + 1, j)
  BY <1>1 DEF New
<1> HIDE DEF N
<1>3. N \in Seq(Places) /\ Len(N) = l
  BY <1>2, FunctionIsSeq
<1> QED
  BY <1>2, <1>3 DEF N

(* The line with the places of one more packet, of l writes.              *)
Longer(at, n, l) == at \o New(n + 1, l)

(* What the longer line holds at each index.                               *)
LEMMA PlacesAppended ==
  ASSUME NEW at \in Seq(Places), NEW n \in Nat, NEW l \in Nat
  PROVE  /\ Longer(at, n, l) \in Seq(Places) /\ Len(Longer(at, n, l)) = Len(at) + l
         /\ \A i \in 1..Len(at) : Longer(at, n, l)[i] = at[i]
         /\ \A j \in 1..l : Longer(at, n, l)[Len(at) + j] = Place(n + 1, j)
<1> DEFINE N == New(n + 1, l)
           a == Len(at)
           t == Longer(at, n, l)
<1>1. N \in Seq(Places) /\ Len(N) = l /\ \A j \in 1..l : N[j] = Place(n + 1, j)
  BY NewFacts
<1>2. a \in Nat
  BY LenProperties
<1>3. t \in Seq(Places) /\ Len(t) = a + Len(N)
      /\ \A i \in 1..(a + Len(N)) : t[i] = IF i <= a THEN at[i] ELSE N[i - a]
  <2>1. t = at \o N
    BY DEF Longer
  <2> HIDE DEF N
  <2>2. at \o N \in Seq(Places) /\ Len(at \o N) = Len(at) + Len(N)
      /\ \A i \in 1..(Len(at) + Len(N)) : (at \o N)[i] = IF i <= Len(at) THEN at[i] ELSE N[i - Len(at)]
    BY <1>1, ConcatProperties
  <2> QED
    BY <2>1, <2>2
<1> HIDE DEF N, a, t
<1>4. \A i \in 1..(a + l) : t[i] = IF i <= a THEN at[i] ELSE N[i - a]
  BY <1>1, <1>3
<1>5. \A i \in 1..a : t[i] = at[i]
  BY <1>1, <1>2, <1>4
<1>6. ASSUME NEW j \in 1..l PROVE t[a + j] = Place(n + 1, j)
  <2> DEFINE i == a + j
  <2>1. i \in 1..(a + l) /\ ~(i <= a) /\ i - a = j
    BY <1>2
  <2> HIDE DEF i
  <2>2. t[i] = IF i <= a THEN at[i] ELSE N[i - a]
    BY <2>1, <1>4
  <2>3. t[i] = N[j]
    BY <2>1, <2>2
  <2> QED
    BY <2>3, <1>1 DEF i
<1> QED
  BY <1>1, <1>3, <1>5, <1>6 DEF N, a, t

(* Encode gives the writes of a packet their places at the end.            *)
LEMMA LineExtended ==
  ASSUME NEW q \in Seq(Sending), NEW at, Line(q, at), NEW x \in Sending
  PROVE  LET l == Len(Writes(x))
             q2 == Append(q, x)
             at2 == Longer(at, Len(q), l)
         IN  /\ Line(q2, at2) /\ l \in Nat \ {0} /\ Len(at2) = Len(at) + l
             /\ q2 \in Seq(Sending) /\ Len(q2) = Len(q) + 1 /\ q2[Len(q) + 1] = x
             /\ \A i \in 1..Len(q) : q2[i] = q[i]
             /\ \A i \in 1..Len(at) : at2[i] = at[i] /\ Chunk(q2, at2, i) = Chunk(q, at, i)
             /\ \A j \in 1..l : at2[Len(at) + j] = [p |-> Len(q) + 1, j |-> j]
                                /\ Chunk(q2, at2, Len(at) + j) = Writes(x)[j]
<1> DEFINE n == Len(q)
           a == Len(at)
           l == Len(Writes(x))
           q2 == Append(q, x)
           at2 == Longer(at, n, l)
<1>1. n \in Nat /\ a \in Nat /\ at \in Seq(Places)
  BY LenProperties DEF Line
<1>2. l \in Nat \ {0}
  <2> DEFINE m == Count(x)
             W == Writes(x)
  <2>1. m \in 1..255 /\ W \in Seq(Bytes) /\ Len(W) = 9 + 7 * m /\ l = Len(W)
    BY WritesAt, SendingFacts
  <2> HIDE DEF m, W
  <2> QED
    BY <2>1
<1>3. /\ q2 \in Seq(Sending) /\ Len(q2) = n + 1 /\ q2[n + 1] = x
      /\ \A i \in 1..n : q2[i] = q[i]
  BY AppendProperties
<1>4. /\ at2 \in Seq(Places) /\ Len(at2) = a + l
      /\ \A i \in 1..a : at2[i] = at[i]
      /\ \A j \in 1..l : at2[a + j] = [p |-> n + 1, j |-> j]
  <2> HIDE DEF n, l, a, q2
  <2>1. l \in Nat /\ n \in Nat /\ at \in Seq(Places)
    BY <1>1, <1>2
  <2>2. Longer(at, n, l) \in Seq(Places) /\ Len(Longer(at, n, l)) = Len(at) + l
    BY <2>1, PlacesAppended
  <2>3. \A i \in 1..Len(at) : Longer(at, n, l)[i] = at[i]
    BY <2>1, PlacesAppended
  <2>4. \A j \in 1..l : Longer(at, n, l)[Len(at) + j] = Place(n + 1, j)
    BY <2>1, PlacesAppended
  <2> QED
    BY <2>2, <2>3, <2>4 DEF a, Place
<1>6. n = Len(q) /\ a = Len(at) /\ l = Len(Writes(x))
  OBVIOUS
<1> HIDE DEF n, a, l, q2, at2
<1>5. /\ Line(q2, at2)
      /\ \A i \in 1..a : Chunk(q2, at2, i) = Chunk(q, at, i)
      /\ \A j \in 1..l : Chunk(q2, at2, a + j) = Writes(x)[j]
  <2>1. Grown(q, at, x, n, a, l, q2, at2)
    BY <1>1, <1>2, <1>3, <1>4, <1>6 DEF Grown
  <2> QED
    BY <2>1, LineGrows
<1> QED
  BY <1>2, <1>3, <1>4, <1>5 DEF n, a, l, q2, at2

(* Small facts that the steps share.                                       *)
LEMMA DecodedLen == ASSUME Typed PROVE Len(decoded) \in Nat
BY LenProperties DEF Typed

(* What the reader has of a packet rests on want and part alone,           *)
LEMMA ProgressKept ==
  ASSUME NEW x, NEW e, Progress(x, e), UNCHANGED <<want, part>>
  PROVE  Progress(x, e)'
BY DEF Progress, Wanted, Half, Body

(* The packet that is read next, when there is none yet. *)
LEMMA ReadingStart ==
  ASSUME NEW x \in Sending, NEW q, NEW e, Reading(q, e), ~(Len(decoded) < Len(q)),
         UNCHANGED <<want, part>>
  PROVE  Progress(x, e)' /\ e \in {0, 1} /\ (e = 1 => closed /\ wire = <<>>)
<1>1. e \in {0, 1} /\ (e = 1 => closed /\ wire = <<>>) /\ want = SubSeq(PacketFields, e + 1, 8) /\ part = Empty
  BY DEF Reading
<1>3. Progress(x, e)'
  BY <1>1, FreshWanted
<1> QED
  BY <1>1, <1>3

(* Another packet is encoded.  If the reader has decoded all the others,   *)
(* this is the one it is at.                                               *)
LEMMA StreamBegin ==
  ASSUME Typed, StreamExists, NEW s \in Senders, StartEncode(s)
  PROVE  StreamExists'
<1>1. PICK q, at, w, O, B, e, r : Stream(q, at, w, O, B, e, r)
  BY DEF StreamExists
<1>2. PICK x \in Sending :
        /\ x.packet = Packet[s] /\ todo' = [todo EXCEPT ![s] = Writes(x)]
        /\ Writes(x) \in Seq(Bytes) /\ Writes(x) # <<>>
        /\ Packet[s] \in Packets
  BY Begin
<1>3. /\ mutex = None /\ mutex' = s /\ s # None /\ begun' = Append(begun, Packet[s])
      /\ wire' = wire /\ closed' = closed /\ reader' = reader /\ want' = want /\ part' = part /\ decoded' = decoded
  BY NoneAssumption DEF StartEncode, ReadVars
<1>4. /\ Sent(q) /\ Line(q, at) /\ Written(q, at, w, O, B) /\ Reading(q, e)
      /\ (closed /\ wire = <<>>) \/ Synced(q, at, w, O, B, e, r)
      /\ \A i \in 1..Len(decoded) : SamePacket(decoded[i], q[i].packet)
      /\ reader = "ended" => closed
  BY <1>1 DEF Stream
<1> DEFINE n == Len(q)
           a == Len(at)
           d == Len(decoded)
           l == Len(Writes(x))
           q2 == Append(q, x)
           at2 == Longer(at, n, l)
<1>5. n \in Nat /\ a \in Nat /\ d \in Nat /\ q \in Seq(Sending) /\ n = Len(begun) /\ d <= n
  BY <1>4, LenProperties, DecodedLen DEF Sent, Line, Reading
<1>6. /\ Line(q2, at2) /\ l \in Nat \ {0} /\ Len(at2) = a + l
      /\ q2 \in Seq(Sending) /\ Len(q2) = n + 1 /\ q2[n + 1] = x
      /\ \A i \in 1..n : q2[i] = q[i]
      /\ \A i \in 1..a : at2[i] = at[i] /\ Chunk(q2, at2, i) = Chunk(q, at, i)
      /\ \A j \in 1..l : at2[a + j] = [p |-> n + 1, j |-> j]
                         /\ Chunk(q2, at2, a + j) = Writes(x)[j]
  BY <1>4, <1>5, LineExtended
<1>7. todo'[s] = Writes(x)
  BY <1>2 DEF Typed
<1> HIDE DEF q2, at2
<1>8. Sent(q2)'
  <2>1. begun \in Seq(Packets)
    BY DEF Typed
  <2>2. Len(begun') = Len(begun) + 1 /\ begun'[Len(begun) + 1] = Packet[s] /\ \A i \in 1..Len(begun) : begun'[i] = begun[i]
    BY <1>2, <1>3, <2>1, AppendProperties
  <2>3. Len(begun') = n + 1 /\ begun'[n + 1] = Packet[s] /\ \A i \in 1..n : begun'[i] = begun[i]
    BY <1>5, <2>2
  <2>4. \A i \in 1..n : q[i].packet = begun[i]
    BY <1>4 DEF Sent
  <2> HIDE DEF n
  <2>5. ASSUME NEW i \in 1..(n + 1) PROVE q2[i].packet = begun'[i]
    <3>1. i = n + 1 \/ i \in 1..n
      BY <1>5
    <3> QED
      BY <1>2, <1>6, <2>3, <2>4, <3>1
  <2> QED
    BY <1>6, <2>3, <2>5 DEF Sent
<1>9. Written(q2, at2, w, O, B)'
  <2>1. /\ w \in 0..a /\ B \in Bytes
        /\ O \in [0..w -> 0..Len(B)] /\ O[w] = Len(B)
        /\ \A i \in 1..w : /\ O[i] = O[i - 1] + Len(Chunk(q, at, i))
                           /\ \A j \in 1..Len(Chunk(q, at, i)) : B[O[i - 1] + j] = Chunk(q, at, i)[j]
        /\ ~closed => w = a
    BY <1>3, <1>4 DEF Written
  <2> HIDE DEF a, l, n
  <2>2. w \in 0..Len(at2)
    BY <1>5, <1>6, <2>1
  <2>3. \A i \in 1..w : i \in 1..a
    BY <1>5, <2>1
  <2>4. \A i \in 1..w : Chunk(q2, at2, i) = Chunk(q, at, i)
    BY <1>6, <2>3
  <2>5. ASSUME ~closed
        PROVE  Len(todo'[s]) = Len(at2) - w /\ \A j \in 1..Len(todo'[s]) : todo'[s][j] = Chunk(q2, at2, w + j)
    <3>1. w = a
      BY <2>1, <2>5
    <3>2. Len(todo'[s]) = l
      BY <1>7 DEF l
    <3>3. (a + l) - a = l
      BY <1>5, <1>6
    <3>4. \A j \in 1..l : todo'[s][j] = Chunk(q2, at2, a + j)
      BY <1>6, <1>7
    <3> QED
      BY <1>6, <3>1, <3>2, <3>3, <3>4
  <2> QED
    BY <1>3, <2>1, <2>2, <2>4, <2>5 DEF Written
<1>10. Reading(q2, e)'
  <2>1. CASE d < n
    <3>1. e \in Nat /\ Progress(q[d + 1], e)
      BY <1>4, <2>1 DEF Reading
    <3>2. d + 1 \in 1..n /\ d < n + 1 /\ d <= n + 1
      BY <1>5, <2>1
    <3>3. q2[d + 1] = q[d + 1]
      BY <1>6, <3>2
    <3>4. PICK y : y = q2[d + 1]
      OBVIOUS
    <3>5. Progress(y, e)
      BY <3>1, <3>3, <3>4
    <3>6. Progress(y, e)'
      BY <1>3, <3>5, ProgressKept
    <3>7. y = q2[Len(decoded') + 1] /\ Len(decoded') < n + 1 /\ Len(decoded') <= n + 1
      BY <1>3, <3>2, <3>4
    <3> QED
      BY <1>6, <3>1, <3>6, <3>7 DEF Reading
  <2>2. CASE ~(d < n)
    <3>1. d = n
      BY <1>5, <2>2
    <3>2. Progress(x, e)' /\ e \in {0, 1}
      BY <1>3, <1>4, <2>2, ReadingStart
    <3>3. x = q2[Len(decoded') + 1]
      BY <1>3, <1>6, <3>1
    <3>4. Len(decoded') < n + 1 /\ Len(decoded') <= n + 1 /\ e \in Nat
      BY <1>3, <1>5, <3>1, <3>2
    <3> QED
      BY <1>6, <3>2, <3>3, <3>4 DEF Reading
  <2> QED
    BY <2>1, <2>2
<1>11. ((closed /\ wire = <<>>) \/ Synced(q2, at2, w, O, B, e, r))'
  <2> SUFFICES ASSUME ~(closed /\ wire = <<>>) PROVE Synced(q2, at2, w, O, B, e, r)'
    BY <1>3
  <2>1. Synced(q, at, w, O, B, e, r)
    BY <1>4
  <2>2. /\ r \in 0..w
        /\ IF d < n THEN r < a /\ at[r + 1] = [p |-> d + 1, j |-> e + 1] ELSE r = a
    BY <2>1 DEF Synced
  <2>3. d < n + 1
    BY <1>5
  <2>6. w \in Nat /\ r \in Nat
    <3>1. w \in 0..a
      BY <1>4 DEF Written
    <3> QED
      BY <1>5, <2>2, <3>1
  <2>4. r < a + l /\ at2[r + 1] = [p |-> d + 1, j |-> e + 1]
    <3>1. CASE d < n
      <4>1. r + 1 \in 1..a /\ r < a + l
        BY <1>5, <1>6, <2>2, <2>6, <3>1
      <4> QED
        BY <1>6, <2>2, <3>1, <4>1
    <3>2. CASE ~(d < n)
      <4>1. d = n /\ r = a
        BY <1>5, <2>2, <3>2
      <4>2. e = 0
        BY <1>4, <3>2 DEF Reading
      <4>3. 1 \in 1..l /\ a < a + l
        BY <1>5, <1>6
      <4>4. at2[a + 1] = [p |-> n + 1, j |-> 1]
        BY <1>6, <4>3
      <4> QED
        BY <4>1, <4>2, <4>3, <4>4
    <3> QED
      BY <3>1, <3>2
  <2> QED
    BY <1>3, <1>6, <2>1, <2>3, <2>4 DEF Synced
<1>12. \A i \in 1..Len(decoded') : SamePacket(decoded'[i], q2[i].packet)
  <2> TAKE i \in 1..Len(decoded')
  <2>1. i \in 1..d
    BY <1>3
  <2>2. i \in 1..n
    BY <1>5, <2>1
  <2> QED
    BY <1>3, <1>4, <1>6, <2>1, <2>2
<1>13. Stream(q2, at2, w, O, B, e, r)'
  BY <1>3, <1>4, <1>6, <1>8, <1>9, <1>10, <1>11, <1>12 DEF Stream
<1> QED
  BY <1>13 DEF StreamExists

(* A step that changes neither the connection nor the reader.              *)
LEMMA SyncedKept ==
  ASSUME NEW q, NEW at, NEW w, NEW O, NEW B, NEW e, NEW r, Synced(q, at, w, O, B, e, r),
         UNCHANGED <<wire, closed, decoded>>
  PROVE  Synced(q, at, w, O, B, e, r)'
BY DEF Synced

(* and what it reads on the packets decoded besides,                       *)
LEMMA ReadingKept ==
  ASSUME NEW q, NEW e, Reading(q, e), UNCHANGED <<want, part, decoded>>,
         e = 1 /\ closed /\ wire = <<>> => closed' /\ wire' = <<>>
  PROVE  Reading(q, e)'
<1>1. CASE Len(decoded) < Len(q)
  <2>1. PICK y : y = q[Len(decoded) + 1]
    OBVIOUS
  <2>2. e \in Nat /\ Progress(y, e)
    BY <1>1, <2>1 DEF Reading
  <2>3. Progress(y, e)'
    BY <2>2, ProgressKept
  <2>4. y = q[Len(decoded') + 1] /\ Len(decoded') < Len(q) /\ Len(decoded') <= Len(q)
    BY <1>1, <2>1 DEF Reading
  <2> QED
    BY <2>2, <2>3, <2>4 DEF Reading
<1>2. CASE ~(Len(decoded) < Len(q))
  BY <1>2 DEF Reading
<1> QED
  BY <1>1, <1>2

(* so a step that leaves them and the wire alone keeps the stream.         *)
LEMMA StreamKept ==
  ASSUME StreamExists, UNCHANGED <<wire, closed, want, part, begun, decoded>>, reader' = "ended" => closed',
         closed \/ UNCHANGED <<todo, mutex>>
  PROVE  StreamExists'
<1>1. PICK q, at, w, O, B, e, r : Stream(q, at, w, O, B, e, r)
  BY DEF StreamExists
<1>2. Sent(q)' /\ Line(q, at)
  BY <1>1 DEF Stream, Sent
<1>3. Written(q, at, w, O, B)'
  <2>1. Written(q, at, w, O, B)
    BY <1>1 DEF Stream
  <2>2. CASE closed
    BY <2>1, <2>2 DEF Written
  <2>3. CASE UNCHANGED <<todo, mutex>>
    BY <2>1, <2>3 DEF Written
  <2> QED
    BY <2>2, <2>3
<1>4. Reading(q, e)'
  BY <1>1, ReadingKept DEF Stream
<1>5. ((closed /\ wire = <<>>) \/ Synced(q, at, w, O, B, e, r))'
  BY <1>1, SyncedKept DEF Stream
<1>6. Line(q, at)'
  BY <1>2 DEF Line
<1>7. Stream(q, at, w, O, B, e, r)'
  BY <1>1, <1>2, <1>3, <1>4, <1>5, <1>6 DEF Stream
<1> QED
  BY <1>7 DEF StreamExists

(* The connection ends: a part of what was written stays readable.         *)
LEMMA StreamBreak ==
  ASSUME Typed, StreamExists, ~closed, Break, UNCHANGED <<want, part, begun, decoded>>
  PROVE  StreamExists'
<1>1. PICK q, at, w, O, B, e, r : Stream(q, at, w, O, B, e, r)
  BY DEF StreamExists
<1>2. Sent(q)' /\ Line(q, at)'
  BY <1>1 DEF Stream, Sent, Line
<1>3. PICK k \in 0..Len(wire) : wire' = SubSeq(wire, 1, k)
  BY DEF Break
<1>4. closed' = TRUE
  BY DEF Break
<1>5. Written(q, at, w, O, B)'
  BY <1>1, <1>4 DEF Stream, Written
<1>6. Len(wire) \in Nat /\ k \in Nat /\ k <= Len(wire) /\ Len(wire') = k /\ \A j \in 1..k : wire'[j] = wire[j]
  <2>1. wire \in Bytes
    BY DEF Typed
  <2> QED
    BY <1>3, <2>1, BytesFacts
<1>7. Reading(q, e)'
  BY <1>1, ReadingKept DEF Stream
<1>8. Synced(q, at, w, O, B, e, r)'
  <2>1. Synced(q, at, w, O, B, e, r)
    BY <1>1 DEF Stream
  <2> DEFINE u == Len(B) - O[r]
             z == Len(wire)
  <2>2. z <= u /\ z = u /\ \A j \in 1..z : wire[j] = B[O[r] + j]
    BY <2>1 DEF Synced
  <2>3. z \in Nat /\ k <= z /\ k \in Nat
    BY <1>6
  <2> HIDE DEF u, z
  <2>4. k <= u /\ \A j \in 1..k : wire'[j] = B[O[r] + j]
    <3>1. \A j \in 1..k : j \in 1..z
      BY <2>3
    <3>2. k <= u
      BY <2>2, <2>3
    <3> QED
      BY <1>6, <2>2, <3>1, <3>2
  <2> QED
    BY <1>4, <1>6, <2>1, <2>4 DEF Synced, u
<1>9. Stream(q, at, w, O, B, e, r)'
  BY <1>1, <1>2, <1>4, <1>5, <1>7, <1>8 DEF Stream
<1> QED
  BY <1>9 DEF StreamExists

(* One more write.                                                         *)
LEMMA StreamWrite ==
  ASSUME IInv, Typed, StreamExists, NEW s \in Senders, Write(s)
  PROVE  StreamExists'
<1>1. CASE closed
  BY <1>1, StreamKept DEF Write, ReadVars, StreamExists, Stream
<1>2. CASE ~closed
  <2>1. PICK q, at, w, O, B, e, r : Stream(q, at, w, O, B, e, r)
    BY DEF StreamExists
  <2>2. mutex = s /\ s # None /\ todo[s] \in Seq(Bytes) /\ todo[s] # <<>>
    BY NoneAssumption DEF Write, IInv, Exclusive, Typed
  <2>0. PICK T, c : T = todo[s] /\ c = Head(T)
    OBVIOUS
  <2> DEFINE d == Len(c)
             l == Len(B)
             v == w + 1
             B2 == B \o c
             O2 == [i \in 0..v |-> IF i <= w THEN O[i] ELSE O[w] + d]
  <2>3. /\ Len(T) \in Nat /\ Len(T) >= 1 /\ c = T[1] /\ c \in Bytes
        /\ Tail(T) \in Seq(Bytes) /\ Len(Tail(T)) = Len(T) - 1
        /\ \A j \in 1..Len(Tail(T)) : Tail(T)[j] = T[j + 1]
    BY <2>0, <2>2, TodoFacts
  <2>4. /\ Sent(q) /\ Line(q, at) /\ Written(q, at, w, O, B) /\ Reading(q, e) /\ Synced(q, at, w, O, B, e, r)
        /\ \A i \in 1..Len(decoded) : SamePacket(decoded[i], q[i].packet)
        /\ reader # "ended"
    BY <1>2, <2>1 DEF Stream
  <2>5. /\ wire' = wire \o c /\ closed' = closed /\ begun' = begun
        /\ want' = want /\ part' = part /\ decoded' = decoded /\ reader' = reader
        /\ IF Len(T) = 1 THEN mutex' = None ELSE mutex' = s /\ todo' = [todo EXCEPT ![s] = Tail(T)]
    BY <1>2, <2>0, <2>2 DEF Write, Return, ReadVars
  <2>6. Len(T) # 1 => todo'[s] = Tail(T)
    BY <2>5 DEF Typed
  <2>7. wire \in Bytes /\ B \in Bytes
    BY <2>4 DEF Typed, Written
  <2>8. /\ B2 \in Bytes /\ Len(B2) = l + d /\ l \in Nat /\ d \in Nat
        /\ \A j \in 1..(l + d) : B2[j] = IF j <= l THEN B[j] ELSE c[j - l]
    <3>1. Len(c) \in Nat /\ Len(B) \in Nat
      BY <2>3, <2>7, BytesFacts
    <3>2. B \o c \in Bytes /\ Len(B \o c) = Len(B) + Len(c)
          /\ \A j \in 1..(Len(B) + Len(c)) : (B \o c)[j] = IF j <= Len(B) THEN B[j] ELSE c[j - Len(B)]
      BY <2>3, <2>7, BytesFacts
    <3> QED
      BY <3>1, <3>2
  <2> DEFINE k == Len(wire)
  <2>9. /\ Len(wire') = k + d /\ k \in Nat
        /\ \A j \in 1..(k + d) : wire'[j] = IF j <= k THEN wire[j] ELSE c[j - k]
    <3>1. k \in Nat
      BY <2>7, BytesFacts
    <3> HIDE DEF k
    <3>2. Len(wire \o c) = Len(wire) + Len(c)
          /\ \A j \in 1..(Len(wire) + Len(c)) : (wire \o c)[j] = IF j <= Len(wire) THEN wire[j] ELSE c[j - Len(wire)]
      BY <2>3, <2>7, BytesFacts
    <3> QED
      BY <2>5, <3>1, <3>2 DEF k
  <2>10. /\ w \in 0..Len(at) /\ O \in [0..w -> 0..l] /\ O[w] = l
         /\ \A i \in 1..w : /\ O[i] = O[i - 1] + Len(Chunk(q, at, i))
                            /\ \A j \in 1..Len(Chunk(q, at, i)) : B[O[i - 1] + j] = Chunk(q, at, i)[j]
         /\ Len(T) = Len(at) - w
         /\ \A j \in 1..Len(T) : T[j] = Chunk(q, at, w + j)
    BY <1>2, <2>0, <2>2, <2>4 DEF Written
  <2> DEFINE a == Len(at)
             t == Len(T)
  <2>11. a \in Nat
    BY <2>4, LenProperties DEF Line
  <2>12. w \in Nat /\ v \in 0..a /\ t = a - w /\ t \in Nat /\ t >= 1 /\ v = w + 1
    <3> HIDE DEF t, a
    <3>1. w \in 0..a /\ t = a - w /\ t \in Nat /\ t >= 1
      BY <2>3, <2>10 DEF t, a
    <3> QED
      BY <2>11, <3>1
  <2>13. c = Chunk(q, at, v)
    <3> HIDE DEF v
    <3>1. 1 \in 1..Len(T)
      BY <2>3
    <3> QED
      BY <2>3, <2>10, <3>1 DEF v
  <2>14. /\ O2 \in [0..v -> 0..(l + d)] /\ O2[v] = l + d
         /\ \A i \in 0..w : O2[i] = O[i]
    <3> HIDE DEF d, l, v
    <3>1. \A i \in 0..w : i \in 0..v /\ i <= w
      BY <2>12
    <3>2. v \in 0..v /\ ~(v <= w) /\ \A i \in 0..v : i \in 0..w \/ i = v
      BY <2>12
    <3>3. \A i \in 0..w : O[i] \in 0..l /\ O[i] \in 0..(l + d)
      BY <2>8, <2>10
    <3>4. l + d \in 0..(l + d)
      BY <2>8
    <3>5. \A i \in 0..w : O2[i] = O[i]
      BY <3>1
    <3>6. O2[v] = l + d
      BY <2>10, <3>2
    <3> QED
      BY <3>1, <3>2, <3>3, <3>4, <3>5, <3>6
  <2> HIDE DEF O2, B2, v, d, l, a, k
  <2>15. ASSUME NEW i \in 1..v
         PROVE  /\ O2[i] = O2[i - 1] + Len(Chunk(q, at, i))
                /\ \A j \in 1..Len(Chunk(q, at, i)) : B2[O2[i - 1] + j] = Chunk(q, at, i)[j]
    <3>1. CASE i <= w
      <4>1. i \in 1..w /\ i \in 0..w /\ i - 1 \in 0..w
        BY <2>12, <3>1
      <4> DEFINE y == O[i - 1]
                 x == Len(Chunk(q, at, i))
      <4>2. O2[i] = O[i] /\ O2[i - 1] = y /\ O[i] = y + x
        BY <2>10, <2>14, <4>1
      <4>3. y \in 0..l /\ O[i] \in 0..l
        BY <2>10, <4>1
      <4>4. \A j \in 1..x : B[y + j] = Chunk(q, at, i)[j]
        BY <2>10, <4>1
      <4> HIDE DEF y, x
      <4>5. ASSUME NEW j \in 1..x PROVE B2[y + j] = B[y + j]
        <5>1. x \in Int \/ x \notin Int
          OBVIOUS
        <5>2. x \in Nat
          <6>1. Chunk(q, at, i) \in Bytes
            <7>1. i \in 1..Len(at)
              BY <2>11, <2>12, <4>1 DEF a
            <7> QED
              BY <2>4, <7>1, ChunkFacts
          <6> QED
            BY <6>1, BytesFacts DEF x
        <5>3. y + j \in 1..(l + d) /\ y + j <= l
          BY <2>8, <4>2, <4>3, <5>2
        <5> QED
          BY <2>8, <5>3
      <4> QED
        BY <4>2, <4>4, <4>5 DEF x, y
    <3>2. CASE ~(i <= w)
      <4>1. i = v /\ i - 1 = w /\ w \in 0..w
        BY <2>12, <3>2
      <4>2. O2[i] = l + d /\ O2[i - 1] = l /\ Chunk(q, at, i) = c
        BY <2>10, <2>13, <2>14, <4>1
      <4>3. ASSUME NEW j \in 1..d PROVE B2[l + j] = c[j]
        <5>1. l + j \in 1..(l + d) /\ ~(l + j <= l) /\ (l + j) - l = j
          BY <2>8
        <5> QED
          BY <2>8, <5>1
      <4> QED
        BY <4>2, <4>3 DEF d
    <3> QED
      BY <3>1, <3>2
  <2>16. IF mutex' = None THEN v = a
         ELSE /\ Len(todo'[mutex']) = a - v
              /\ \A j \in 1..Len(todo'[mutex']) : todo'[mutex'][j] = Chunk(q, at, v + j)
    <3>1. CASE Len(T) = 1
      <4>1. t = 1
        BY <3>1 DEF t
      <4> HIDE DEF t
      <4>2. v = a
        BY <2>11, <2>12, <4>1
      <4> QED
        BY <2>5, <3>1, <4>2
    <3>2. CASE Len(T) # 1
      <4>1. mutex' = s /\ todo'[s] = Tail(T) /\ s # None
        BY <2>2, <2>5, <2>6, <3>2
      <4>2. Len(Tail(T)) = a - v
        BY <2>3, <2>11, <2>12 DEF t
      <4>3. ASSUME NEW j \in 1..Len(Tail(T)) PROVE Tail(T)[j] = Chunk(q, at, v + j)
        <5>1. j + 1 \in 1..Len(T) /\ w + (j + 1) = v + j
          BY <2>3, <2>12
        <5>2. T[j + 1] = Chunk(q, at, w + (j + 1))
          BY <2>10, <5>1
        <5> QED
          BY <2>3, <5>1, <5>2
      <4> QED
        BY <4>1, <4>2, <4>3
    <3> QED
      BY <3>1, <3>2
  <2>17. Written(q, at, v, O2, B2)'
    BY <2>8, <2>12, <2>14, <2>15, <2>16 DEF Written, a
  <2>18. Reading(q, e)'
    BY <1>2, <2>4, <2>5, ReadingKept
  <2>19. Synced(q, at, v, O2, B2, e, r)'
    <3> DEFINE u == O[r]
    <3>1. /\ r \in 0..w
          /\ IF Len(decoded) < Len(q) THEN r < Len(at) /\ at[r + 1] = [p |-> Len(decoded) + 1, j |-> e + 1] ELSE r = Len(at)
          /\ k = l - u
          /\ \A j \in 1..k : wire[j] = B[u + j]
      BY <1>2, <2>4 DEF Synced, k, l
    <3>2. r \in 0..v /\ O2[r] = u /\ u \in 0..l
      BY <2>10, <2>12, <2>14, <3>1
    <3> HIDE DEF u
    <3>3. k + d <= (l + d) - u /\ k + d = (l + d) - u
      BY <2>8, <2>9, <3>1, <3>2
    <3>4. ASSUME NEW j \in 1..(k + d) PROVE wire'[j] = B2[u + j]
      <4>1. CASE j <= k
        <5>1. j \in 1..k /\ u + j \in 1..(l + d) /\ u + j <= l
          BY <2>8, <2>9, <3>1, <3>2, <4>1
        <5>2. B2[u + j] = B[u + j]
          BY <2>8, <5>1
        <5> QED
          BY <2>9, <3>1, <4>1, <5>1, <5>2
      <4>2. CASE ~(j <= k)
        <5>1. u + j \in 1..(l + d) /\ ~(u + j <= l) /\ (u + j) - l = j - k
          BY <2>8, <2>9, <3>1, <3>2, <4>2
        <5>2. B2[u + j] = c[(u + j) - l]
          BY <2>8, <5>1
        <5> QED
          BY <2>9, <4>2, <5>1, <5>2
      <4> QED
        BY <4>1, <4>2
    <3>5. Len(B2) = l + d /\ Len(wire') = k + d /\ decoded' = decoded
      BY <2>5, <2>8, <2>9
    <3> QED
      BY <3>1, <3>2, <3>3, <3>4, <3>5 DEF Synced
  <2>20. Sent(q)' /\ Line(q, at)'
    BY <2>4, <2>5 DEF Sent, Line
  <2>21. Stream(q, at, v, O2, B2, e, r)'
    BY <2>4, <2>5, <2>17, <2>18, <2>19, <2>20 DEF Stream
  <2> QED
    BY <2>21 DEF StreamExists
<1> QED
  BY <1>1, <1>2

-----------------------------------------------------------------------------
(* The reader: tags and fields.                                            *)

(* TagReader compares one byte.                                            *)
LEMMA PrefixFacts ==
  ASSUME NEW b \in Bytes, NEW t
  PROVE  IsPrefix(<<t>>, b) <=> b # <<>> /\ b[1] = t
<1>1. Len(b) \in Nat /\ (b = <<>> <=> Len(b) = 0)
  BY BytesFacts
<1>2. Len(<<t>>) = 1 /\ SubSeq(<<t>>, 1, 1) = <<t>>
  <2>1. <<t>> \in Seq({t}) /\ Len(<<t>>) = 1
    OBVIOUS
  <2>2. SubSeq(<<t>>, 1, Len(<<t>>)) = <<t>>
    BY <2>1, SubSeqFull
  <2> QED
    BY <2>1, <2>2
<1>3. ASSUME b # <<>> PROVE SubSeq(b, 1, 1) = <<b[1]>>
  <2>1. b \in Seq(Byte) /\ 1 \in 1..Len(b)
    BY <1>1, <1>3 DEF Bytes
  <2>2. SubSeq(b, 1, 1) = <<b[1]>> \o SubSeq(b, 1 + 1, 1)
    BY <2>1, SubSeqRecursiveFirst
  <2>3. SubSeq(b, 1 + 1, 1) = <<>>
    BY SubSeqEmpty
  <2>4. <<b[1]>> \o <<>> = <<b[1]>>
    OBVIOUS
  <2> QED
    BY <2>2, <2>3, <2>4
<1>4. <<b[1]>> = <<t>> <=> b[1] = t
  OBVIOUS
<1>5. IsPrefix(<<t>>, b) <=> 1 <= Len(b) /\ <<t>> = SubSeq(b, 1, 1)
  BY <1>2 DEF IsPrefix
<1>6. 1 <= Len(b) <=> b # <<>>
  BY <1>1
<1> QED
  BY <1>3, <1>4, <1>5, <1>6

(* Between two packets, or in one that lost all but its first byte. *)
LEMMA Between ==
  ASSUME NEW q, NEW e, Reading(q, e), ~(Len(decoded) < Len(q))
  PROVE  /\ e \in {0, 1} /\ (e = 1 => closed /\ wire = <<>>)
         /\ part = Empty
         /\ e = 0 => Head(want) = Tag(PacketOpen) /\ Tail(want) = SubSeq(PacketFields, 2, 8)
         /\ e = 1 => Head(want) = Field("meta")
         /\ Len(want) # 1
<1> DEFINE F == PacketFields
<1>1. F \in Seq(Fields) /\ Len(F) = 8 /\ F[1] = Tag(PacketOpen) /\ F[2] = Field("meta")
  BY PacketFieldsFacts
<1>2. e \in {0, 1} /\ (e = 1 => closed /\ wire = <<>>) /\ want = SubSeq(F, e + 1, 8) /\ part = Empty
  BY DEF Reading
<1> HIDE DEF F
<1>3. Len(want) = 8 - e
  BY <1>1, <1>2, SubSeqFacts
<1>4. Len(want) # 1
  BY <1>2, <1>3
<1>5. 1 \in 1..Len(F) /\ 2 \in 1..Len(F) /\ 8 \in 1..Len(F) /\ 8 \in 2..Len(F)
  BY <1>1
<1>6. Head(SubSeq(F, 1, 8)) = F[1] /\ Tail(SubSeq(F, 1, 8)) = SubSeq(F, 1 + 1, 8)
  BY <1>1, <1>5, HeadTailOfSubSeq
<1>7. Head(SubSeq(F, 2, 8)) = F[2]
  BY <1>1, <1>5, HeadTailOfSubSeq
<1>8. e = 0 => Head(want) = F[1] /\ Tail(want) = SubSeq(F, 2, 8)
  BY <1>2, <1>6
<1>9. e = 1 => Head(want) = F[2]
  BY <1>2, <1>7
<1> QED
  BY <1>1, <1>2, <1>4, <1>8, <1>9 DEF F

(* The next packet is read from its beginning. *)
LEMMA NextPacket ==
  ASSUME NEW q, q \in Seq(Sending), Len(decoded') \in Nat, Len(decoded') <= Len(q), want' = PacketFields, part' = Empty
  PROVE  Reading(q, 0)'
<1>1. SubSeq(PacketFields, 0 + 1, 8) = PacketFields
  <2> DEFINE F == PacketFields
  <2>1. F \in Seq(Fields) /\ Len(F) = 8
    BY PacketFieldsFacts
  <2> HIDE DEF F
  <2>2. SubSeq(F, 1, Len(F)) = F
    BY <2>1, SubSeqFull
  <2> QED
    BY <2>1, <2>2 DEF F
<1>2. CASE Len(decoded') < Len(q)
  <2>1. PICK y : y = q[Len(decoded') + 1]
    OBVIOUS
  <2>2. Len(q) \in Nat
    BY LenProperties
  <2>3. Len(decoded') + 1 \in 1..Len(q)
    BY <1>2, <2>2
  <2>4. y \in Sending
    BY <2>1, <2>3, ElementOfSeq
  <2>5. Progress(y, 0)'
    BY <1>1, <2>4, FreshWanted
  <2> QED
    BY <1>2, <2>1, <2>5 DEF Reading
<1>3. CASE ~(Len(decoded') < Len(q))
  BY <1>1, <1>3 DEF Reading
<1> QED
  BY <1>2, <1>3

(* The number of modules of a packet.                                      *)
LEMMA CountNat == ASSUME NEW x \in Sending PROVE Count(x) \in Nat
<1> DEFINE m == Count(x)
<1>1. m \in 1..255
  BY SendingFacts
<1> HIDE DEF m
<1>2. m \in Nat
  BY <1>1
<1> QED
  BY <1>2 DEF m

(* A tag: it is there, or the connection has ended.                        *)
LEMMA StreamTag ==
  ASSUME Typed, StreamExists, ReadTag
  PROVE  StreamExists'
<1>1. PICK q, at, w, O, B, e, r : Stream(q, at, w, O, B, e, r)
  BY DEF StreamExists
<1>2. /\ Sent(q) /\ Line(q, at) /\ Written(q, at, w, O, B) /\ Reading(q, e)
      /\ (closed /\ wire = <<>>) \/ Synced(q, at, w, O, B, e, r)
      /\ \A i \in 1..Len(decoded) : SamePacket(decoded[i], q[i].packet)
      /\ reader = "ended" => closed
  BY <1>1 DEF Stream
<1>3. /\ wire \in Bytes /\ closed \in BOOLEAN /\ Len(decoded) \in Nat /\ q \in Seq(Sending) /\ Len(q) \in Nat
      /\ Len(wire) \in Nat
  BY <1>2, DecodedLen, BytesFacts, LenProperties DEF Typed, Sent
<1>4. /\ Head(want).kind = "tag" /\ reader # "ended" /\ (wire # <<>> \/ closed)
      /\ UNCHANGED <<todo, mutex, begun>>
  BY DEF ReadTag, SendVars
<1> DEFINE n == Len(decoded)
           x == q[n + 1]
           t == Head(want).t
(* What is there is the tag. *)
<1>5. ASSUME wire # <<>>
      PROVE  /\ Synced(q, at, w, O, B, e, r) /\ n < Len(q) /\ wire[1] = t
             /\ Len(Writes(x)[e + 1]) = 1
  <2>1. Synced(q, at, w, O, B, e, r)
    BY <1>2, <1>5
  <2>2. /\ n < Len(q) /\ x \in Sending /\ Progress(x, e)
        /\ \A j \in 1..Len(Writes(x)[e + 1]) : j <= Len(wire) => wire[j] = Writes(x)[e + 1][j]
    BY <1>2, <1>3, <1>5, <2>1, AtReader
  <2>3. Writes(x)[e + 1] = <<t>>
    BY <1>4, <2>2, Fits
  <2>4. Len(wire) # 0
    BY <1>3, <1>5, BytesFacts
  <2>5. wire[1] = t
    <3> HIDE DEF x, t
    <3>1. Len(Writes(x)[e + 1]) = 1 /\ Writes(x)[e + 1][1] = t
      BY <2>3
    <3>2. 1 \in 1..Len(Writes(x)[e + 1]) /\ 1 <= Len(wire)
      BY <1>3, <2>4, <3>1
    <3> QED
      BY <2>2, <3>1, <3>2
  <2>6. Len(Writes(x)[e + 1]) = 1
    <3> HIDE DEF x, t
    <3> QED
      BY <2>3
  <2> QED
    BY <2>1, <2>2, <2>5, <2>6
<1>6. CASE ~IsPrefix(<<t>>, wire) /\ DecodeFails
  <2>1. closed
    BY <1>3, <1>4, <1>5, <1>6, PrefixFacts
  <2>2. UNCHANGED <<wire, want, part, decoded>> /\ closed' = closed
    BY <1>3, <1>6, <2>1 DEF DecodeFails
  <2> QED
    BY <1>4, <2>1, <2>2, StreamKept
<1>7. CASE /\ wire = <<>> \/ IsPrefix(<<t>>, wire)
           /\ wire' = IF wire = <<>> THEN wire ELSE Tail(wire)
           /\ DecodeGoesOn(Tail(want))
           /\ part' = IF Len(want) = 1 THEN Empty ELSE part
           /\ UNCHANGED closed
  <2>1. wire = <<>> => closed
    BY <1>4
  <2>2. Sent(q)' /\ Line(q, at)' /\ Written(q, at, w, O, B)'
    <3>1. closed' = closed
      BY <1>7
    <3> QED
      BY <1>2, <1>4, <3>1 DEF Sent, Line, Written
  <2>3. reader' # "ended"
    BY <1>4, <1>7 DEF DecodeGoesOn
  <2>4. ASSUME NEW f, wire # <<>>, x \in Sending, e \in Nat,
               \/ Len(decoded') = n /\ f = e + 1 /\ e + 1 < Len(Writes(x))
               \/ Len(decoded') = n + 1 /\ f = 0 /\ e + 1 = Len(Writes(x))
        PROVE  Synced(q, at, w, O, B, f, r + 1)'
    <3>1. wire' = Tail(wire) /\ closed' = closed
      BY <1>7, <2>4
    <3>2. Len(wire') = Len(wire) - 1 /\ \A j \in 1..Len(wire') : wire'[j] = wire[1 + j]
      BY <1>3, <2>4, <3>1, TailFacts
    <3>3. Synced(q, at, w, O, B, e, r) /\ Len(Writes(x)[e + 1]) = 1
      BY <1>5, <2>4
    <3>4. 1 <= Len(wire)
      BY <1>3, <2>4, BytesFacts
    <3> QED
      BY <1>2, <1>3, <2>4, <3>1, <3>2, <3>3, <3>4, Advance
  <2>5. CASE ~(n < Len(q))
    <3>1. wire = <<>> /\ closed
      BY <1>5, <2>1, <2>5
    <3>2. e = 0 /\ Len(want) # 1 /\ Tail(want) = SubSeq(PacketFields, 2, 8) /\ part = Empty
      BY <1>2, <1>4, <2>5, Between, KindFacts
    <3>3. Tail(want) # <<>>
      <4> DEFINE F == PacketFields
      <4>1. F \in Seq(Fields) /\ Len(F) = 8
        BY PacketFieldsFacts
      <4> HIDE DEF F
      <4>2. SubSeq(F, 1 + 1, 8) \in Seq(Fields) /\ Len(SubSeq(F, 1 + 1, 8)) = 8 - 1
        BY <4>1, SubSeqFacts
      <4>4. Len(SubSeq(F, 1 + 1, 8)) # 0 /\ 1 + 1 = 2
        BY <4>2
      <4>3. SubSeq(F, 2, 8) # <<>>
        BY <4>2, <4>4, EmptySeq
      <4> QED
        BY <3>2, <4>3 DEF F
    <3>4. want' = SubSeq(PacketFields, 1 + 1, 8) /\ part' = Empty /\ decoded' = decoded /\ wire' = <<>> /\ closed'
      <4>1. want' = Tail(want) /\ decoded' = decoded
        BY <1>7, <3>3 DEF DecodeGoesOn
      <4>2. 1 + 1 = 2
        OBVIOUS
      <4> QED
        BY <1>7, <3>1, <3>2, <4>1, <4>2
    <3>5. Reading(q, 1)'
      BY <1>2, <2>5, <3>4 DEF Reading
    <3>6. Stream(q, at, w, O, B, 1, r)'
      BY <1>2, <2>2, <2>3, <3>4, <3>5 DEF Stream
    <3> QED
      BY <3>6 DEF StreamExists
  <2>6. CASE n < Len(q)
    <3>1. x \in Sending /\ e \in Nat /\ Progress(x, e)
      <4>1. n + 1 \in 1..Len(q)
        BY <1>3, <2>6
      <4> QED
        BY <1>2, <1>3, <2>6, <4>1, ElementOfSeq DEF Reading
    <3>2. /\ Len(want) = 1 <=> (e = 7 \/ e = 8 + 7 * Count(x))
          /\ want # <<>> /\ want \in Seq(Fields)
          /\ e + 1 \in 1..Len(Writes(x)) /\ e # 7 /\ Len(Writes(x)) = 9 + 7 * Count(x)
          /\ Count(x) \in Nat
      <4>1. Count(x) \in Nat
        BY <3>1, CountNat
      <4>2. want \in Seq(Fields)
        BY <3>1 DEF Progress, Wanted
      <4>3. e + 1 \in 1..Len(Writes(x)) /\ e # 7
        BY <1>4, <3>1, Fits
      <4>4. Len(want) = 1 <=> (e = 7 \/ e = 8 + 7 * Count(x))
        BY <3>1, WantedHead
      <4>5. want # <<>>
        BY <3>1, WantedHead
      <4>6. Len(Writes(x)) = 9 + 7 * Count(x)
        BY <3>1, WritesAt
      <4> QED
        BY <4>1, <4>2, <4>3, <4>4, <4>5, <4>6
    <3> DEFINE l == Len(Writes(x))
               m == Count(x)
    <3>3. Len(want) = 1 <=> e + 1 = l
      <4> HIDE DEF m, l
      <4>1. (Len(want) = 1 <=> (e = 7 \/ e = 8 + 7 * m)) /\ e # 7 /\ l = 9 + 7 * m /\ m \in Nat
        BY <3>2 DEF m, l
      <4>2. e = 8 + 7 * m <=> e + 1 = 9 + 7 * m
        BY <3>1, <4>1
      <4> QED
        BY <4>1, <4>2
    <3>4. Tail(want) = <<>> <=> Len(want) = 1
      <4>1. Tail(want) \in Seq(Fields) /\ Len(Tail(want)) = Len(want) - 1 /\ Len(want) \in Nat
        BY <3>2, HeadTailProperties, LenProperties
      <4>2. Tail(want) = <<>> <=> Len(Tail(want)) = 0
        BY <4>1, EmptySeq
      <4> QED
        BY <4>1, <4>2
    <3>5. CASE Len(want) # 1
      <4>1. want' = Tail(want) /\ part' = part /\ decoded' = decoded
        BY <1>7, <3>4, <3>5 DEF DecodeGoesOn
      <4>2. PICK y : y = x
        OBVIOUS
      <4>3. Progress(y, e + 1)'
        BY <1>4, <3>1, <3>5, <4>1, <4>2, TagRead
      <4>4. Reading(q, e + 1)'
        <5>1. y = q[Len(decoded') + 1] /\ Len(decoded') < Len(q) /\ Len(decoded') <= Len(q) /\ e + 1 \in Nat
          BY <1>3, <2>6, <3>1, <4>1, <4>2
        <5> QED
          BY <4>3, <5>1 DEF Reading
      <4>5. \E k : ((closed /\ wire = <<>>) \/ Synced(q, at, w, O, B, e + 1, k))'
        <5>1. CASE wire = <<>>
          BY <1>7, <2>1, <5>1
        <5>2. CASE wire # <<>>
          <6>1. e + 1 < l
            <7> HIDE DEF l, m
            <7>1. e + 1 \in 1..l /\ e + 1 # l /\ l = 9 + 7 * m /\ m \in Nat
              BY <3>2, <3>3, <3>5 DEF l, m
            <7>2. e \in Nat
              BY <3>1
            <7> QED
              BY <7>1, <7>2
          <6>2. Len(decoded') = n
            BY <4>1
          <6>3. Synced(q, at, w, O, B, e + 1, r + 1)'
            BY <2>4, <3>1, <5>2, <6>1, <6>2
          <6> QED
            BY <6>3
        <5> QED
          BY <5>1, <5>2
      <4>6. PICK k : ((closed /\ wire = <<>>) \/ Synced(q, at, w, O, B, e + 1, k))'
        BY <4>5
      <4>7. Stream(q, at, w, O, B, e + 1, k)'
        BY <1>2, <2>2, <2>3, <4>1, <4>4, <4>6 DEF Stream
      <4> QED
        BY <4>7 DEF StreamExists
    <3>6. CASE Len(want) = 1
      <4> DEFINE z == [meta |-> part.meta, modules |-> part.modules]
      <4>1. want' = PacketFields /\ part' = Empty /\ decoded' = Append(decoded, z)
        BY <1>7, <3>4, <3>6 DEF DecodeGoesOn
      <4>2. SamePacket(z, x.packet)
        BY <1>4, <3>1, <3>6, Complete
      <4> HIDE DEF z
      <4>3. /\ Len(decoded') = n + 1 /\ decoded'[n + 1] = z /\ \A i \in 1..n : decoded'[i] = decoded[i]
        <5>1. PICK S : decoded \in Seq(S)
          BY DEF Typed
        <5>2. decoded \in Seq(S \cup {z}) /\ z \in S \cup {z}
          BY <5>1, SeqMonotonic
        <5> QED
          BY <4>1, <5>2, AppendProperties
      <4>4. Reading(q, 0)'
        <5>1. Len(decoded') \in Nat /\ Len(decoded') <= Len(q)
          BY <1>3, <2>6, <4>3
        <5> QED
          BY <1>3, <4>1, <5>1, NextPacket
      <4>5. \A i \in 1..Len(decoded') : SamePacket(decoded'[i], q[i].packet)
        <5> TAKE i \in 1..Len(decoded')
        <5>1. i = n + 1 \/ i \in 1..n
          BY <1>3, <4>3
        <5> QED
          BY <1>2, <4>2, <4>3, <5>1
      <4>6. \E k : ((closed /\ wire = <<>>) \/ Synced(q, at, w, O, B, 0, k))'
        <5>1. CASE wire = <<>>
          BY <1>7, <2>1, <5>1
        <5>2. CASE wire # <<>>
          <6>3. Synced(q, at, w, O, B, 0, r + 1)'
            BY <2>4, <3>1, <3>3, <3>6, <4>3, <5>2
          <6> QED
            BY <6>3
        <5> QED
          BY <5>1, <5>2
      <4>7. PICK k : ((closed /\ wire = <<>>) \/ Synced(q, at, w, O, B, 0, k))'
        BY <4>6
      <4>8. Stream(q, at, w, O, B, 0, k)'
        BY <1>2, <2>2, <2>3, <4>4, <4>5, <4>7 DEF Stream
      <4> QED
        BY <4>8 DEF StreamExists
    <3> QED
      BY <3>5, <3>6
  <2> QED
    BY <2>5, <2>6
<1> QED
  BY <1>6, <1>7 DEF ReadTag

(* The bytes of the field that is read next. *)
LEMMA WidthFacts ==
  ASSUME Typed, NEW q, NEW e, Sent(q), Reading(q, e), Head(want).kind # "tag"
  PROVE  /\ Width(Head(want).kind) \in Nat \ {0}
         /\ ~(Len(decoded) < Len(q)) => closed /\ wire = <<>>
         /\ Len(decoded) < Len(q) =>
              /\ q[Len(decoded) + 1] \in Sending /\ Progress(q[Len(decoded) + 1], e) /\ e \in Nat
              /\ Len(Writes(q[Len(decoded) + 1])[e + 1]) = Width(Head(want).kind)
              /\ Writes(q[Len(decoded) + 1])[e + 1] \in Bytes
<1> DEFINE n == Len(decoded)
           x == q[n + 1]
           c == Writes(x)[e + 1]
           k == Width(Head(want).kind)
<1>1. n \in Nat /\ q \in Seq(Sending) /\ Len(q) \in Nat
  BY DecodedLen, LenProperties DEF Sent
<1>2. ASSUME ~(n < Len(q)) PROVE k \in Nat \ {0} /\ closed /\ wire = <<>>
  <2>1. e = 1 /\ closed /\ wire = <<>> /\ Head(want) = Field("meta")
    BY <1>2, Between, KindFacts
  <2>2. k = 1
    BY <2>1, KindFacts DEF Width
  <2> QED
    BY <2>1, <2>2
<1>3. ASSUME n < Len(q)
      PROVE  x \in Sending /\ Progress(x, e) /\ e \in Nat /\ Len(c) = k /\ c \in Bytes /\ k \in Nat \ {0}
  <2>1. n + 1 \in 1..Len(q)
    BY <1>1, <1>3
  <2>2. x \in Sending /\ Progress(x, e) /\ e \in Nat
    BY <1>1, <1>3, <2>1, ElementOfSeq DEF Reading
  <2>3. c \in Bytes /\ Len(c) = k /\ Len(c) >= 1
    BY <2>2, Fits
  <2> HIDE DEF c, k, x, n
  <2>4. Len(c) \in Nat
    BY <2>3, BytesFacts
  <2> QED
    BY <2>2, <2>3, <2>4
<1> QED
  BY <1>2, <1>3

(* A field: all its bytes are there, or the connection has ended.          *)
LEMMA StreamField ==
  ASSUME Typed, StreamExists, ReadField
  PROVE  StreamExists' /\ Width(Head(want).kind) \in Nat
<1>1. PICK q, at, w, O, B, e, r : Stream(q, at, w, O, B, e, r)
  BY DEF StreamExists
<1>2. /\ Sent(q) /\ Line(q, at) /\ Written(q, at, w, O, B) /\ Reading(q, e)
      /\ (closed /\ wire = <<>>) \/ Synced(q, at, w, O, B, e, r)
      /\ \A i \in 1..Len(decoded) : SamePacket(decoded[i], q[i].packet)
      /\ reader = "ended" => closed
  BY <1>1 DEF Stream
<1> DEFINE n == Len(decoded)
           h == Head(want).kind
           k == Width(h)
           x == q[n + 1]
           c == Writes(x)[e + 1]
           b == SubSeq(wire, 1, k)
<1>3. /\ wire \in Bytes /\ closed \in BOOLEAN /\ n \in Nat /\ Len(wire) \in Nat
      /\ (wire = <<>> <=> Len(wire) = 0)
  BY DecodedLen, BytesFacts DEF Typed
<1>4. /\ h # "tag" /\ reader # "ended" /\ (Len(wire) >= k \/ closed)
      /\ UNCHANGED <<todo, mutex, begun>>
      /\ IF ~(Len(wire) >= k) THEN DecodeFails
         ELSE /\ wire' = SubSeq(wire, k + 1, Len(wire))
              /\ part' = Filled(h, b)
              /\ want' = IF h # "count" THEN Tail(want)
                         ELSE [i \in 1..(7 * b[1]) |-> ModuleFields[((i - 1) % 7) + 1]]
                                \o <<Tag(PacketClose)>>
              /\ UNCHANGED <<closed, reader, handler, decoded>>
  BY DEF ReadField, SendVars
<1>5. /\ k \in Nat \ {0}
      /\ ~(n < Len(q)) => closed /\ wire = <<>>
      /\ n < Len(q) => x \in Sending /\ Progress(x, e) /\ e \in Nat /\ Len(c) = k /\ c \in Bytes
  BY <1>2, <1>4, WidthFacts
<1>6. CASE ~(Len(wire) >= k)
  <2>1. closed /\ DecodeFails
    BY <1>4, <1>6
  <2>2. UNCHANGED <<wire, want, part, decoded>> /\ closed' = closed
    BY <1>3, <2>1 DEF DecodeFails
  <2> QED
    BY <1>4, <1>5, <2>1, <2>2, StreamKept
<1>7. CASE Len(wire) >= k
  <2>1. wire # <<>> /\ k \in 0..Len(wire)
    <3> HIDE DEF k
    <3> QED
      BY <1>3, <1>5, <1>7
  <2>2. n < Len(q) /\ x \in Sending /\ Progress(x, e) /\ e \in Nat /\ Len(c) = k /\ c \in Bytes
    BY <1>5, <2>1
  <2>3. Synced(q, at, w, O, B, e, r)
    BY <1>2, <2>1
  <2>4. \A j \in 1..Len(c) : j <= Len(wire) => wire[j] = c[j]
    BY <1>2, <1>3, <2>1, <2>3, AtReader
  <2>5. b = c
    <3>1. b \in Bytes /\ Len(b) = k /\ \A j \in 1..k : b[j] = wire[j]
      BY <1>3, <2>1, BytesFacts
    <3>2. b \in Seq(Byte) /\ c \in Seq(Byte) /\ Len(b) = Len(c)
      BY <2>2, <3>1 DEF Bytes
    <3>3. \A j \in 1..Len(b) : b[j] = c[j]
      <4> HIDE DEF b, c, k
      <4> TAKE j \in 1..Len(b)
      <4>1. j \in 1..k /\ j <= Len(wire)
        BY <1>3, <1>5, <1>7, <3>1
      <4> QED
        BY <2>2, <2>4, <3>1, <4>1
    <3> HIDE DEF b, c
    <3> QED
      BY <3>2, <3>3, SeqEqual
  <2>6. /\ wire' = SubSeq(wire, k + 1, Len(wire)) /\ part' = Filled(h, c)
        /\ want' = IF h # "count" THEN Tail(want)
                   ELSE [i \in 1..(7 * c[1]) |-> ModuleFields[((i - 1) % 7) + 1]] \o <<Tag(PacketClose)>>
        /\ closed' = closed /\ reader' = reader /\ decoded' = decoded
    BY <1>4, <1>7, <2>5
  <2>7. PICK y, d, z : y = x /\ d = c /\ z = k
    OBVIOUS
  <2>8. Progress(y, e + 1)'
    BY <1>4, <2>2, <2>6, <2>7, FieldRead
  <2>9. Reading(q, e + 1)'
    <3>1. y = q[Len(decoded') + 1] /\ Len(decoded') < Len(q) /\ Len(decoded') <= Len(q) /\ e + 1 \in Nat
      <4>1. Len(q) \in Nat
        BY <1>2, LenProperties DEF Sent
      <4> QED
        BY <1>3, <2>2, <2>6, <2>7, <4>1
    <3> QED
      BY <2>8, <3>1 DEF Reading
  <2>10. e + 1 < Len(Writes(x))
    <3> DEFINE m == Count(x)
               l == Len(Writes(x))
    <3>1. m \in Nat /\ l = 9 + 7 * m /\ e \in 0..(8 + 7 * m)
      BY <2>2, CountNat, WritesAt, WantedHead
    <3>2. e # 8 + 7 * m
      <4>1. e = 8 + 7 * m => Head(want) = Tag(PacketClose)
        <5> SUFFICES ASSUME e = 8 + 7 * m PROVE Head(want) = Tag(PacketClose)
          OBVIOUS
        <5>1. Head(want) = FieldAt(m, e + 1)
          BY <2>2, WantedHead
        <5>2. FieldAt(m, 9 + 7 * m) = Tag(PacketClose)
          BY <3>1, FieldFacts
        <5>3. e + 1 = 9 + 7 * m
          <6> HIDE DEF m
          <6> QED
            BY <3>1
        <5> QED
          BY <5>1, <5>2, <5>3
      <4> QED
        BY <1>4, <4>1, KindFacts
    <3> HIDE DEF m, l
    <3>3. e + 1 < l
      BY <3>1, <3>2
    <3> QED
      BY <3>3 DEF l
  <2>11. Synced(q, at, w, O, B, e + 1, r + 1)'
    <3>1. Len(wire') = Len(wire) - k /\ \A j \in 1..(Len(wire) - k) : wire'[j] = wire[k + j]
      <4> HIDE DEF k
      <4> QED
        BY <1>3, <2>1, <2>6, BytesFacts
    <3>2. Len(c) <= Len(wire) /\ Len(wire') = Len(wire) - Len(c) /\ \A j \in 1..Len(wire') : wire'[j] = wire[Len(c) + j]
      <4> HIDE DEF c, k
      <4> QED
        BY <1>3, <1>7, <2>2, <3>1
    <3>3. Len(decoded') = Len(decoded)
      BY <2>6
    <3> QED
      BY <1>2, <1>3, <2>1, <2>2, <2>3, <2>6, <2>10, <3>2, <3>3, Advance
  <2>12. Sent(q)' /\ Line(q, at)' /\ Written(q, at, w, O, B)'
    BY <1>2, <1>4, <2>6 DEF Sent, Line, Written
  <2>13. Stream(q, at, w, O, B, e + 1, r + 1)'
    BY <1>2, <1>4, <2>6, <2>9, <2>11, <2>12 DEF Stream
  <2> QED
    BY <1>5, <2>13 DEF StreamExists
<1> QED
  BY <1>6, <1>7

-----------------------------------------------------------------------------
(* The theorems.                                                           *)

(* The inductive invariant of the stream.                                  *)
StreamInv == IInv /\ Typed /\ StreamExists

(* The inductive invariant holds at first and is kept by every step.       *)
LEMMA StreamInit == Init => StreamInv
<1> SUFFICES ASSUME Init PROVE StreamInv
  OBVIOUS
<1>1. IInv
  BY InitInd
<1>2. <<>> \in Bytes /\ <<>> \in Seq(Bytes) /\ <<>> \in Seq(Packets) /\ <<>> \in Seq(Sending) /\ <<>> \in Seq(Places)
      /\ Len(<<>>) = 0
  BY EmptySeq DEF Bytes
<1>3. Typed
  <2>1. sender \in [Senders -> {"idle", "lock", "write", "ok", "failed"}] /\ todo \in [Senders -> Seq(Bytes)]
    BY <1>2 DEF Init
  <2>2. \A s \in Senders : todo[s] # <<>> <=> mutex = s
    BY NoneAssumption DEF Init
  <2>3. \E S : decoded \in Seq(S)
    BY <1>2 DEF Init
  <2>4. mutex \in Senders \cup {None} /\ wire \in Bytes /\ closed \in BOOLEAN /\ begun \in Seq(Packets)
    BY <1>2 DEF Init
  <2> QED
    BY <2>1, <2>2, <2>3, <2>4 DEF Typed
<1>4. StreamExists
  <2> DEFINE O == [i \in 0..0 |-> 0]
  <2>1. O \in [0..0 -> 0..0] /\ O[0] = 0
    OBVIOUS
  <2> HIDE DEF O
  <2>2. Sent(<<>>) /\ Line(<<>>, <<>>)
    BY <1>2 DEF Init, Sent, Line
  <2>3. Written(<<>>, <<>>, 0, O, <<>>)
    BY <1>2, <2>1 DEF Init, Written
  <2>4. Reading(<<>>, 0)
    <3>1. SubSeq(PacketFields, 0 + 1, 8) = PacketFields
      <4> DEFINE F == PacketFields
      <4>1. F \in Seq(Fields) /\ Len(F) = 8
        BY PacketFieldsFacts
      <4> HIDE DEF F
      <4>2. SubSeq(F, 1, Len(F)) = F
        BY <4>1, SubSeqFull
      <4> QED
        BY <4>1, <4>2 DEF F
    <3> QED
      BY <1>2, <3>1 DEF Init, Reading
  <2>5. Synced(<<>>, <<>>, 0, O, <<>>, 0, 0)
    BY <1>2, <2>1 DEF Init, Synced
  <2>6. reader # "ended" /\ Len(decoded) = 0
    BY <1>2 DEF Init
  <2>7. Stream(<<>>, <<>>, 0, O, <<>>, 0, 0)
    BY <2>2, <2>3, <2>4, <2>5, <2>6 DEF Stream
  <2> QED
    BY <2>7 DEF StreamExists
<1> QED
  BY <1>1, <1>3, <1>4 DEF StreamInv

(* Each action keeps the invariant.                                        *)
LEMMA StreamStep == StreamInv /\ [Next]_vars => StreamInv'
<1> SUFFICES ASSUME StreamInv, [Next]_vars PROVE StreamInv'
  OBVIOUS
<1>1. IInv /\ Typed /\ StreamExists
  BY DEF StreamInv
<1>2. IInv'
  BY <1>1, StepInd
<1>3. StreamExists => (reader = "ended" => closed)
  BY DEF StreamExists, Stream
<1>4. ASSUME UNCHANGED vars PROVE Typed' /\ StreamExists'
  <2>1. Typed'
    BY <1>1, <1>4 DEF vars, Typed
  <2>2. UNCHANGED <<wire, closed, want, part, begun, decoded, reader, todo, mutex>>
    BY <1>4 DEF vars
  <2>3. StreamExists'
    BY <1>1, <1>3, <2>2, StreamKept
  <2> QED
    BY <2>1, <2>3
<1>5. ASSUME NEW s \in Senders, CallSend(s) PROVE Typed' /\ StreamExists'
  <2>1. UNCHANGED <<wire, closed, want, part, begun, decoded, reader, todo, mutex>>
    BY <1>5 DEF CallSend, ReadVars
  <2> QED
    BY <1>1, <1>3, <1>5, <2>1, TypedSend, StreamKept
<1>6. ASSUME NEW s \in Senders, StartEncode(s) PROVE Typed' /\ StreamExists'
  BY <1>1, <1>6, TypedSend, StreamBegin
<1>7. ASSUME NEW s \in Senders, Write(s) PROVE Typed' /\ StreamExists'
  BY <1>1, <1>7, TypedSend, StreamWrite
<1>8. ASSUME LinkLost \/ \E s \in Senders : Timeout(s) PROVE Typed' /\ StreamExists'
  <2>1. ~closed /\ Break /\ UNCHANGED <<SendVars, ReadVars>>
    BY <1>8 DEF LinkLost, Timeout
  <2>2. UNCHANGED SendVars /\ UNCHANGED decoded /\ UNCHANGED <<want, part, begun, decoded>>
    BY <2>1 DEF SendVars, ReadVars
  <2> QED
    BY <1>1, <2>1, <2>2, TypedBreak, StreamBreak
<1>9. ASSUME ReadTag PROVE Typed' /\ StreamExists'
  BY <1>1, <1>9, TypedRead, StreamTag
<1>10. ASSUME ReadField PROVE Typed' /\ StreamExists'
  BY <1>1, <1>10, TypedRead, StreamField
<1>11. ASSUME Offer PROVE Typed' /\ StreamExists'
  <2>1. UNCHANGED <<SendVars, want, part, decoded>> /\ reader' # "ended"
        /\ (UNCHANGED <<closed, wire>> \/ (~closed /\ Break))
    BY <1>11 DEF Offer
  <2>2. UNCHANGED SendVars /\ UNCHANGED decoded /\ UNCHANGED <<want, part, begun, decoded, todo, mutex>>
    BY <2>1 DEF SendVars
  <2>3. CASE UNCHANGED <<closed, wire>>
    <3>1. Typed'
      BY <1>1, <2>2, <2>3 DEF Typed, SendVars
    <3>2. StreamExists'
      BY <1>1, <2>1, <2>2, <2>3, StreamKept
    <3> QED
      BY <3>1, <3>2
  <2>4. CASE ~closed /\ Break
    BY <1>1, <2>2, <2>4, TypedBreak, StreamBreak
  <2> QED
    BY <2>1, <2>3, <2>4
<1>12. Typed' /\ StreamExists'
  BY <1>4, <1>5, <1>6, <1>7, <1>8, <1>9, <1>10, <1>11 DEF Next
<1> QED
  BY <1>2, <1>12 DEF StreamInv

(* The stream exists in every reachable state.                             *)
LEMMA StreamInvariance == Spec => []StreamInv
BY StreamInit, StreamStep, PTL DEF Spec

(* The variables keep their types: who writes holds Conn.mutex, has writes *)
(* left, and nobody else has (network.go:127).                             *)
THEOREM TypeCorrect == Spec => []TypeOK
<1>1. StreamInv => TypeOK
  <2> SUFFICES ASSUME StreamInv PROVE TypeOK
    OBVIOUS
  <2>1. IInv /\ Typed
    BY DEF StreamInv
  <2>2. /\ sender \in [Senders -> {"idle", "lock", "write", "ok", "failed"}]
        /\ \A s \in Senders : todo[s] # <<>> <=> mutex = s
        /\ mutex \in Senders \cup {None} /\ wire \in Seq(Byte) /\ closed \in BOOLEAN
    BY <2>1 DEF Typed, Bytes
  <2>3. \A s \in Senders : sender[s] = "write" <=> mutex = s
    BY <2>1 DEF IInv, Exclusive
  <2>4. reader \in {"recv", "decode", "offer", "ended"} /\ handler \in {"idle", "ready", "failed", "done"}
    BY <2>1 DEF IInv, HandlerFollows
  <2>5. \A s \in Senders : (sender[s] = "write") = (mutex = s) /\ (todo[s] # <<>>) = (mutex = s)
    BY <2>2, <2>3
  <2> QED
    BY <2>2, <2>4, <2>5 DEF TypeOK
<1> QED
  BY <1>1, StreamInvariance, PTL

(* What Decode returns, wherever the connection broke and whatever bytes   *)
(* payloads contain, are the first of the packets that were sent, whole    *)
(* and in the order of the mutex (decoder.go:112): no two of them are      *)
(* mixed and none is skipped.                                              *)
THEOREM DecodedIntact == Spec => []Intact
<1>1. StreamInv => Intact
  <2> SUFFICES ASSUME StreamInv PROVE Intact
    OBVIOUS
  <2>1. PICK q, at, w, O, B, e, r : Stream(q, at, w, O, B, e, r)
    BY DEF StreamInv, StreamExists
  <2>2. /\ Len(decoded) <= Len(q) /\ Len(q) = Len(begun) /\ \A i \in 1..Len(q) : q[i].packet = begun[i]
        /\ \A i \in 1..Len(decoded) : SamePacket(decoded[i], q[i].packet)
    BY <2>1 DEF Stream, Sent, Reading
  <2>3. Len(decoded) \in Nat /\ DOMAIN decoded = 1..Len(decoded) /\ Len(q) \in Nat
    BY <2>1, LenProperties DEF StreamInv, Typed, Stream, Sent
  <2>4. ASSUME NEW i \in DOMAIN decoded PROVE SamePacket(decoded[i], begun[i])
    <3>1. i \in 1..Len(decoded) /\ i \in 1..Len(q)
      BY <2>2, <2>3
    <3> QED
      BY <2>2, <3>1
  <2> QED
    BY <2>2, <2>4 DEF Intact
<1> QED
  BY <1>1, StreamInvariance, PTL

(* Decode never fails on what was sent: the reader ends only when the      *)
(* connection has (network.go:92), so each size, count and tag is found    *)
(* where it was written.                                                   *)
THEOREM ReaderFailsAtEnd == Spec => []FailsOnlyAtEnd
<1>1. StreamInv => FailsOnlyAtEnd
  BY DEF StreamInv, StreamExists, Stream, FailsOnlyAtEnd
<1> QED
  BY <1>1, StreamInvariance, PTL
=============================================================================
