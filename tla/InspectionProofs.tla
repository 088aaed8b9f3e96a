-------------------------- MODULE InspectionProofs --------------------------
(***************************************************************************)
(* Proofs about Inspection, for any streams of any kind and run, whichever *)
(* are started together, and topics of any size: the types, which streams  *)
(* stop another's subscription, and what the gateway's crashes come from.  *)
(***************************************************************************)
EXTENDS Inspection, FiniteSetTheorems, WellFoundedInduction, TLAPS

PCs == {"absent", "idle", "snapshot", "sub", "refused", "wait", "drain", "cancel",
        "cancelAgain", "done"}
Phases == {"none", "open", "closing", "reporting", "ended"}
GatewayStates ==
    [ws : BOOLEAN, cancelled : BOOLEAN, monitor : {"call", "select", "send", "done"}, wg : 0..1,
     handler : {"monitor", "wait", "returned"}, tick : BOOLEAN, up : BOOLEAN,
     lost : BOOLEAN, pings : {"fine", "failed", "clashed"}]

SlotsOK ==
    /\ slots = [t \in Topics |-> slots[t]]
    /\ \A t \in Topics : slots[t] \in [1..MaxSubs[t] -> Subs \cup {<<Nobody>>}]
SubsOK ==
    /\ phase \in [Subs -> Phases]
    /\ index \in [Subs -> Nat]
    /\ \A k \in Subs : index[k] <= MaxSubs[k[2]]
    /\ mail \in SUBSET Subs /\ err \in SUBSET Subs /\ slow \in SUBSET Subs
    /\ killer \in [Subs -> Streams \cup {Nobody}]
StreamsOK ==
    /\ ctxDone \in SUBSET (1..2)
    /\ pc \in [Streams -> PCs]
    /\ sOpen \in SUBSET Streams /\ cOpen \in SUBSET Streams /\ reset \in SUBSET Streams
GatewayOK == gateway \in [Gateways -> GatewayStates]
TypeOK == SlotsOK /\ SubsOK /\ StreamsOK /\ GatewayOK

(* A subscription has the slot it took, or none; one that is open has it. *)
Owns(k) == index[k] # 0 /\ slots[k[2]][index[k]] = k
Slotted ==
    /\ \A t \in Topics : \A i \in 1..MaxSubs[t] : \A k \in Subs :
          slots[t][i] = k => k[2] = t /\ index[k] = i /\ phase[k] # "none"
    /\ \A k \in Subs : phase[k] = "open" => Owns(k)

(* A stream subscribes to its topics in order. *)
LastSub(s) == <<s, TopicsOf[Kind[s]][Len(TopicsOf[Kind[s]])]>>
InOrder ==
    \A s \in Streams :
       /\ pc[s] \in {"absent", "idle", "snapshot"} => \A k \in Mine(s) : phase[k] = "none"
       /\ pc[s] = "sub" => phase[LastSub(s)] = "none"

(* Why a stream may stop what is not its own: a Run goes on after its      *)
(* subscription lost its slot.                                             *)
MayStop(s) == RunOf[s] \in ctxDone \/ \E j \in Mine(s) : killer[j] # Nobody
Cancels == \A s \in Streams : pc[s] \in {"drain", "cancel", "cancelAgain"} => RunOf[s] \in ctxDone
Closed == \A k \in Subs : k \in mail /\ phase[k] = "closing" => MayStop(k[1]) \/ Owns(k)

(* Whom Unsub stops. *)
Hit(k, ks) == \E j \in ks : j[2] = k[2] /\ index[j] # 0 /\ slots[k[2]][index[j]] = k

(* Until Monitor has ended, only a ping that failed releases the handler. *)
Held(g) == g.monitor # "done" /\ g.pings = "fine" => g.wg = 1
Calling(g) ==
    g.up /\ g.monitor = "call" /\ g.handler = "monitor" /\ ~g.tick /\ g.pings = "fine"
Released ==
    \A s \in Gateways :
       /\ Held(gateway[s])
       /\ pc[s] \in {"absent", "idle"} => Calling(gateway[s])

(* The inductive invariant. *)
IInv ==
    /\ TypeOK
    /\ Slotted
    /\ InOrder
    /\ Cancels
    /\ Closed
    /\ StopsOwn
    /\ Released
    /\ CrashCauses

-----------------------------------------------------------------------------
(* The least of a set of numbers is one of them. *)
LEMMA SmallestOf == ASSUME NEW S \in SUBSET Nat, S # {} PROVE \E x \in S : \A y \in S : x <= y
<1> DEFINE R == OpToRel(<, Nat)
<1>1. IsWellFoundedOn(R, Nat)
  BY NatLessThanWellFounded
<1> HIDE DEF R
<1>2. PICK x \in S : \A y \in S : ~(<<y, x>> \in R)
  BY <1>1, WFMin
<1>3. \A y \in S : <<y, x>> \in Nat \X Nat /\ ~(<<y, x>>[1] < <<y, x>>[2])
  BY <1>2 DEF R, OpToRel
<1>4. \A y \in S : y \in Nat /\ x \in Nat /\ ~(y < x)
  BY <1>3
<1> QED
  BY <1>4
LEMMA MinOf == ASSUME NEW S \in SUBSET Nat, S # {} PROVE Min(S) \in S
BY SmallestOf DEF Min

(* Subscriptions. *)
LEMMA SubsFacts ==
    /\ \A k \in Subs : /\ k[1] \in Streams /\ k[2] \in Topics /\ k = <<k[1], k[2]>>
                       /\ k # <<Nobody>>
    /\ \A s \in Streams : \A i \in DOMAIN TopicsOf[Kind[s]] :
          <<s, TopicsOf[Kind[s]][i]>> \in Subs /\ <<s, TopicsOf[Kind[s]][i]>> \in Mine(s)
<1>1. ASSUME NEW k \in Subs
      PROVE  k[1] \in Streams /\ k[2] \in Topics /\ k = <<k[1], k[2]>> /\ k # <<Nobody>>
  <2>1. PICK s \in Streams : k \in {s} \X {TopicsOf[Kind[s]][i] : i \in DOMAIN TopicsOf[Kind[s]]}
    BY <1>1 DEF Subs
  <2>2. PICK i \in DOMAIN TopicsOf[Kind[s]] : k = <<s, TopicsOf[Kind[s]][i]>>
    BY <2>1
  <2>3. TopicsOf[Kind[s]][i] \in Topics
    BY InspectionAssumption, <2>2 DEF TopicsOf, Topics
  <2> QED
    BY <2>2, <2>3
<1>2. ASSUME NEW s \in Streams, NEW i \in DOMAIN TopicsOf[Kind[s]]
      PROVE  <<s, TopicsOf[Kind[s]][i]>> \in Subs /\ <<s, TopicsOf[Kind[s]][i]>> \in Mine(s)
  BY DEF Subs, Mine
<1> QED
  BY <1>1, <1>2

(* Each kind of stream has one topic or two. *)
LEMMA TopicsFacts ==
  ASSUME NEW s \in Streams
  PROVE  /\ Kind[s] \in {"status", "net", "node", "root"}
         /\ Kind[s] # "node" => \A k \in Mine(s) : k = LastSub(s)
         /\ Kind[s] # "node" => Len(TopicsOf[Kind[s]]) = 1
         /\ Kind[s] = "node" => /\ TopicsOf[Kind[s]] = <<"network", "tunnels">>
                                /\ Mine(s) = {<<s, "network">>, <<s, "tunnels">>}
                                /\ LastSub(s) = <<s, "tunnels">>
  <1>1. Kind[s] \in {"status", "net", "node", "root"}
    BY InspectionAssumption DEF TopicsOf
  <1> QED
    BY <1>1 DEF TopicsOf, Mine, Subs, LastSub

LEMMA GatewaysFacts == Gateways \subseteq Streams
BY InspectionAssumption DEF Of

LEMMA InitInd == Init => IInv
<1> SUFFICES ASSUME Init PROVE IInv
  OBVIOUS
<1> USE DEF Init
<1>1. SlotsOK
  BY DEF SlotsOK
<1>2. SubsOK
  <2>1. \A k \in Subs : 0 <= MaxSubs[k[2]]
    BY SubsFacts, InspectionAssumption
  <2> QED
    BY <2>1 DEF SubsOK, Phases
<1>3. StreamsOK
  BY DEF StreamsOK, PCs
<1>4. GatewayOK
  BY DEF GatewayOK, GatewayStates
<1>5. Slotted
  BY SubsFacts DEF Slotted
<1>6. InOrder
  BY SubsFacts, TopicsFacts DEF InOrder, Mine
<1>7. Cancels /\ Closed /\ StopsOwn
  BY DEF Cancels, Closed, StopsOwn
<1>8. Released /\ CrashCauses
  BY DEF Released, CrashCauses, Held, Calling
<1> QED
  BY <1>1, <1>2, <1>3, <1>4, <1>5, <1>6, <1>7, <1>8 DEF IInv, TypeOK

(* What Unsub does: whoever has one of the slots loses it, and is closing  *)
(* if it was open; the others keep theirs.                                 *)
LEMMA UnsubFacts ==
  ASSUME SlotsOK, SubsOK, Slotted, NEW s \in Streams, NEW ks \in SUBSET Subs,
         Unsub(s, ks), index' = index
  PROVE  /\ SlotsOK' /\ Slotted'
         /\ phase' \in [Subs -> Phases] /\ killer' \in [Subs -> Streams \cup {Nobody}]
         /\ \A k \in Subs :
               \/ /\ phase'[k] = phase[k] /\ killer'[k] = killer[k]
                  /\ Owns(k) => Owns(k)'
               \/ /\ phase'[k] = IF phase[k] = "open" THEN "closing" ELSE phase[k]
                  /\ Hit(k, ks)
                  /\ killer'[k] = IF k[1] # s THEN s ELSE killer[k]
<1> DEFINE hit == {k \in Subs : \E j \in ks :
                     j[2] = k[2] /\ index[j] # 0 /\ slots[k[2]][index[j]] = k}
<1>1. /\ slots' = [t \in Topics |-> [i \in 1..MaxSubs[t] |->
                     IF slots[t][i] \in hit THEN <<Nobody>> ELSE slots[t][i]]]
      /\ phase' = [k \in Subs |-> IF k \in hit /\ phase[k] = "open" THEN "closing" ELSE phase[k]]
      /\ killer' = [k \in Subs |-> IF k \in hit /\ k[1] # s THEN s ELSE killer[k]]
  BY DEF Unsub, UnsubFrom
<1>3. \A k \in hit : \E j \in ks : j[2] = k[2] /\ index[j] # 0 /\ slots[k[2]][index[j]] = k
  OBVIOUS
<1>4. hit \in SUBSET Subs
  OBVIOUS
<1> HIDE DEF hit
<1>5. SlotsOK'
  BY <1>1 DEF SlotsOK
<1>6. phase' \in [Subs -> Phases] /\ killer' \in [Subs -> Streams \cup {Nobody}]
  BY <1>1 DEF SubsOK, Phases
<1>7. \A t \in Topics : \A i \in 1..MaxSubs[t] : \A k \in Subs :
         slots'[t][i] = k <=> slots[t][i] = k /\ k \notin hit
  BY <1>1, SubsFacts
<1>8. ASSUME NEW k \in Subs, k \notin hit, Owns(k) PROVE Owns(k)'
  <2>1. index[k] \in 1..MaxSubs[k[2]] /\ k[2] \in Topics
    BY <1>8, SubsFacts, InspectionAssumption DEF SubsOK, Owns
  <2> QED
    BY <1>7, <1>8, <2>1 DEF Owns
<1>9. Slotted'
  <2>1. \A t \in Topics : \A i \in 1..MaxSubs[t] : \A k \in Subs :
           slots'[t][i] = k => k[2] = t /\ index'[k] = i /\ phase'[k] # "none"
    BY <1>1, <1>7 DEF Slotted
  <2>2. ASSUME NEW k \in Subs, phase'[k] = "open" PROVE Owns(k)'
    <3>1. phase[k] = "open" /\ k \notin hit
      BY <1>1, <2>2
    <3> QED
      BY <1>8, <3>1 DEF Slotted
  <2> QED
    BY <2>1, <2>2 DEF Slotted
<1>10. \A k \in Subs : k \notin hit => phase'[k] = phase[k] /\ killer'[k] = killer[k]
  BY <1>1
<1>11. \A k \in hit : /\ phase'[k] = IF phase[k] = "open" THEN "closing" ELSE phase[k]
                      /\ killer'[k] = IF k[1] # s THEN s ELSE killer[k]
  BY <1>1, <1>4
<1> QED
  BY <1>3, <1>5, <1>6, <1>8, <1>9, <1>10, <1>11 DEF Hit

(* Who may stop others keeps to StopsOwn. *)
LEMMA StopInd ==
  ASSUME SubsOK, StopsOwn, ctxDone' = ctxDone, NEW s \in Streams,
         \A k \in Subs : killer'[k] = killer[k] \/ (killer'[k] = s /\ MayStop(s))
  PROVE  StopsOwn' /\ \A r \in Streams : MayStop(r) => MayStop(r)'
<1>1. s # Nobody
  BY NobodyAssumption
<1>2. \A j \in Subs : killer[j] # Nobody => killer'[j] # Nobody
  BY <1>1
<1>3. ASSUME NEW r \in Streams, MayStop(r) PROVE MayStop(r)'
  BY <1>2, <1>3 DEF MayStop, Mine
<1>4. MayStop(s) => ctxDone # {}
  BY DEF MayStop, StopsOwn, Mine
<1>5. StopsOwn'
  <2> SUFFICES ASSUME NEW k \in Subs, NEW r, r = killer'[k], r # Nobody
               PROVE  MayStop(r)' /\ ctxDone' # {}
    BY DEF StopsOwn, MayStop
  <2>1. CASE r = s /\ MayStop(s)
    BY <1>3, <1>4, <2>1
  <2>2. CASE r = killer[k]
    <3>1. MayStop(r) /\ ctxDone # {} /\ r \in Streams
      BY <2>2 DEF StopsOwn, MayStop, SubsOK
    <3> QED
      BY <1>3, <3>1
  <2> QED
    BY <2>1, <2>2
<1> QED
  BY <1>3, <1>5

(* Unsub by who may, or of its own. *)
LEMMA UnsubInd ==
  ASSUME SlotsOK, SubsOK, Slotted, Closed, StopsOwn,
         NEW s \in Streams, NEW ks \in SUBSET Subs, Unsub(s, ks),
         index' = index, ctxDone' = ctxDone, slow' = slow,
         mail' \in SUBSET mail, err' \in SUBSET Subs,
         \A k \in Subs : Hit(k, ks) /\ k[1] # s => MayStop(s),
         \A k \in Subs : Hit(k, ks) /\ k[1] = s /\ k \in mail' => MayStop(s)
  PROVE  /\ SlotsOK' /\ SubsOK' /\ Slotted' /\ Closed' /\ StopsOwn'
         /\ \A k \in Subs : phase[k] = "none" => phase'[k] = "none"
<1>1. /\ SlotsOK' /\ Slotted'
      /\ phase' \in [Subs -> Phases] /\ killer' \in [Subs -> Streams \cup {Nobody}]
      /\ \A k \in Subs :
            \/ /\ phase'[k] = phase[k] /\ killer'[k] = killer[k]
               /\ Owns(k) => Owns(k)'
            \/ /\ phase'[k] = IF phase[k] = "open" THEN "closing" ELSE phase[k]
               /\ Hit(k, ks)
               /\ killer'[k] = IF k[1] # s THEN s ELSE killer[k]
  BY UnsubFacts
<1>2. SubsOK'
  BY <1>1 DEF SubsOK
<1>3. StopsOwn' /\ \A r \in Streams : MayStop(r) => MayStop(r)'
  <2>1. \A k \in Subs : killer'[k] = killer[k] \/ (killer'[k] = s /\ MayStop(s))
    BY <1>1
  <2> QED
    BY <2>1, StopInd
<1>4. ASSUME NEW k \in Subs, k \in mail', phase'[k] = "closing"
      PROVE  MayStop(k[1])' \/ Owns(k)'
  <2>1. k[1] \in Streams
    BY SubsFacts
  <2>2. CASE phase'[k] = phase[k] /\ (Owns(k) => Owns(k)')
    <3>1. MayStop(k[1]) \/ Owns(k)
      BY <1>4, <2>2 DEF Closed
    <3> QED
      BY <1>3, <2>1, <2>2, <3>1
  <2>3. CASE Hit(k, ks) /\ k[1] = s
    <3>1. MayStop(s)
      BY <1>4, <2>3
    <3> QED
      BY <1>3, <2>3, <3>1
  <2>4. CASE killer'[k] = s /\ k[1] # s /\ Hit(k, ks)
    <3>1. killer'[k] # Nobody
      BY <2>4, NobodyAssumption
    <3> QED
      BY <3>1 DEF MayStop, Mine
  <2> QED
    BY <1>1, <2>2, <2>3, <2>4
<1>5. Closed'
  BY <1>4 DEF Closed
<1>6. \A k \in Subs : phase[k] = "none" => phase'[k] = "none"
  BY <1>1
<1> QED
  BY <1>1, <1>2, <1>3, <1>5, <1>6

(* The last subscription of a stream is its own. *)
LEMMA LastFacts == \A s \in Streams : LastSub(s) \in Subs /\ LastSub(s) \in Mine(s)
<1> SUFFICES ASSUME NEW s \in Streams PROVE LastSub(s) \in Subs /\ LastSub(s) \in Mine(s)
  OBVIOUS
<1>1. Len(TopicsOf[Kind[s]]) \in DOMAIN TopicsOf[Kind[s]]
  BY TopicsFacts DEF TopicsOf
<1> QED
  BY <1>1, SubsFacts DEF LastSub

(* Streams that go on past their subscriptions. *)
LEMMA OrderInd ==
  ASSUME InOrder,
         \A r \in Streams : pc'[r] = pc[r] \/ pc'[r] \notin {"absent", "idle", "snapshot", "sub"},
         \A k \in Subs : phase[k] = "none" => phase'[k] = "none"
  PROVE  InOrder'
BY LastFacts DEF InOrder, Mine

(* What Subscribe does: it is refused, or takes a slot that is free. *)
LEMMA SubscribeFacts ==
  ASSUME NEW s \in Streams, IInv, Subscribe(s)
  PROVE  \/ /\ \E p \in {"refused", "done"} : pc' = [pc EXCEPT ![s] = p]
            /\ sOpen' \in {sOpen, sOpen \ {s}}
            /\ UNCHANGED SubVars
         \/ \E k \in Mine(s) : \E i \in 1..MaxSubs[k[2]] :
            /\ k \in Subs /\ k[1] = s /\ phase[k] = "none"
            /\ slots[k[2]][i] = <<Nobody>>
            /\ slots' = [slots EXCEPT ![k[2]][i] = k]
            /\ index' = [index EXCEPT ![k] = i]
            /\ phase' = [phase EXCEPT ![k] = "open"]
            /\ \/ pc' = [pc EXCEPT ![s] = "wait"]
               \/ pc' = [pc EXCEPT ![s] = "sub"] /\ k # LastSub(s)
            /\ UNCHANGED <<mail, err, killer, slow, sOpen>>
<1> DEFINE topics == TopicsOf[Kind[s]]
           some == {k \in Mine(s) : phase[k] # "none"}
           made == Cardinality(some)
           t == topics[made + 1]
           k == <<s, t>>
           free == {i \in 1..MaxSubs[t] : slots[t][i] = <<Nobody>>}
<1>1. pc[s] = "sub" /\ phase[LastSub(s)] = "none" /\ LastSub(s) \in Mine(s)
  BY LastFacts DEF Subscribe, IInv, InOrder
<1>2. /\ made + 1 \in DOMAIN topics /\ phase[k] = "none"
      /\ made + 1 # Len(topics) => k # LastSub(s)
  <2>1. CASE Kind[s] # "node"
    <3>1. some = {}
      BY <1>1, <2>1, TopicsFacts
    <3>2. made = 0
      BY <3>1, FS_EmptySet
    <3>3. Len(topics) = 1 /\ made + 1 \in DOMAIN topics /\ k = LastSub(s)
      BY <2>1, <3>2, TopicsFacts DEF LastSub, TopicsOf
    <3> QED
      BY <1>1, <3>2, <3>3
  <2>2. CASE Kind[s] = "node"
    <3>1. /\ topics = <<"network", "tunnels">>
          /\ Mine(s) = {<<s, "network">>, <<s, "tunnels">>} /\ LastSub(s) = <<s, "tunnels">>
      BY <2>2, TopicsFacts
    <3>2. CASE phase[<<s, "network">>] = "none"
      <4>1. some = {}
        BY <1>1, <3>1, <3>2
      <4>2. made = 0
        BY <4>1, FS_EmptySet
      <4>3. t = "network" /\ 1 \in DOMAIN topics
        BY <3>1, <4>2
      <4>4. k = <<s, "network">> /\ k # LastSub(s)
        BY <3>1, <4>3
      <4> QED
        BY <3>2, <4>2, <4>3, <4>4
    <3>3. CASE phase[<<s, "network">>] # "none"
      <4>1. some = {<<s, "network">>}
        BY <1>1, <3>1, <3>3
      <4>2. made = 1
        BY <4>1, FS_Singleton
      <4> QED
        BY <1>1, <3>1, <4>2
    <3> QED
      BY <3>2, <3>3
  <2> QED
    BY <2>1, <2>2
<1>3. k \in Mine(s) /\ k \in Subs /\ k[1] = s /\ k[2] = t
  BY <1>2, SubsFacts
<1>4. /\ IF free = {}
           THEN /\ IF Kind[s] = "status" THEN Goto(s, "refused") /\ UNCHANGED sOpen ELSE Return(s)
                /\ UNCHANGED SubVars
           ELSE /\ slots' = [slots EXCEPT ![t][Min(free)] = k]
                /\ index' = [index EXCEPT ![k] = Min(free)]
                /\ phase' = [phase EXCEPT ![k] = "open"]
                /\ Goto(s, IF made + 1 = Len(topics) THEN "wait" ELSE "sub")
                /\ UNCHANGED <<mail, err, killer, slow, sOpen>>
  BY DEF Subscribe
<1>5. CASE free = {}
  BY <1>4, <1>5 DEF Goto, Return
<1>6. CASE free # {}
  <2>1. Min(free) \in free
    <3>1. free \in SUBSET Nat
      OBVIOUS
    <3> HIDE DEF free
    <3> QED
      BY <1>6, <3>1, MinOf
  <2>2. Min(free) \in 1..MaxSubs[t] /\ slots[t][Min(free)] = <<Nobody>>
    BY <2>1
  <2> DEFINE i == Min(free)
  <2>3. /\ slots' = [slots EXCEPT ![k[2]][i] = k]
        /\ index' = [index EXCEPT ![k] = i]
        /\ phase' = [phase EXCEPT ![k] = "open"]
        /\ UNCHANGED <<mail, err, killer, slow, sOpen>>
    BY <1>3, <1>4, <1>6
  <2>4. \/ pc' = [pc EXCEPT ![s] = "wait"]
        \/ pc' = [pc EXCEPT ![s] = "sub"] /\ k # LastSub(s)
    BY <1>2, <1>4, <1>6 DEF Goto
  <2> HIDE DEF i, k
  <2> QED
    BY <1>2, <1>3, <2>2, <2>3, <2>4 DEF i
<1> QED
  BY <1>5, <1>6

-----------------------------------------------------------------------------
(* The steps of the streams and of their subscriptions. *)

(* Steps that leave the subscriptions alone. *)
LEMMA SubsStay ==
  ASSUME IInv, UNCHANGED SubVars, ctxDone' = ctxDone
  PROVE  SlotsOK' /\ SubsOK' /\ Slotted' /\ Closed' /\ StopsOwn'
<1> USE DEF IInv, TypeOK, SubVars
<1>1. SlotsOK' /\ SubsOK' /\ Slotted'
  BY DEF SlotsOK, SubsOK, Slotted, Owns
<1>2. Closed' /\ StopsOwn'
  BY DEF Closed, StopsOwn, MayStop, Mine, Owns
<1> QED
  BY <1>1, <1>2

(* Steps of streams that leave the gateways alone. *)
LEMMA GatewaysStay ==
  ASSUME Released, CrashCauses, gateway' = gateway, sOpen' \subseteq sOpen,
         \A r \in Streams : pc'[r] \in {"absent", "idle"} => pc[r] \in {"absent", "idle"}
  PROVE  Released' /\ CrashCauses'
<1>1. Released'
  BY GatewaysFacts DEF Released
<1>2. CrashCauses'
  BY DEF CrashCauses
<1> QED
  BY <1>1, <1>2

LEMMA BeginInd ==
  ASSUME NEW s \in Streams, IInv, Begin(s)
  PROVE  IInv'
<1> USE DEF IInv, TypeOK
<1>1. /\ pc[s] = "idle" /\ \E p \in {"snapshot", "sub"} : pc' = [pc EXCEPT ![s] = p]
      /\ sOpen' \in {sOpen, sOpen \cup {s}} /\ cOpen' \in {cOpen, cOpen \cup {s}}
      /\ UNCHANGED <<ctxDone, SubVars, reset>>
      /\ gateway' = IF s \in Gateways
                     THEN [gateway EXCEPT ![s].monitor = "select", ![s].handler = "wait"]
                     ELSE gateway
  BY DEF Begin, Goto
<1>2. SlotsOK' /\ SubsOK' /\ Slotted' /\ Closed' /\ StopsOwn'
  BY <1>1, SubsStay
<1>3. StreamsOK' /\ GatewayOK'
  <2>1. StreamsOK'
    BY <1>1 DEF StreamsOK, PCs
  <2>2. ASSUME s \in Gateways PROVE GatewayOK'
    <3>1. gateway[s] \in GatewayStates
      BY <2>2 DEF GatewayOK
    <3>2. [gateway[s] EXCEPT !.monitor = "select", !.handler = "wait"] \in GatewayStates
      BY <3>1 DEF GatewayStates
    <3>3. gateway' = [gateway EXCEPT ![s] =
                        [gateway[s] EXCEPT !.monitor = "select", !.handler = "wait"]]
      BY <1>1, <2>2, <3>1 DEF GatewayOK, GatewayStates
    <3> QED
      BY <3>2, <3>3 DEF GatewayOK
  <2>3. s \notin Gateways => GatewayOK'
    BY <1>1 DEF GatewayOK
  <2> QED
    BY <2>1, <2>2, <2>3
<1>4. InOrder'
  <2>1. \A k \in Mine(s) : phase[k] = "none"
    BY <1>1 DEF InOrder
  <2>2. UNCHANGED phase
    BY <1>1 DEF SubVars
  <2> QED
    BY <1>1, <2>1, <2>2, LastFacts DEF InOrder, StreamsOK, Mine
<1>5. Cancels'
  BY <1>1 DEF Cancels, StreamsOK
<1>6. Released'
  <2>1. ASSUME NEW r \in Gateways PROVE Held(gateway'[r])
    <3>1. r # s => gateway'[r] = gateway[r]
      BY <1>1, <2>1 DEF GatewayOK
    <3>2. Held(gateway[r]) /\ gateway[r] \in GatewayStates
      BY <2>1 DEF Released, GatewayOK
    <3>3. ASSUME r = s PROVE Held(gateway'[r])
      <4>1. gateway[s].monitor = "call"
        BY <1>1, <2>1, <3>3 DEF Released, Calling
      <4>2. gateway'[s].wg = gateway[s].wg /\ gateway'[s].pings = gateway[s].pings
        BY <1>1, <2>1, <3>2, <3>3 DEF GatewayOK, GatewayStates
      <4> QED
        BY <3>2, <3>3, <4>1, <4>2 DEF Held
    <3> QED
      BY <3>1, <3>2, <3>3
  <2>2. \A r \in Gateways : pc'[r] \in {"absent", "idle"} =>
           r # s /\ pc'[r] = pc[r] /\ gateway'[r] = gateway[r]
    BY <1>1, GatewaysFacts DEF StreamsOK, GatewayOK
  <2> QED
    BY <2>1, <2>2 DEF Released
<1>7. CrashCauses'
  <2>1. \A r \in Gateways : r # s => gateway'[r] = gateway[r] /\ (r \in sOpen' => r \in sOpen)
    BY <1>1 DEF GatewayOK
  <2>2. s \in Gateways => gateway'[s].up
    BY <1>1 DEF Released, Calling, GatewayOK, GatewayStates
  <2> QED
    BY <2>1, <2>2 DEF CrashCauses
<1> QED
  BY <1>2, <1>3, <1>4, <1>5, <1>6, <1>7

LEMMA SnapshotInd ==
  ASSUME NEW s \in Streams, IInv, Snapshot(s)
  PROVE  IInv'
<1> USE DEF IInv, TypeOK
<1>1. /\ pc[s] = "snapshot" /\ \E p \in {"sub", "done"} : pc' = [pc EXCEPT ![s] = p]
      /\ reset' \in {reset, reset \cup {s}} /\ sOpen' \in {sOpen, sOpen \ {s}}
      /\ UNCHANGED <<ctxDone, SubVars, cOpen, gateway>>
  BY DEF Snapshot, Goto, Return, Written
<1>2. SlotsOK' /\ SubsOK' /\ Slotted' /\ Closed' /\ StopsOwn'
  BY <1>1, SubsStay
<1>3. StreamsOK' /\ GatewayOK'
  BY <1>1 DEF StreamsOK, GatewayOK, PCs
<1>4. InOrder'
  <2>1. \A k \in Mine(s) : phase[k] = "none"
    BY <1>1 DEF InOrder
  <2>2. UNCHANGED phase
    BY <1>1 DEF SubVars
  <2> QED
    BY <1>1, <2>1, <2>2, LastFacts DEF InOrder, StreamsOK, Mine
<1>5. Cancels'
  BY <1>1 DEF Cancels, StreamsOK
<1>6. Released' /\ CrashCauses'
  BY <1>1, GatewaysStay DEF StreamsOK
<1> QED
  BY <1>2, <1>3, <1>4, <1>5, <1>6

LEMMA SubscribeInd ==
  ASSUME NEW s \in Streams, IInv, Subscribe(s)
  PROVE  IInv'
<1> USE DEF IInv, TypeOK
<1>1. pc[s] = "sub" /\ UNCHANGED <<ctxDone, cOpen, reset, gateway>>
  BY DEF Subscribe
<1>2. CASE /\ \E p \in {"refused", "done"} : pc' = [pc EXCEPT ![s] = p]
           /\ sOpen' \in {sOpen, sOpen \ {s}}
           /\ UNCHANGED SubVars
  <2>1. SlotsOK' /\ SubsOK' /\ Slotted' /\ Closed' /\ StopsOwn'
    BY <1>1, <1>2, SubsStay
  <2>2. StreamsOK' /\ GatewayOK'
    BY <1>1, <1>2 DEF StreamsOK, GatewayOK, PCs
  <2>3. InOrder'
    <3>1. /\ \A r \in Streams : pc'[r] = pc[r] \/ pc'[r] \notin {"absent", "idle", "snapshot", "sub"}
          /\ \A k \in Subs : phase[k] = "none" => phase'[k] = "none"
      BY <1>2 DEF StreamsOK, SubVars
    <3> QED
      BY <3>1, OrderInd
  <2>4. Cancels'
    BY <1>1, <1>2 DEF Cancels, StreamsOK
  <2>5. Released' /\ CrashCauses'
    BY <1>1, <1>2, GatewaysStay DEF StreamsOK
  <2> QED
    BY <2>1, <2>2, <2>3, <2>4, <2>5
<1>3. ASSUME NEW k \in Mine(s), NEW i \in 1..MaxSubs[k[2]],
             k \in Subs, k[1] = s, phase[k] = "none", slots[k[2]][i] = <<Nobody>>,
             slots' = [slots EXCEPT ![k[2]][i] = k],
             index' = [index EXCEPT ![k] = i],
             phase' = [phase EXCEPT ![k] = "open"],
             \/ pc' = [pc EXCEPT ![s] = "wait"]
             \/ pc' = [pc EXCEPT ![s] = "sub"] /\ k # LastSub(s),
             UNCHANGED <<mail, err, killer, slow, sOpen>>
      PROVE  IInv'
  <2>1. k[2] \in Topics /\ i \in Nat /\ i # 0 /\ i <= MaxSubs[k[2]] /\ MaxSubs[k[2]] \in Nat
    BY <1>3, SubsFacts, InspectionAssumption
  <2>2. /\ \A t \in Topics : t # k[2] => slots'[t] = slots[t]
        /\ slots'[k[2]] = [slots[k[2]] EXCEPT ![i] = k]
    BY <1>3, <2>1 DEF SlotsOK
  <2>3. SlotsOK'
    <3>1. slots' = [t \in Topics |-> slots'[t]]
      BY <1>3, <2>1 DEF SlotsOK
    <3>2. \A t \in Topics : slots'[t] \in [1..MaxSubs[t] -> Subs \cup {<<Nobody>>}]
      BY <1>3, <2>1, <2>2 DEF SlotsOK
    <3> QED
      BY <3>1, <3>2 DEF SlotsOK
  <2>4. SubsOK'
    BY <1>3, <2>1 DEF SubsOK, Phases
  <2>5. StreamsOK' /\ GatewayOK'
    BY <1>1, <1>3 DEF StreamsOK, GatewayOK, PCs
  <2>11. ASSUME NEW j \in Subs, j # k, Owns(j) PROVE Owns(j)'
    <3>1. index'[j] = index[j] /\ index[j] # 0 /\ slots[j[2]][index[j]] = j
      BY <1>3, <2>11 DEF SubsOK, Owns
    <3>2. j[2] \in Topics /\ j # <<Nobody>>
      BY SubsFacts
    <3>3. ~(j[2] = k[2] /\ index[j] = i)
      BY <1>3, <3>1, <3>2
    <3>4. index[j] \in 1..MaxSubs[j[2]]
      BY <3>1, <3>2, InspectionAssumption DEF SubsOK
    <3>5. slots'[j[2]][index[j]] = slots[j[2]][index[j]]
      BY <2>1, <2>2, <3>2, <3>3, <3>4 DEF SlotsOK
    <3> QED
      BY <3>1, <3>5 DEF Owns
  <2>6. Slotted'
    <3>1. ASSUME NEW t \in Topics, NEW n \in 1..MaxSubs[t], NEW j \in Subs, slots'[t][n] = j
          PROVE  j[2] = t /\ index'[j] = n /\ phase'[j] # "none"
      <4>1. CASE t = k[2] /\ n = i
        <5>1. j = k
          BY <2>1, <2>2, <3>1, <4>1 DEF SlotsOK
        <5> QED
          BY <1>3, <4>1, <5>1 DEF SubsOK
      <4>2. CASE ~(t = k[2] /\ n = i)
        <5>1. slots[t][n] = j
          BY <2>1, <2>2, <3>1, <4>2 DEF SlotsOK
        <5>2. j[2] = t /\ index[j] = n /\ phase[j] # "none"
          BY <5>1 DEF Slotted
        <5> QED
          BY <1>3, <5>2 DEF SubsOK
      <4> QED
        BY <4>1, <4>2
    <3>2. ASSUME NEW j \in Subs, phase'[j] = "open" PROVE Owns(j)'
      <4>1. CASE j = k
        BY <1>3, <2>1, <2>2, <4>1 DEF SubsOK, SlotsOK, Owns
      <4>2. CASE j # k
        BY <1>3, <2>11, <3>2, <4>2 DEF SubsOK, Slotted
      <4> QED
        BY <4>1, <4>2
    <3> QED
      BY <3>1, <3>2 DEF Slotted
  <2>7. InOrder'
    <3>1. \A r \in Streams : r # s => pc'[r] = pc[r] /\ \A j \in Mine(r) : phase'[j] = phase[j]
      BY <1>3 DEF StreamsOK, SubsOK, Mine
    <3>2. pc'[s] = "wait" \/ (pc'[s] = "sub" /\ phase'[LastSub(s)] = "none")
      BY <1>1, <1>3, LastFacts DEF StreamsOK, SubsOK, InOrder
    <3> QED
      BY <3>1, <3>2, LastFacts DEF InOrder, Mine
  <2>8. Closed' /\ StopsOwn'
    BY <1>1, <1>3, <2>11 DEF Closed, StopsOwn, MayStop, Mine, SubsOK
  <2>9. Cancels'
    BY <1>1, <1>3 DEF Cancels, StreamsOK
  <2>10. Released' /\ CrashCauses'
    <3>1. \A r \in Streams : pc'[r] \in {"absent", "idle"} => pc[r] \in {"absent", "idle"}
      BY <1>1, <1>3 DEF StreamsOK
    <3> QED
      BY <1>1, <1>3, <3>1, GatewaysStay
  <2> QED
    BY <2>3, <2>4, <2>5, <2>6, <2>7, <2>8, <2>9, <2>10
<1>4. CASE \E k \in Mine(s) : \E i \in 1..MaxSubs[k[2]] :
            /\ k \in Subs /\ k[1] = s /\ phase[k] = "none"
            /\ slots[k[2]][i] = <<Nobody>>
            /\ slots' = [slots EXCEPT ![k[2]][i] = k]
            /\ index' = [index EXCEPT ![k] = i]
            /\ phase' = [phase EXCEPT ![k] = "open"]
            /\ \/ pc' = [pc EXCEPT ![s] = "wait"]
               \/ pc' = [pc EXCEPT ![s] = "sub"] /\ k # LastSub(s)
            /\ UNCHANGED <<mail, err, killer, slow, sOpen>>
  BY <1>3, <1>4
<1> QED
  BY <1>2, <1>4, SubscribeFacts

(* A cancel, by a stream whose context has ended. *)
LEMMA CancelInd ==
  ASSUME NEW s \in Streams, IInv, RunOf[s] \in ctxDone, Unsub(s, Mine(s)),
         UNCHANGED <<ctxDone, index, mail, err, slow, cOpen, reset, gateway>>,
         pc[s] \notin {"absent", "idle"},
         \E p \in {"drain", "cancelAgain", "done"} : pc' = [pc EXCEPT ![s] = p],
         sOpen' \in {sOpen, sOpen \ {s}}
  PROVE  IInv'
<1> USE DEF IInv, TypeOK
<1>1. MayStop(s) /\ Mine(s) \in SUBSET Subs
  BY DEF MayStop, Mine
<1>2. /\ SlotsOK' /\ SubsOK' /\ Slotted' /\ Closed' /\ StopsOwn'
      /\ \A k \in Subs : phase[k] = "none" => phase'[k] = "none"
  <2>1. mail' \in SUBSET mail /\ err' \in SUBSET Subs
    BY DEF SubsOK
  <2> QED
    BY <1>1, <2>1, UnsubInd
<1>3. StreamsOK' /\ GatewayOK'
  BY DEF StreamsOK, GatewayOK, PCs
<1>4. InOrder'
  <2>1. \A r \in Streams : pc'[r] = pc[r] \/ pc'[r] \notin {"absent", "idle", "snapshot", "sub"}
    BY DEF StreamsOK
  <2> QED
    BY <1>2, <2>1, OrderInd
<1>5. Cancels'
  BY DEF Cancels, StreamsOK
<1>6. Released' /\ CrashCauses'
  BY GatewaysStay DEF StreamsOK
<1> QED
  BY <1>2, <1>3, <1>4, <1>5, <1>6

LEMMA ContextEndsInd ==
  ASSUME NEW s \in Streams, IInv, ContextEnds(s)
  PROVE  IInv'
<1>1. /\ pc[s] = "wait" /\ RunOf[s] \in ctxDone
      /\ \E p \in {"drain", "cancelAgain"} : pc' = [pc EXCEPT ![s] = p]
      /\ UNCHANGED <<ctxDone, index, mail, err, slow, ConnVars, gateway>>
  BY DEF ContextEnds, Goto
<1>2. CASE Kind[s] # "status"
  <2>1. Unsub(s, Mine(s))
    BY <1>2 DEF ContextEnds
  <2> QED
    BY <1>1, <2>1, CancelInd DEF ConnVars
<1>3. CASE Kind[s] = "status"
  <2> USE DEF IInv, TypeOK
  <2>1. UNCHANGED SubVars
    BY <1>3 DEF ContextEnds, SubVars
  <2>2. SlotsOK' /\ SubsOK' /\ Slotted' /\ Closed' /\ StopsOwn'
    BY <1>1, <2>1, SubsStay
  <2>3. StreamsOK' /\ GatewayOK'
    BY <1>1 DEF StreamsOK, GatewayOK, PCs, ConnVars
  <2>4. InOrder'
    <3>1. /\ \A r \in Streams : pc'[r] = pc[r] \/ pc'[r] \notin {"absent", "idle", "snapshot", "sub"}
          /\ \A k \in Subs : phase[k] = "none" => phase'[k] = "none"
      BY <1>1, <2>1 DEF StreamsOK, SubVars
    <3> QED
      BY <3>1, OrderInd
  <2>5. Cancels'
    BY <1>1 DEF Cancels, StreamsOK
  <2>6. Released' /\ CrashCauses'
    BY <1>1, GatewaysStay DEF StreamsOK, ConnVars
  <2> QED
    BY <2>2, <2>3, <2>4, <2>5, <2>6
<1> QED
  BY <1>2, <1>3

LEMMA CancelLateInd ==
  ASSUME NEW s \in Streams, IInv, CancelLate(s)
  PROVE  IInv'
<1>1. /\ pc[s] \in {"cancel", "cancelAgain"} /\ pc' = [pc EXCEPT ![s] = "done"]
      /\ sOpen' = sOpen \ {s} /\ Unsub(s, Mine(s))
      /\ UNCHANGED <<ctxDone, index, mail, err, slow, cOpen, reset, gateway>>
  BY DEF CancelLate, Return, Goto
<1>2. RunOf[s] \in ctxDone
  BY <1>1 DEF IInv, Cancels
<1> QED
  BY <1>1, <1>2, CancelInd

LEMMA EndContextInd ==
  ASSUME NEW r \in 1..2, IInv, EndContext(r)
  PROVE  IInv'
<1> USE DEF IInv, TypeOK, EndContext, ConnVars, SubVars
<1>1. SlotsOK' /\ SubsOK' /\ StreamsOK' /\ GatewayOK'
  BY DEF SlotsOK, SubsOK, StreamsOK, GatewayOK
<1>2. Slotted' /\ InOrder'
  BY DEF Slotted, InOrder, Mine, Owns
<1>3. Cancels' /\ Closed' /\ StopsOwn'
  BY DEF Cancels, Closed, StopsOwn, MayStop, Mine, Owns
<1>4. Released' /\ CrashCauses'
  BY DEF Released, CrashCauses
<1> QED
  BY <1>1, <1>2, <1>3, <1>4

(* Steps of subscriptions that stop nobody: at most, open ones have mail. *)
LEMMA MailInd ==
  ASSUME IInv, NEW t \in Topics, mail' \in SUBSET Heard(t), err' \in SUBSET Subs,
         UNCHANGED <<ctxDone, pc, slots, phase, index, killer, slow, sOpen, cOpen, gateway>>,
         reset' \in SUBSET Streams
  PROVE  IInv'
<1> USE DEF IInv, TypeOK
<1>1. SlotsOK' /\ SubsOK' /\ StreamsOK' /\ GatewayOK'
  BY DEF SlotsOK, SubsOK, StreamsOK, GatewayOK, Heard
<1>2. Slotted' /\ InOrder'
  BY DEF Slotted, InOrder, Mine, Owns
<1>3. Cancels' /\ Closed' /\ StopsOwn'
  BY DEF Cancels, Closed, StopsOwn, MayStop, Mine, Heard, Owns
<1>4. Released' /\ CrashCauses'
  BY DEF Released, CrashCauses
<1> QED
  BY <1>1, <1>2, <1>3, <1>4

LEMMA PublishInd ==
  ASSUME NEW t \in Topics, IInv, Publish(t)
  PROVE  IInv'
BY MailInd DEF Publish, ConnVars, IInv, TypeOK, SubsOK, StreamsOK

LEMMA RunInd ==
  ASSUME NEW k \in Subs, IInv, Run(k)
  PROVE  IInv'
<1> USE DEF IInv, TypeOK
<1> DEFINE s == k[1]
<1>1. /\ k \in mail /\ phase[k] \in {"open", "closing"}
      /\ UNCHANGED <<ctxDone, pc, index, slow, sOpen, cOpen, gateway>>
      /\ s \in Streams /\ k[2] \in Topics
  BY SubsFacts DEF Run
<1>2. CASE /\ mail' = Heard("tunnels") \ {k}
           /\ UNCHANGED <<slots, phase, err, killer, reset>>
  <2>1. "tunnels" \in Topics /\ mail' \in SUBSET Heard("tunnels")
    BY <1>2 DEF Topics
  <2> QED
    BY <1>1, <1>2, <2>1, MailInd DEF SubsOK, StreamsOK
<1>3. CASE /\ mail' = mail \ {k} /\ err' = err \ {k} /\ Written(s)
           /\ UNCHANGED <<slots, phase, killer>>
  <2>1. mail' \in SUBSET Heard(k[2]) /\ err' \in SUBSET Subs /\ reset' \in SUBSET Streams
    BY <1>1, <1>3 DEF Heard, Written, SubsOK, StreamsOK
  <2> QED
    BY <1>1, <1>3, <2>1, MailInd
<1>4. CASE /\ mail' = mail \ {k} /\ err' = err \cup {k} /\ Unsub(s, {k}) /\ UNCHANGED reset
  <2>1. \A j \in Subs : Hit(j, {k}) /\ j[1] # s => MayStop(s)
    <3> SUFFICES ASSUME NEW j \in Subs, Hit(j, {k}), j # k PROVE MayStop(s)
      OBVIOUS
    <3>1. k[2] = j[2] /\ index[k] # 0 /\ slots[k[2]][index[k]] = j
      BY DEF Hit
    <3>2. ~Owns(k)
      BY <3>1 DEF Owns
    <3> QED
      BY <1>1, <3>2 DEF Closed, Slotted
  <2>2. \A j \in Subs : Hit(j, {k}) /\ j[1] = s /\ j \in mail' => MayStop(s)
    <3> SUFFICES ASSUME NEW j \in Subs, Hit(j, {k}), j # k PROVE MayStop(s)
      BY <1>4
    <3>1. k[2] = j[2] /\ index[k] # 0 /\ slots[k[2]][index[k]] = j
      BY DEF Hit
    <3>2. ~Owns(k)
      BY <3>1 DEF Owns
    <3> QED
      BY <1>1, <3>2 DEF Closed, Slotted
  <2>3. /\ SlotsOK' /\ SubsOK' /\ Slotted' /\ Closed' /\ StopsOwn'
        /\ \A j \in Subs : phase[j] = "none" => phase'[j] = "none"
    <3>1. {k} \in SUBSET Subs /\ mail' \in SUBSET mail /\ err' \in SUBSET Subs
      BY <1>4 DEF SubsOK
    <3> HIDE DEF s
    <3> QED
      BY <1>1, <1>4, <2>1, <2>2, <3>1, UnsubInd
  <2>4. StreamsOK' /\ GatewayOK'
    BY <1>1, <1>4 DEF StreamsOK, GatewayOK
  <2>5. InOrder'
    BY <1>1, <2>3, OrderInd
  <2>6. Cancels' /\ Released' /\ CrashCauses'
    BY <1>1 DEF Cancels, Released, CrashCauses
  <2> QED
    BY <2>3, <2>4, <2>5, <2>6
<1> QED
  BY <1>2, <1>3, <1>4 DEF Run, RunFails

(* A subscription that is closing comes to its end. *)
LEMMA EndingInd ==
  ASSUME IInv, NEW k \in Subs, phase[k] \in {"closing", "reporting"},
         \E p \in {"reporting", "ended"} : phase' = [phase EXCEPT ![k] = p],
         mail' \in SUBSET mail, err' \in SUBSET Subs,
         UNCHANGED <<ctxDone, slots, index, killer, slow>>
  PROVE  /\ SlotsOK' /\ SubsOK' /\ Slotted' /\ Closed' /\ StopsOwn'
         /\ \A j \in Subs : phase[j] = "none" => phase'[j] = "none"
<1> USE DEF IInv, TypeOK
<1>1. SlotsOK' /\ SubsOK'
  BY DEF SlotsOK, SubsOK, Phases
<1>2. \A j \in Subs : /\ phase'[j] = "open" <=> phase[j] = "open"
                      /\ phase'[j] = "closing" => phase[j] = "closing"
                      /\ phase[j] = "none" => phase'[j] = "none"
  BY DEF SubsOK
<1>3. Slotted'
  <2>1. \A j \in Subs : phase[j] # "none" => phase'[j] # "none"
    BY DEF SubsOK
  <2> QED
    BY <1>2, <2>1 DEF Slotted, Owns
<1>4. Closed' /\ StopsOwn'
  BY <1>2 DEF Closed, StopsOwn, MayStop, Mine, Owns
<1> QED
  BY <1>1, <1>2, <1>3, <1>4

LEMMA EndSubInd ==
  ASSUME NEW k \in Subs, IInv, EndSub(k)
  PROVE  IInv'
<1> USE DEF IInv, TypeOK
<1>1. /\ SlotsOK' /\ SubsOK' /\ Slotted' /\ Closed' /\ StopsOwn'
      /\ \A j \in Subs : phase[j] = "none" => phase'[j] = "none"
  BY EndingInd DEF EndSub, SubsOK
<1>2. UNCHANGED <<ctxDone, pc, sOpen, cOpen, reset, gateway>>
  BY DEF EndSub, ConnVars
<1>3. InOrder'
  BY <1>1, <1>2, OrderInd
<1>4. StreamsOK' /\ GatewayOK' /\ Cancels' /\ Released' /\ CrashCauses'
  BY <1>2 DEF StreamsOK, GatewayOK, Cancels, Released, CrashCauses
<1> QED
  BY <1>1, <1>3, <1>4

(* A channel that ends with its slot kept: its owner may still fail. *)
LEMMA DeactivateInd ==
  ASSUME NEW k \in Subs, IInv, Deactivate(k)
  PROVE  IInv'
<1> USE DEF IInv, TypeOK
<1>1. /\ k \in mail /\ phase[k] = "open" /\ phase' = [phase EXCEPT ![k] = "closing"]
      /\ slow' = slow \cup {k}
      /\ UNCHANGED <<ctxDone, pc, slots, index, mail, err, killer, sOpen, cOpen, reset, gateway>>
  BY DEF Deactivate, ConnVars
<1>2. SlotsOK' /\ SubsOK' /\ StreamsOK' /\ GatewayOK'
  BY <1>1 DEF SlotsOK, SubsOK, StreamsOK, GatewayOK, Phases
<1>3. \A j \in Subs : /\ j # k => phase'[j] = phase[j]
                      /\ phase'[j] = "none" <=> phase[j] = "none"
                      /\ phase'[j] = "open" => phase[j] = "open"
  BY <1>1 DEF SubsOK
<1>4. Slotted'
  BY <1>1, <1>3 DEF Slotted, Owns
<1>5. InOrder'
  BY <1>1, <1>3, OrderInd
<1>6. Closed' /\ StopsOwn'
  BY <1>1, <1>3 DEF Closed, Slotted, StopsOwn, MayStop, Mine, Owns
<1>7. Cancels' /\ Released' /\ CrashCauses'
  BY <1>1 DEF Cancels, Released, CrashCauses
<1> QED
  BY <1>2, <1>4, <1>5, <1>6, <1>7

LEMMA ReportInd ==
  ASSUME NEW k \in Subs, IInv, Report(k)
  PROVE  IInv'
<1> USE DEF IInv, TypeOK
<1> DEFINE s == k[1]
<1>1. /\ s \in Streams /\ pc[s] \in {"wait", "drain"}
      /\ UNCHANGED <<ctxDone, index, mail, err, slow, cOpen, reset, gateway, slots, killer>>
      /\ sOpen' \in {sOpen, sOpen \ {s}}
      /\ \/ pc[s] = "drain" /\ pc' = [pc EXCEPT ![s] = "cancel"]
         \/ pc' = [pc EXCEPT ![s] = "done"]
      /\ phase[k] = "reporting" /\ phase' = [phase EXCEPT ![k] = "ended"]
  BY SubsFacts DEF Report, OnError, Return, Goto
<1> HIDE DEF s
<1>2. /\ SlotsOK' /\ SubsOK' /\ Slotted' /\ Closed' /\ StopsOwn'
      /\ \A j \in Subs : phase[j] = "none" => phase'[j] = "none"
  BY <1>1, EndingInd DEF SubsOK
<1>3. InOrder'
  <2>1. \A r \in Streams : pc'[r] = pc[r] \/ pc'[r] \notin {"absent", "idle", "snapshot", "sub"}
    BY <1>1 DEF StreamsOK
  <2> QED
    BY <1>2, <2>1, OrderInd
<1>4. StreamsOK' /\ GatewayOK' /\ Cancels'
  BY <1>1 DEF StreamsOK, GatewayOK, Cancels, PCs
<1>5. Released' /\ CrashCauses'
  <2>1. \A r \in Streams : pc'[r] \in {"absent", "idle"} => pc[r] \in {"absent", "idle"}
    BY <1>1 DEF StreamsOK
  <2> QED
    BY <1>1, <2>1, GatewaysStay
<1> QED
  BY <1>2, <1>3, <1>4, <1>5

-----------------------------------------------------------------------------
(* The clients. *)

LEMMA PeerLeavesInd ==
  ASSUME NEW s \in Streams, IInv, PeerLeaves(s)
  PROVE  IInv'
<1> USE DEF IInv, TypeOK
<1>1. /\ cOpen' = cOpen \ {s} /\ reset' \in {reset, reset \cup {s}}
      /\ UNCHANGED <<ctxDone, pc, SubVars, sOpen, gateway>>
  BY DEF PeerLeaves
<1>2. SlotsOK' /\ SubsOK' /\ Slotted' /\ Closed' /\ StopsOwn'
  BY <1>1, SubsStay
<1>3. InOrder'
  BY <1>1, OrderInd DEF SubVars
<1>4. StreamsOK' /\ GatewayOK' /\ Cancels' /\ Released' /\ CrashCauses'
  BY <1>1 DEF StreamsOK, GatewayOK, Cancels, Released, CrashCauses
<1> QED
  BY <1>2, <1>3, <1>4

(* What a gateway may become: its process may have ended if its stream has, *)
(* or its connection, or once a ping has failed or met a send.              *)
May(s, g) ==
    /\ g \in GatewayStates /\ Held(g)
    /\ g.up \/ s \notin sOpen \/ g.lost \/ g.pings # "fine"

LEMMA GatewayInd ==
  ASSUME NEW s \in Gateways, NEW g, IInv, May(s, g),
         gateway' = [gateway EXCEPT ![s] = g],
         pc' = pc \/ pc' = [pc EXCEPT ![s] = "done"],
         pc'[s] \in {"absent", "idle"} => Calling(g),
         cOpen' \in {cOpen, cOpen \ {s}}, reset' \in {reset, reset \cup {s}},
         UNCHANGED <<ctxDone, SubVars, sOpen>>
  PROVE  IInv'
<1> USE GatewaysFacts DEF IInv, TypeOK
<1>1. SlotsOK' /\ SubsOK' /\ Slotted' /\ Closed' /\ StopsOwn'
  BY SubsStay
<1>2. \A r \in Streams : pc'[r] = pc[r] \/ pc'[r] = "done"
  BY DEF StreamsOK
<1>3. InOrder'
  BY <1>2, OrderInd DEF SubVars
<1>4. StreamsOK' /\ Cancels'
  BY <1>2 DEF StreamsOK, Cancels, PCs
<1>5. GatewayOK'
  BY DEF GatewayOK, May
<1>6. \A r \in Gateways : gateway'[r] = IF r = s THEN g ELSE gateway[r]
  BY DEF GatewayOK
<1>7. Released'
  BY <1>2, <1>6 DEF Released, May
<1>8. CrashCauses'
  BY <1>6 DEF CrashCauses, May
<1> QED
  BY <1>1, <1>3, <1>4, <1>5, <1>7, <1>8

LEMMA GatewayStepInd ==
  ASSUME NEW s \in Gateways, NEW g, NEW closes \in BOOLEAN, IInv, May(s, g),
         Calling(gateway[s]) => Calling(g), GatewayStep(s, g, closes)
  PROVE  IInv'
<1>1. /\ gateway' = [gateway EXCEPT ![s] = g] /\ cOpen' \in {cOpen, cOpen \ {s}}
      /\ UNCHANGED <<ctxDone, pc, SubVars, sOpen, reset>>
  BY DEF GatewayStep
<1>2. pc'[s] \in {"absent", "idle"} => Calling(g)
  BY <1>1 DEF IInv, Released
<1> QED
  BY <1>1, <1>2, GatewayInd

(* How a gateway fails, and what releasing its handler does. *)
LEMMA FailFacts ==
  ASSUME NEW g \in GatewayStates
  PROVE  /\ Fail(g) \in GatewayStates
         /\ \A x \in {"monitor", "handler", "wg", "tick", "up", "lost", "pings"} : Fail(g)[x] = g[x]
BY DEF Fail, GatewayStates

LEMMA PanicFacts ==
  ASSUME NEW g \in GatewayStates
  PROVE  /\ Panic(g) \in GatewayStates /\ Panic(g).monitor = "done"
         /\ Panic(g).pings = g.pings /\ Panic(g).lost = g.lost
BY DEF Panic, GatewayStates

LEMMA DoneFacts ==
  ASSUME NEW g \in GatewayStates
  PROVE  /\ Done(Fail(g)) \in GatewayStates
         /\ Done(Fail(g)).pings = g.pings /\ Done(Fail(g)).lost = g.lost
         /\ g.wg = 1 => Done(Fail(g)).up = g.up
<1> DEFINE f == Fail(g)
<1>1. f \in GatewayStates /\ f.wg = g.wg /\ f.pings = g.pings /\ f.lost = g.lost /\ f.up = g.up
  BY FailFacts
<1> HIDE DEF f
<1>2. CASE f.wg = 0
  <2>1. Done(f) = Panic(f)
    BY <1>2 DEF Done
  <2>2. /\ Panic(f) \in GatewayStates
        /\ Panic(f).pings = f.pings /\ Panic(f).lost = f.lost
    BY <1>1, PanicFacts
  <2> QED
    BY <1>1, <1>2, <2>1, <2>2 DEF f
<1>3. CASE f.wg # 0
  <2>1. f.wg = 1
    BY <1>1, <1>3 DEF GatewayStates
  <2>2. Done(f) = [f EXCEPT !.wg = 0]
    BY <1>1, <2>1 DEF Done, GatewayStates
  <2>3. /\ [f EXCEPT !.wg = 0] \in GatewayStates /\ [f EXCEPT !.wg = 0].pings = f.pings
        /\ [f EXCEPT !.wg = 0].lost = f.lost /\ [f EXCEPT !.wg = 0].up = f.up
    BY <1>1 DEF GatewayStates
  <2> QED
    BY <1>1, <2>2, <2>3 DEF f
<1> QED
  BY <1>2, <1>3

(* What the invariant says of a gateway. *)
LEMMA GatewayNow ==
  ASSUME NEW s \in Gateways, IInv
  PROVE  gateway[s] \in GatewayStates /\ Held(gateway[s]) /\ May(s, gateway[s])
BY DEF IInv, TypeOK, GatewayOK, Released, CrashCauses, May

LEMMA BrowserLeavesInd ==
  ASSUME NEW s \in Gateways, IInv, BrowserLeaves(s)
  PROVE  IInv'
<1> DEFINE g == [gateway[s] EXCEPT !.ws = FALSE]
<1>1. GatewayStep(s, g, FALSE)
  BY DEF BrowserLeaves
<1>2. May(s, g) /\ (Calling(gateway[s]) => Calling(g))
  BY GatewayNow DEF GatewayStates, May, Held, Calling
<1> HIDE DEF g
<1> QED
  BY <1>1, <1>2, GatewayStepInd

LEMMA LinkBreaksInd ==
  ASSUME NEW s \in Gateways, IInv, LinkBreaks(s)
  PROVE  IInv'
<1> DEFINE g == [gateway[s] EXCEPT !.lost = TRUE]
<1>1. /\ gateway' = [gateway EXCEPT ![s] = g] /\ cOpen' = cOpen \ {s}
      /\ reset' = reset \cup {s} /\ UNCHANGED <<ctxDone, pc, SubVars, sOpen>>
  BY GatewayNow DEF LinkBreaks, IInv, TypeOK, GatewayOK, GatewayStates
<1>2. May(s, g) /\ (Calling(gateway[s]) => Calling(g))
  BY GatewayNow DEF GatewayStates, May, Held, Calling
<1> HIDE DEF g
<1>3. pc'[s] \in {"absent", "idle"} => Calling(g)
  BY <1>1, <1>2 DEF IInv, Released
<1> QED
  BY <1>1, <1>2, <1>3, GatewayInd

LEMMA ReaderInd ==
  ASSUME NEW s \in Gateways, IInv, Reader(s)
  PROVE  IInv'
<1> DEFINE g == Fail(gateway[s])
<1>1. GatewayStep(s, g, FALSE)
  BY DEF Reader, ReadFails
<1>2. May(s, g) /\ (Calling(gateway[s]) => Calling(g))
  BY GatewayNow DEF GatewayStates, May, Held, Calling, Fail
<1> HIDE DEF g
<1> QED
  BY <1>1, <1>2, GatewayStepInd

LEMMA MonitorFailsInd ==
  ASSUME NEW s \in Gateways, IInv, MonitorFails(s)
  PROVE  IInv'
<1> DEFINE d == Done(Fail(gateway[s]))
           g == [d EXCEPT !.monitor = "done", !.handler = "wait"]
<1>1. /\ gateway' = [gateway EXCEPT ![s] = g] /\ pc' = [pc EXCEPT ![s] = "done"]
      /\ UNCHANGED <<ctxDone, SubVars, sOpen, cOpen, reset>>
      /\ pc[s] = "idle"
  BY DEF MonitorFails, Goto, ConnVars
<1>2. gateway[s].up /\ gateway[s].wg = 1
  BY <1>1 DEF IInv, Released, Calling, Held
<1>3. d \in GatewayStates /\ d.up
  BY <1>2, GatewayNow, DoneFacts
<1> HIDE DEF d
<1>4. May(s, g)
  BY <1>3 DEF GatewayStates, May, Held
<1> HIDE DEF g
<1>5. pc'[s] = "done"
  BY <1>1, GatewaysFacts DEF IInv, TypeOK, StreamsOK
<1> QED
  BY <1>1, <1>4, <1>5, GatewayInd

LEMMA PingInd ==
  ASSUME NEW s \in Gateways, IInv, Ping(s)
  PROVE  IInv'
<1> DEFINE g == [gateway[s] EXCEPT !.tick = FALSE]
           d == Done(Fail(g))
           f == [d EXCEPT !.pings = "failed"]
           c == [g EXCEPT !.pings = "clashed"]
<1>1. ~Calling(gateway[s])
  BY GatewayNow DEF Ping, Calling, GatewayStates
<1>2. g \in GatewayStates
  BY GatewayNow DEF GatewayStates
<1>3. GatewayStep(s, f, FALSE) \/ GatewayStep(s, Panic(c), FALSE)
  BY DEF Ping
<1> HIDE DEF g
<1>4. d \in GatewayStates
  BY <1>2, DoneFacts
<1> HIDE DEF d
<1>5. May(s, f)
  BY <1>4 DEF GatewayStates, May, Held
<1>6. c \in GatewayStates /\ c.pings = "clashed"
  BY <1>2 DEF GatewayStates
<1> HIDE DEF c, f
<1>7. May(s, Panic(c))
  BY <1>6, PanicFacts DEF May, Held
<1> QED
  BY <1>1, <1>3, <1>5, <1>7, GatewayStepInd

LEMMA SendInd ==
  ASSUME NEW s \in Gateways, IInv, Send(s) \/ Sent(s)
  PROVE  IInv'
<1>1. PICK m \in {"select", "send"} : GatewayStep(s, [gateway[s] EXCEPT !.monitor = m], FALSE)
  BY DEF Send, Sent
<1> DEFINE g == [gateway[s] EXCEPT !.monitor = m]
<1>2. gateway[s].monitor \in {"select", "send"}
  BY DEF Send, Sent
<1>3. May(s, g) /\ ~Calling(gateway[s])
  BY <1>2, GatewayNow DEF GatewayStates, May, Held, Calling
<1> HIDE DEF g
<1>4. GatewayStep(s, g, FALSE)
  BY <1>1 DEF g
<1> QED
  BY <1>3, <1>4, GatewayStepInd

LEMMA MonitorEndsInd ==
  ASSUME NEW s \in Gateways, IInv, MonitorEnds(s)
  PROVE  IInv'
<1> DEFINE d == Done(Fail(gateway[s]))
           g == [d EXCEPT !.monitor = "done"]
<1>1. /\ GatewayStep(s, g, TRUE)
      /\ gateway[s].up /\ gateway[s].monitor = "select"
  BY DEF MonitorEnds, Serving
<1>2. /\ d \in GatewayStates /\ d.pings = gateway[s].pings
      /\ gateway[s].wg = 1 => d.up
  BY <1>1, GatewayNow, DoneFacts
<1> HIDE DEF d
<1>3. d.up \/ d.pings # "fine"
  BY <1>1, <1>2, GatewayNow DEF Held
<1>4. May(s, g) /\ ~Calling(gateway[s])
  BY <1>1, <1>2, <1>3 DEF GatewayStates, May, Held, Calling
<1> HIDE DEF g
<1> QED
  BY <1>1, <1>4, GatewayStepInd

LEMMA NilPacketInd ==
  ASSUME NEW s \in Gateways, IInv, NilPacket(s)
  PROVE  IInv'
<1> DEFINE g == Panic(gateway[s])
<1>1. /\ GatewayStep(s, g, TRUE) /\ gateway[s].monitor = "select"
      /\ s \notin sOpen \/ gateway[s].lost
  BY DEF NilPacket
<1>2. /\ g \in GatewayStates /\ g.monitor = "done" /\ g.lost = gateway[s].lost
  BY GatewayNow, PanicFacts
<1> HIDE DEF g
<1>3. May(s, g) /\ ~Calling(gateway[s])
  BY <1>1, <1>2 DEF May, Held, Calling
<1> QED
  BY <1>1, <1>3, GatewayStepInd

LEMMA HandlerReturnsInd ==
  ASSUME NEW s \in Gateways, IInv, HandlerReturns(s)
  PROVE  IInv'
<1> DEFINE f == Fail(gateway[s])
<1>1. PICK t \in BOOLEAN : GatewayStep(s, [f EXCEPT !.handler = "returned", !.tick = t], FALSE)
  BY DEF HandlerReturns
<1> DEFINE g == [f EXCEPT !.handler = "returned", !.tick = t]
<1>2. gateway[s].handler = "wait" /\ f \in GatewayStates
  BY GatewayNow, FailFacts DEF HandlerReturns
<1>3. /\ f.monitor = gateway[s].monitor /\ f.pings = gateway[s].pings /\ f.wg = gateway[s].wg
      /\ f.up = gateway[s].up /\ f.lost = gateway[s].lost
  BY GatewayNow, FailFacts
<1> HIDE DEF f
<1>4. May(s, g) /\ ~Calling(gateway[s])
  BY <1>2, <1>3, GatewayNow DEF GatewayStates, May, Held, Calling
<1>5. GatewayStep(s, g, FALSE)
  BY <1>1
<1> HIDE DEF g
<1> QED
  BY <1>4, <1>5, GatewayStepInd

-----------------------------------------------------------------------------
(* The theorems. *)

LEMMA StepInd == IInv /\ [Next]_vars => IInv'
<1> SUFFICES ASSUME IInv, [Next]_vars PROVE IInv'
  OBVIOUS
<1>1. CASE \E s \in Streams : Begin(s) \/ Stream(s) \/ PeerLeaves(s)
  BY <1>1, BeginInd, SnapshotInd, SubscribeInd, ContextEndsInd, CancelLateInd,
     PeerLeavesInd DEF Stream
<1>2. CASE \E r \in 1..2 : EndContext(r)
  BY <1>2, EndContextInd
<1>3. CASE \E t \in Topics : Publish(t)
  BY <1>3, PublishInd
<1>4. CASE \E k \in Subs : Sub(k) \/ Deactivate(k)
  BY <1>4, RunInd, EndSubInd, ReportInd, DeactivateInd DEF Sub
<1>5. CASE \E s \in Gateways : \/ BrowserLeaves(s) \/ LinkBreaks(s) \/ MonitorFails(s) \/ Ping(s)
                              \/ Send(s) \/ MonitorEnds(s) \/ MonitorNext(s) \/ GatewayNext(s)
  BY <1>5, BrowserLeavesInd, LinkBreaksInd, MonitorFailsInd, PingInd, SendInd,
     MonitorEndsInd,
     NilPacketInd, ReaderInd, HandlerReturnsInd DEF MonitorNext, GatewayNext
<1>6. CASE UNCHANGED vars
  <2> USE <1>6 DEF IInv, TypeOK, vars, SubVars
  <2>1. SlotsOK' /\ SubsOK' /\ Slotted' /\ Closed' /\ StopsOwn'
    BY SubsStay
  <2>2. InOrder'
    BY OrderInd
  <2>3. StreamsOK' /\ GatewayOK' /\ Cancels' /\ Released' /\ CrashCauses'
    BY DEF StreamsOK, GatewayOK, Cancels, Released, CrashCauses
  <2> QED
    BY <2>1, <2>2, <2>3
<1> QED
  BY <1>1, <1>2, <1>3, <1>4, <1>5, <1>6 DEF Next

THEOREM Invariance == Spec => []IInv
<1>1. Init => IInv
  BY InitInd
<1>2. IInv /\ [Next]_vars => IInv'
  BY StepInd
<1> QED
  BY <1>1, <1>2, PTL DEF Spec

(* Each stream, subscription, slot and gateway is in a state that the code *)
(* knows, and no slot number is beyond its topic (pubsub.go, handlers.go,  *)
(* start.go).                                                              *)
THEOREM TypeCorrect == Spec => []TypeOK
<1>1. IInv => TypeOK
  BY DEF IInv
<1> QED
  BY <1>1, Invariance, PTL

(* However many streams there are: one stops another's subscription only   *)
(* by a cancel after its context has ended (handlers.go:354,               *)
(* booster.go:402), or by the error of a Run under way when it was itself  *)
(* stopped so (pubsub.go:129).                                             *)
THEOREM StopsAfterContext == Spec => []StopsOwn
<1>1. IInv => StopsOwn
  BY DEF IInv
<1> QED
  BY <1>1, Invariance, PTL

(* A gateway's process crashes only because its stream has ended or its    *)
(* connection broke (senders.go:219), a ping has failed, whether its       *)
(* handler has returned or not (start.go:160), or has met a send           *)
(* (start.go:157, 188).                                                    *)
THEOREM CrashesExplained == Spec => []CrashCauses
<1>1. IInv => CrashCauses
  BY DEF IInv
<1> QED
  BY <1>1, Invariance, PTL

=============================================================================
