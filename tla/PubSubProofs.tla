---------------------------- MODULE PubSubProofs ----------------------------
(***************************************************************************)
(* Proofs about PubSub: the types of its variables; that channel.stop      *)
(* deactivates and closes a channel at most once, on behalf of one thread; *)
(* that a publication serves its audience; that every step is one of       *)
(* Broadcast or changes nothing of it; and when an Unsub reaches another   *)
(* subscription than its own.                                              *)
(***************************************************************************)
EXTENDS PubSub, TLAPS

(* A thread past its lookup works on a topic object. *)
HasTopic ==
    \A th \in Thread :
       \/ pc[th] \in {"sub_create", "sub_insert", "unsub_lock", "unsub_slot",
                      "unsub_clear", "pub_lock", "pub_scan", "pub_send",
                      "close_lock", "close_scan"}
       \/ pc[th] \in StopPCs /\ th \notin Senders
       => topicOf[th] \in Topics

(* A thread that stops or sends to a channel has one, and Pub is at a slot. *)
HasTarget ==
    \A th \in Thread :
       /\ pc[th] \in StopPCs \cup {"pub_send"} => target[th] \in Subs
       /\ pc[th] = "pub_send" => cursor[th] \in Slots

(* Before channel.run starts it, the loop does not exist. *)
LoopUnborn ==
    \A s \in Subs :
       pc[Client(s)] \in {"idle", "sub_lookup", "sub_create", "sub_insert",
                          "run_activate", "run_loop"} => loop[s] = "unborn"

(* A running loop, and a loop about to run, have their output channel. *)
LoopHasOutput ==
    \A s \in Subs :
       loop[s] = "running" \/ pc[Client(s)] = "run_loop" => out[s] = "open"

(* Whoever got its stop message through has ended the loop. *)
Stopping == {"stop_deactivate", "stop_close"}

StopperEndsLoop ==
    \A th \in Thread : pc[th] \in Stopping =>
       loop[target[th]] = "exited" /\ out[target[th]] = "open"

(* The inductive invariant. *)
IInv ==
    /\ TypeOK
    /\ HasTopic
    /\ HasTarget
    /\ LoopUnborn
    /\ LoopHasOutput
    /\ StopperEndsLoop
    /\ SoleStopper

-----------------------------------------------------------------------------
(* Every thread of the specification is in Thread. *)
LEMMA ThreadFacts ==
    /\ \A s \in Subs : Client(s) \in Thread /\ Consumer(s) \in Thread
    /\ \A s \in Subs, p \in Pubs : Sender(s, p) \in Senders /\ Sender(s, p) \in Thread
    /\ \A p \in Pubs : Publisher(p) \in Thread
    /\ \A k \in Closers : Closer(k) \in Thread
BY DEF Thread, Clients, Consumers, Senders, Publishers, ClosersT

(* The initial state satisfies the invariant. *)
LEMMA InitInd == Init => IInv
<1> SUFFICES ASSUME Init PROVE IInv
  OBVIOUS
<1>1. TypeOK
  BY ConstantsAssumption DEF Init, TypeOK, Slots, Topics, ClientPCs
<1>2. QED
  BY <1>1, ThreadFacts DEF Init, IInv, TypeOK, HasTopic, HasTarget, LoopUnborn,
     LoopHasOutput, StopperEndsLoop, SoleStopper, StopPCs, Stopping

(* channel.stop keeps the invariant, whichever thread runs it. *)
LEMMA StopInd ==
    ASSUME NEW th \in Thread, IInv, Stop(th)
    PROVE  IInv'
<1> USE DEF IInv, Goto, chanVars
<1>1. CASE StopCheck(th)
  <2>1. TypeOK'
    BY <1>1 DEF StopCheck, TypeOK, AfterStop, ClientPCs, ConsumerPCs, SenderPCs,
       CloserPCs, UnsubPCs, StopPCs
  <2>2. HasTopic' /\ HasTarget'
    BY <1>1 DEF StopCheck, TypeOK, AfterStop, HasTopic, HasTarget, StopPCs
  <2>3. LoopUnborn' /\ LoopHasOutput'
    BY <1>1, ThreadFacts DEF StopCheck, TypeOK, AfterStop, LoopUnborn, LoopHasOutput
  <2>4. StopperEndsLoop' /\ SoleStopper'
    BY <1>1 DEF StopCheck, TypeOK, AfterStop, StopperEndsLoop, SoleStopper, Stopping
  <2>5. QED
    BY <2>1, <2>2, <2>3, <2>4
<1>2. CASE StopSend(th)
  <2>1. TypeOK'
    BY <1>2 DEF StopSend, TypeOK, ClientPCs, StopPCs
  <2>2. HasTopic' /\ HasTarget'
    BY <1>2 DEF StopSend, TypeOK, HasTopic, HasTarget, StopPCs
  <2>3. LoopUnborn' /\ LoopHasOutput'
    BY <1>2, ThreadFacts DEF StopSend, TypeOK, LoopUnborn, LoopHasOutput, HasTarget, StopPCs
  <2>4. StopperEndsLoop' /\ SoleStopper'
    BY <1>2 DEF StopSend, TypeOK, StopperEndsLoop, SoleStopper, Stopping,
       LoopHasOutput, HasTarget, StopPCs
  <2>5. QED
    BY <2>1, <2>2, <2>3, <2>4
<1>3. CASE StopDeactivate(th)
  <2>1. TypeOK'
    BY <1>3 DEF StopDeactivate, TypeOK, ClientPCs, StopPCs
  <2>2. HasTopic' /\ HasTarget'
    BY <1>3 DEF StopDeactivate, TypeOK, HasTopic, HasTarget, StopPCs
  <2>3. LoopUnborn' /\ LoopHasOutput'
    BY <1>3, ThreadFacts DEF StopDeactivate, TypeOK, LoopUnborn, LoopHasOutput
  <2>4. StopperEndsLoop' /\ SoleStopper'
    BY <1>3 DEF StopDeactivate, TypeOK, StopperEndsLoop, SoleStopper, Stopping
  <2>5. QED
    BY <2>1, <2>2, <2>3, <2>4
<1>4. CASE StopClose(th)
  <2>1. TypeOK'
    BY <1>4 DEF StopClose, TypeOK, AfterStop, ClientPCs, ConsumerPCs, SenderPCs,
       CloserPCs, UnsubPCs, StopPCs
  <2>2. HasTopic' /\ HasTarget'
    BY <1>4 DEF StopClose, TypeOK, AfterStop, HasTopic, HasTarget, StopPCs
  <2>3. LoopUnborn' /\ LoopHasOutput'
    BY <1>4, ThreadFacts DEF StopClose, TypeOK, AfterStop, LoopUnborn, LoopHasOutput,
       StopperEndsLoop, Stopping
  <2>4. StopperEndsLoop' /\ SoleStopper'
    BY <1>4 DEF StopClose, TypeOK, AfterStop, StopperEndsLoop, SoleStopper, Stopping
  <2>5. QED
    BY <2>1, <2>2, <2>3, <2>4
<1>5. QED
  BY <1>1, <1>2, <1>3, <1>4 DEF Stop

(* Unsub keeps the invariant, whoever calls it. *)
LEMMA UnsubInd ==
    ASSUME NEW th \in Thread, NEW s \in Subs, IInv, Unsub(th, s)
    PROVE  IInv'
<1> USE DEF IInv, Goto, chanVars
<1>1. CASE UnsubLookup(th)
  <2>1. TypeOK'
    BY <1>1, ThreadFacts, ConstantsAssumption DEF UnsubLookup, TypeOK, HasTopic, HasTarget,
       Topics, AfterUnsub,
       ClientPCs, ConsumerPCs, SenderPCs, PublisherPCs, CloserPCs, UnsubPCs, StopPCs
  <2>2. HasTopic' /\ HasTarget'
    BY <1>1, ThreadFacts DEF UnsubLookup, TypeOK, HasTopic, HasTarget, Topics, StopPCs,
       AfterUnsub
  <2>3. LoopUnborn' /\ LoopHasOutput'
    BY <1>1, ThreadFacts DEF UnsubLookup, TypeOK, LoopUnborn, LoopHasOutput, AfterUnsub
  <2>4. StopperEndsLoop' /\ SoleStopper'
    BY <1>1, ThreadFacts DEF UnsubLookup, TypeOK, StopperEndsLoop, SoleStopper, Stopping,
       AfterUnsub
  <2>5. QED
    BY <2>1, <2>2, <2>3, <2>4
<1>2. CASE UnsubLock(th)
  <2>1. TypeOK'
    BY <1>2, ThreadFacts, ConstantsAssumption DEF UnsubLock, TypeOK, HasTopic, HasTarget,
       Topics,
       ClientPCs, ConsumerPCs, SenderPCs, PublisherPCs, CloserPCs, UnsubPCs, StopPCs
  <2>2. HasTopic' /\ HasTarget'
    BY <1>2, ThreadFacts DEF UnsubLock, TypeOK, HasTopic, HasTarget, Topics, StopPCs
  <2>3. LoopUnborn' /\ LoopHasOutput'
    BY <1>2, ThreadFacts DEF UnsubLock, TypeOK, LoopUnborn, LoopHasOutput
  <2>4. StopperEndsLoop' /\ SoleStopper'
    BY <1>2, ThreadFacts DEF UnsubLock, TypeOK, StopperEndsLoop, SoleStopper, Stopping
  <2>5. QED
    BY <2>1, <2>2, <2>3, <2>4
<1>3. CASE UnsubSlot(th, s)
  <2> DEFINE c == slots[topicOf[th]][index[s]]
  <2>1. topicOf[th] \in Topics /\ c \in Subs \cup {Nil}
    BY <1>3 DEF UnsubSlot, TypeOK, HasTopic
  <2>2. CASE c = Nil
    <3>1. /\ UNCHANGED <<slots, registry, chanVars, topicOf, cursor, target, index,
                         err, cancels, audience, leftBy>>
          /\ lock' = [lock EXCEPT ![topicOf[th]] = Nil]
          /\ pc' = [pc EXCEPT ![th] = AfterUnsub(th)]
      BY <1>3, <2>2 DEF UnsubSlot
    <3>2. TypeOK'
      BY <3>1 DEF TypeOK, AfterUnsub, ClientPCs, ConsumerPCs
    <3>3. HasTopic' /\ HasTarget' /\ LoopUnborn' /\ LoopHasOutput'
      BY <3>1, ThreadFacts DEF TypeOK, AfterUnsub, HasTopic, HasTarget, LoopUnborn,
         LoopHasOutput, StopPCs
    <3>4. StopperEndsLoop' /\ SoleStopper'
      BY <3>1 DEF TypeOK, AfterUnsub, StopperEndsLoop, SoleStopper, Stopping
    <3>5. QED
      BY <3>2, <3>3, <3>4
  <2>3. CASE c # Nil
    <3>1. /\ UNCHANGED <<slots, registry, chanVars, topicOf, cursor, lock, index,
                         err, cancels, audience, leftBy>>
          /\ target' = [target EXCEPT ![th] = c]
          /\ pc' = [pc EXCEPT ![th] = "stop_check"]
          /\ pc[th] = "unsub_slot"
      BY <1>3, <2>3 DEF UnsubSlot
    <3> HIDE DEF c
    <3>2. TypeOK'
      BY <3>1, <2>1 DEF TypeOK, ClientPCs, StopPCs
    <3>3. HasTopic' /\ HasTarget' /\ LoopUnborn' /\ LoopHasOutput'
      BY <3>1, <2>1, <2>3, ThreadFacts DEF TypeOK, HasTopic, HasTarget, LoopUnborn,
         LoopHasOutput, StopPCs
    <3>4. StopperEndsLoop' /\ SoleStopper'
      BY <3>1 DEF TypeOK, StopperEndsLoop, SoleStopper, Stopping
    <3>5. QED
      BY <3>2, <3>3, <3>4
  <2>4. QED
    BY <2>2, <2>3
<1>4. CASE UnsubClear(th, s)
  <2>1. TypeOK'
    BY <1>4, ThreadFacts, ConstantsAssumption DEF UnsubClear, TypeOK, HasTopic, HasTarget,
       Topics, AfterUnsub,
       ClientPCs, ConsumerPCs, SenderPCs, PublisherPCs, CloserPCs, UnsubPCs, StopPCs
  <2>2. HasTopic' /\ HasTarget'
    BY <1>4, ThreadFacts DEF UnsubClear, TypeOK, HasTopic, HasTarget, Topics, StopPCs,
       AfterUnsub
  <2>3. LoopUnborn' /\ LoopHasOutput'
    BY <1>4, ThreadFacts DEF UnsubClear, TypeOK, LoopUnborn, LoopHasOutput, AfterUnsub
  <2>4. StopperEndsLoop' /\ SoleStopper'
    BY <1>4, ThreadFacts DEF UnsubClear, TypeOK, StopperEndsLoop, SoleStopper, Stopping,
       AfterUnsub
  <2>5. QED
    BY <2>1, <2>2, <2>3, <2>4
<1>5. QED
  BY <1>1, <1>2, <1>3, <1>4 DEF Unsub

(* The calls of Sub and of the CancelFunc keep the invariant. *)
LEMMA ClientInd ==
    ASSUME NEW s \in Subs, IInv, CallSub(s) \/ CallCancel(s) \/ ClientStep(s)
    PROVE  IInv'
<1> USE DEF IInv, Goto, chanVars
<1>1. CASE CallSub(s)
  <2>1. TypeOK'
    BY <1>1, ThreadFacts, ConstantsAssumption DEF CallSub, TypeOK, HasTopic, HasTarget,
       Topics,
       ClientPCs, ConsumerPCs, SenderPCs, PublisherPCs, CloserPCs, UnsubPCs, StopPCs
  <2>2. HasTopic' /\ HasTarget'
    BY <1>1, ThreadFacts DEF CallSub, TypeOK, HasTopic, HasTarget, Topics, StopPCs
  <2>3. LoopUnborn' /\ LoopHasOutput'
    BY <1>1, ThreadFacts DEF CallSub, TypeOK, LoopUnborn, LoopHasOutput
  <2>4. StopperEndsLoop' /\ SoleStopper'
    BY <1>1, ThreadFacts DEF CallSub, TypeOK, StopperEndsLoop, SoleStopper, Stopping
  <2>5. QED
    BY <2>1, <2>2, <2>3, <2>4
<1>2. CASE CallCancel(s)
  <2>1. TypeOK'
    BY <1>2, ThreadFacts, ConstantsAssumption DEF CallCancel, TypeOK, HasTopic, HasTarget,
       Topics,
       ClientPCs, ConsumerPCs, SenderPCs, PublisherPCs, CloserPCs, UnsubPCs, StopPCs
  <2>2. HasTopic' /\ HasTarget'
    BY <1>2, ThreadFacts DEF CallCancel, TypeOK, HasTopic, HasTarget, Topics, StopPCs
  <2>3. LoopUnborn' /\ LoopHasOutput'
    BY <1>2, ThreadFacts DEF CallCancel, TypeOK, LoopUnborn, LoopHasOutput
  <2>4. StopperEndsLoop' /\ SoleStopper'
    BY <1>2, ThreadFacts DEF CallCancel, TypeOK, StopperEndsLoop, SoleStopper, Stopping
  <2>5. QED
    BY <2>1, <2>2, <2>3, <2>4
<1>3. CASE SubLookup(s)
  <2>1. TypeOK'
    BY <1>3, ThreadFacts, ConstantsAssumption DEF SubLookup, TypeOK, HasTopic, HasTarget,
       Topics,
       ClientPCs, ConsumerPCs, SenderPCs, PublisherPCs, CloserPCs, UnsubPCs, StopPCs
  <2>2. HasTopic' /\ HasTarget'
    BY <1>3, ThreadFacts DEF SubLookup, TypeOK, HasTopic, HasTarget, Topics, StopPCs
  <2>3. LoopUnborn' /\ LoopHasOutput'
    BY <1>3, ThreadFacts DEF SubLookup, TypeOK, LoopUnborn, LoopHasOutput
  <2>4. StopperEndsLoop' /\ SoleStopper'
    BY <1>3, ThreadFacts DEF SubLookup, TypeOK, StopperEndsLoop, SoleStopper, Stopping
  <2>5. QED
    BY <2>1, <2>2, <2>3, <2>4
<1>4. CASE SubCreate(s)
  <2>1. TypeOK'
    BY <1>4, ThreadFacts, ConstantsAssumption DEF SubCreate, TypeOK, HasTopic, HasTarget,
       Topics,
       ClientPCs, ConsumerPCs, SenderPCs, PublisherPCs, CloserPCs, UnsubPCs, StopPCs
  <2>2. HasTopic' /\ HasTarget'
    BY <1>4, ThreadFacts DEF SubCreate, TypeOK, HasTopic, HasTarget, Topics, StopPCs
  <2>3. LoopUnborn' /\ LoopHasOutput'
    BY <1>4, ThreadFacts DEF SubCreate, TypeOK, LoopUnborn, LoopHasOutput
  <2>4. StopperEndsLoop' /\ SoleStopper'
    BY <1>4, ThreadFacts DEF SubCreate, TypeOK, StopperEndsLoop, SoleStopper, Stopping
  <2>5. QED
    BY <2>1, <2>2, <2>3, <2>4
<1>5. CASE SubInsert(s)
  <2>1. /\ UNCHANGED <<registry, lock, chanVars, topicOf, target, cursor, err,
                       cancels, audience, leftBy>>
        /\ pc[Client(s)] = "sub_insert"
    BY <1>5 DEF SubInsert
  <2>2. CASE pc' = [pc EXCEPT ![Client(s)] = "refused"] /\ UNCHANGED <<slots, index>>
    <3>1. TypeOK'
      BY <2>1, <2>2 DEF TypeOK, ClientPCs
    <3>2. HasTopic' /\ HasTarget' /\ LoopUnborn' /\ LoopHasOutput'
      BY <2>1, <2>2, ThreadFacts DEF TypeOK, HasTopic, HasTarget, LoopUnborn,
         LoopHasOutput, StopPCs
    <3>3. StopperEndsLoop' /\ SoleStopper'
      BY <2>1, <2>2 DEF TypeOK, StopperEndsLoop, SoleStopper, Stopping
    <3>4. QED
      BY <3>1, <3>2, <3>3
  <2>3. ASSUME NEW i \in Slots,
               slots' = [slots EXCEPT ![topicOf[Client(s)]][i] = s],
               index' = [index EXCEPT ![s] = i],
               pc' = [pc EXCEPT ![Client(s)] = "run_activate"]
        PROVE  IInv'
    <3>1. TypeOK'
      BY <2>1, <2>3 DEF TypeOK, ClientPCs
    <3>2. HasTopic' /\ HasTarget' /\ LoopUnborn' /\ LoopHasOutput'
      BY <2>1, <2>3, ThreadFacts DEF TypeOK, HasTopic, HasTarget, LoopUnborn,
         LoopHasOutput, StopPCs
    <3>3. StopperEndsLoop' /\ SoleStopper'
      BY <2>1, <2>3 DEF TypeOK, StopperEndsLoop, SoleStopper, Stopping
    <3>4. QED
      BY <3>1, <3>2, <3>3
  <2>4. QED
    BY <1>5, <2>2, <2>3 DEF SubInsert
<1>6. CASE RunActivate(s)
  <2>1. TypeOK'
    BY <1>6, ThreadFacts, ConstantsAssumption DEF RunActivate, TypeOK, HasTopic, HasTarget,
       Topics,
       ClientPCs, ConsumerPCs, SenderPCs, PublisherPCs, CloserPCs, UnsubPCs, StopPCs
  <2>2. HasTopic' /\ HasTarget'
    BY <1>6, ThreadFacts DEF RunActivate, TypeOK, HasTopic, HasTarget, Topics, StopPCs
  <2>3. LoopUnborn' /\ LoopHasOutput'
    BY <1>6, ThreadFacts DEF RunActivate, TypeOK, LoopUnborn, LoopHasOutput, Client
  <2>4. StopperEndsLoop' /\ SoleStopper'
    BY <1>6, ThreadFacts DEF RunActivate, TypeOK, StopperEndsLoop, SoleStopper, Stopping
  <2>5. QED
    BY <2>1, <2>2, <2>3, <2>4
<1>7. CASE RunLoop(s)
  <2>1. TypeOK'
    BY <1>7, ThreadFacts, ConstantsAssumption DEF RunLoop, TypeOK, HasTopic, HasTarget,
       Topics,
       ClientPCs, ConsumerPCs, SenderPCs, PublisherPCs, CloserPCs, UnsubPCs, StopPCs
  <2>2. HasTopic' /\ HasTarget'
    BY <1>7, ThreadFacts DEF RunLoop, TypeOK, HasTopic, HasTarget, Topics, StopPCs
  <2>3. LoopUnborn' /\ LoopHasOutput'
    BY <1>7, ThreadFacts DEF RunLoop, TypeOK, LoopUnborn, LoopHasOutput
  <2>4. StopperEndsLoop' /\ SoleStopper'
    BY <1>7, ThreadFacts DEF RunLoop, TypeOK, StopperEndsLoop, SoleStopper, Stopping,
       LoopUnborn
  <2>5. QED
    BY <2>1, <2>2, <2>3, <2>4
<1>8. CASE RunOut(s)
  <2>1. TypeOK'
    BY <1>8, ThreadFacts, ConstantsAssumption DEF RunOut, TypeOK, HasTopic, HasTarget,
       Topics,
       ClientPCs, ConsumerPCs, SenderPCs, PublisherPCs, CloserPCs, UnsubPCs, StopPCs
  <2>2. HasTopic' /\ HasTarget'
    BY <1>8, ThreadFacts DEF RunOut, TypeOK, HasTopic, HasTarget, Topics, StopPCs
  <2>3. LoopUnborn' /\ LoopHasOutput'
    BY <1>8, ThreadFacts DEF RunOut, TypeOK, LoopUnborn, LoopHasOutput
  <2>4. StopperEndsLoop' /\ SoleStopper'
    BY <1>8, ThreadFacts DEF RunOut, TypeOK, StopperEndsLoop, SoleStopper, Stopping
  <2>5. QED
    BY <2>1, <2>2, <2>3, <2>4
<1>9. CASE Unsub(Client(s), s)
  BY <1>9, ThreadFacts, UnsubInd
<1>10. CASE Stop(Client(s))
  BY <1>10, ThreadFacts, StopInd
<1>11. QED
  BY <1>1, <1>2, <1>3, <1>4, <1>5, <1>6, <1>7, <1>8, <1>9, <1>10 DEF ClientStep

(* The consumer goroutine keeps the invariant. *)
LEMMA ConsumerInd ==
    ASSUME NEW s \in Subs, IInv, ConsumerStep(s)
    PROVE  IInv'
<1> USE DEF IInv, Goto, chanVars
<1>1. CASE ConsumerRun(s)
  <2>1. TypeOK'
    <3>1. /\ UNCHANGED <<registry, slots, lock, chanVars, topicOf, target, cursor,
                         index, cancels, audience, leftBy>>
          /\ err' \in [Subs -> BOOLEAN]
      BY <1>1 DEF ConsumerRun, TypeOK
    <3>2. pc' \in [Thread -> ClientPCs \cup ConsumerPCs \cup SenderPCs
                                \cup PublisherPCs \cup CloserPCs]
      BY <1>1 DEF ConsumerRun, TypeOK, ConsumerPCs, UnsubPCs
    <3>3. QED
      BY <3>1, <3>2 DEF TypeOK
  <2>2. HasTopic' /\ HasTarget'
    BY <1>1, ThreadFacts DEF ConsumerRun, TypeOK, HasTopic, HasTarget, Topics, StopPCs
  <2>3. LoopUnborn' /\ LoopHasOutput'
    BY <1>1, ThreadFacts DEF ConsumerRun, TypeOK, LoopUnborn, LoopHasOutput
  <2>4. StopperEndsLoop' /\ SoleStopper'
    BY <1>1, ThreadFacts DEF ConsumerRun, TypeOK, StopperEndsLoop, SoleStopper, Stopping
  <2>5. QED
    BY <2>1, <2>2, <2>3, <2>4
<1>2. CASE ConsumerPost(s)
  <2>1. TypeOK'
    BY <1>2, ThreadFacts, ConstantsAssumption DEF ConsumerPost, TypeOK, HasTopic,
       HasTarget, Topics,
       ClientPCs, ConsumerPCs, SenderPCs, PublisherPCs, CloserPCs, UnsubPCs, StopPCs
  <2>2. HasTopic' /\ HasTarget'
    BY <1>2, ThreadFacts DEF ConsumerPost, TypeOK, HasTopic, HasTarget, Topics, StopPCs
  <2>3. LoopUnborn' /\ LoopHasOutput'
    BY <1>2, ThreadFacts DEF ConsumerPost, TypeOK, LoopUnborn, LoopHasOutput
  <2>4. StopperEndsLoop' /\ SoleStopper'
    BY <1>2, ThreadFacts DEF ConsumerPost, TypeOK, StopperEndsLoop, SoleStopper, Stopping
  <2>5. QED
    BY <2>1, <2>2, <2>3, <2>4
<1>3. CASE Unsub(Consumer(s), s)
  BY <1>3, ThreadFacts, UnsubInd
<1>4. CASE Stop(Consumer(s))
  BY <1>4, ThreadFacts, StopInd
<1>5. QED
  BY <1>1, <1>2, <1>3, <1>4 DEF ConsumerStep

(* The goroutine that carries a message keeps the invariant. *)
LEMMA SenderInd ==
    ASSUME NEW s \in Subs, NEW p \in Pubs, IInv, SenderStep(s, p)
    PROVE  IInv'
<1> USE DEF IInv, Goto, chanVars
<1>1. CASE SendEval(s, p)
  <2>1. TypeOK'
    BY <1>1, ThreadFacts, ConstantsAssumption DEF SendEval, TypeOK, HasTopic, HasTarget,
       Topics,
       ClientPCs, ConsumerPCs, SenderPCs, PublisherPCs, CloserPCs, UnsubPCs, StopPCs
  <2>2. HasTopic' /\ HasTarget'
    BY <1>1, ThreadFacts DEF SendEval, TypeOK, HasTopic, HasTarget, Topics, StopPCs
  <2>3. LoopUnborn' /\ LoopHasOutput'
    BY <1>1, ThreadFacts DEF SendEval, TypeOK, LoopUnborn, LoopHasOutput
  <2>4. StopperEndsLoop' /\ SoleStopper'
    BY <1>1, ThreadFacts DEF SendEval, TypeOK, StopperEndsLoop, SoleStopper, Stopping
  <2>5. QED
    BY <2>1, <2>2, <2>3, <2>4
<1>2. CASE Deliver(s, p)
  <2>1. TypeOK'
    BY <1>2, ThreadFacts, ConstantsAssumption DEF Deliver, TypeOK, HasTopic, HasTarget,
       Topics,
       ClientPCs, ConsumerPCs, SenderPCs, PublisherPCs, CloserPCs, UnsubPCs, StopPCs
  <2>2. HasTopic' /\ HasTarget'
    BY <1>2, ThreadFacts DEF Deliver, TypeOK, HasTopic, HasTarget, Topics, StopPCs
  <2>3. LoopUnborn' /\ LoopHasOutput'
    BY <1>2, ThreadFacts DEF Deliver, TypeOK, LoopUnborn, LoopHasOutput
  <2>4. StopperEndsLoop' /\ SoleStopper'
    BY <1>2, ThreadFacts DEF Deliver, TypeOK, StopperEndsLoop, SoleStopper, Stopping
  <2>5. QED
    BY <2>1, <2>2, <2>3, <2>4
<1>3. CASE SendPanic(s, p)
  <2>1. TypeOK'
    BY <1>3, ThreadFacts, ConstantsAssumption DEF SendPanic, TypeOK, HasTopic, HasTarget,
       Topics,
       ClientPCs, ConsumerPCs, SenderPCs, PublisherPCs, CloserPCs, UnsubPCs, StopPCs
  <2>2. HasTopic' /\ HasTarget'
    BY <1>3, ThreadFacts DEF SendPanic, TypeOK, HasTopic, HasTarget, Topics, StopPCs
  <2>3. LoopUnborn' /\ LoopHasOutput'
    BY <1>3, ThreadFacts DEF SendPanic, TypeOK, LoopUnborn, LoopHasOutput
  <2>4. StopperEndsLoop' /\ SoleStopper'
    BY <1>3, ThreadFacts DEF SendPanic, TypeOK, StopperEndsLoop, SoleStopper, Stopping
  <2>5. QED
    BY <2>1, <2>2, <2>3, <2>4
<1>4. CASE SendTimeout(s, p)
  <2>1. TypeOK'
    BY <1>4, ThreadFacts, ConstantsAssumption DEF SendTimeout, TypeOK, HasTopic, HasTarget,
       Topics,
       ClientPCs, ConsumerPCs, SenderPCs, PublisherPCs, CloserPCs, UnsubPCs, StopPCs
  <2>2. HasTopic' /\ HasTarget'
    BY <1>4, ThreadFacts DEF SendTimeout, TypeOK, HasTopic, HasTarget, Topics, StopPCs
  <2>3. LoopUnborn' /\ LoopHasOutput'
    BY <1>4, ThreadFacts DEF SendTimeout, TypeOK, LoopUnborn, LoopHasOutput
  <2>4. StopperEndsLoop' /\ SoleStopper'
    BY <1>4, ThreadFacts DEF SendTimeout, TypeOK, StopperEndsLoop, SoleStopper, Stopping
  <2>5. QED
    BY <2>1, <2>2, <2>3, <2>4
<1>5. CASE Stop(Sender(s, p))
  BY <1>5, ThreadFacts, StopInd
<1>6. QED
  BY <1>1, <1>2, <1>3, <1>4, <1>5 DEF SenderStep

(* Pub keeps the invariant. *)
LEMMA PubInd ==
    ASSUME NEW p \in Pubs, IInv, CallPub(p) \/ PubStep(p)
    PROVE  IInv'
<1> USE DEF IInv, Goto, chanVars
<1>1. CASE CallPub(p)
  <2>1. TypeOK'
    BY <1>1, ThreadFacts, ConstantsAssumption DEF CallPub, TypeOK, HasTopic, HasTarget,
       Topics,
       ClientPCs, ConsumerPCs, SenderPCs, PublisherPCs, CloserPCs, UnsubPCs, StopPCs
  <2>2. HasTopic' /\ HasTarget'
    BY <1>1, ThreadFacts DEF CallPub, TypeOK, HasTopic, HasTarget, Topics, StopPCs
  <2>3. LoopUnborn' /\ LoopHasOutput'
    BY <1>1, ThreadFacts DEF CallPub, TypeOK, LoopUnborn, LoopHasOutput
  <2>4. StopperEndsLoop' /\ SoleStopper'
    BY <1>1, ThreadFacts DEF CallPub, TypeOK, StopperEndsLoop, SoleStopper, Stopping
  <2>5. QED
    BY <2>1, <2>2, <2>3, <2>4
<1>2. CASE PubLock(p)
  <2>1. TypeOK'
    BY <1>2, ThreadFacts, ConstantsAssumption DEF PubLock, TypeOK, HasTopic, HasTarget,
       Topics,
       ClientPCs, ConsumerPCs, SenderPCs, PublisherPCs, CloserPCs, UnsubPCs, StopPCs
  <2>2. HasTopic' /\ HasTarget'
    BY <1>2, ThreadFacts DEF PubLock, TypeOK, HasTopic, HasTarget, Topics, StopPCs
  <2>3. LoopUnborn' /\ LoopHasOutput'
    BY <1>2, ThreadFacts DEF PubLock, TypeOK, LoopUnborn, LoopHasOutput
  <2>4. StopperEndsLoop' /\ SoleStopper'
    BY <1>2, ThreadFacts DEF PubLock, TypeOK, StopperEndsLoop, SoleStopper, Stopping
  <2>5. QED
    BY <2>1, <2>2, <2>3, <2>4
<1>3. CASE PubScan(p)
  <2> DEFINE th == Publisher(p)
             c == slots[topicOf[th]][cursor[th]]
  <2>1. /\ UNCHANGED <<registry, slots, chanVars, topicOf, index, err, cancels, audience, leftBy>>
        /\ pc[th] = "pub_scan"
        /\ th \in Thread
        /\ topicOf[th] \in Topics
        /\ cursor[th] \in 1..(MaxSubs + 1)
    BY <1>3, ThreadFacts DEF PubScan, TypeOK, HasTopic
  <2>2. CASE /\ UNCHANGED <<cursor, target>>
             /\ lock' = [lock EXCEPT ![topicOf[th]] = Nil]
             /\ pc' = [pc EXCEPT ![th] = "done"]
    <3> HIDE DEF th
    <3>1. TypeOK'
      BY <2>1, <2>2 DEF TypeOK, PublisherPCs, CloserPCs
    <3>2. HasTopic' /\ HasTarget' /\ LoopUnborn' /\ LoopHasOutput'
      BY <2>1, <2>2, ThreadFacts DEF TypeOK, HasTopic, HasTarget, LoopUnborn,
         LoopHasOutput, StopPCs
    <3>3. StopperEndsLoop' /\ SoleStopper'
      BY <2>1, <2>2 DEF TypeOK, StopperEndsLoop, SoleStopper, Stopping
    <3>4. QED
      BY <3>1, <3>2, <3>3
  <2>3. CASE /\ cursor[th] \in Slots
             /\ cursor' = [cursor EXCEPT ![th] = cursor[th] + 1]
             /\ UNCHANGED <<pc, target, lock>>
    <3> HIDE DEF th
    <3>0. cursor' \in [Thread -> 1..(MaxSubs + 1)]
      BY <2>1, <2>3, ConstantsAssumption DEF TypeOK, Slots
    <3>1. TypeOK'
      BY <2>1, <2>3, <3>0 DEF TypeOK
    <3>2. HasTopic' /\ HasTarget' /\ LoopUnborn' /\ LoopHasOutput'
      BY <2>1, <2>3, ThreadFacts DEF TypeOK, HasTopic, HasTarget, LoopUnborn,
         LoopHasOutput, StopPCs
    <3>3. StopperEndsLoop' /\ SoleStopper'
      BY <2>1, <2>3 DEF TypeOK, StopperEndsLoop, SoleStopper, Stopping
    <3>4. QED
      BY <3>1, <3>2, <3>3
  <2>4. CASE /\ cursor[th] \in Slots
             /\ c # Nil
             /\ target' = [target EXCEPT ![th] = c]
             /\ pc' = [pc EXCEPT ![th] = "pub_send"]
             /\ UNCHANGED cursor
             /\ UNCHANGED lock
    <3>0. c \in Subs
      BY <2>1, <2>4 DEF TypeOK
    <3> HIDE DEF th, c
    <3>1. cursor' \in [Thread -> 1..(MaxSubs + 1)]
      BY <2>1, <2>4, ConstantsAssumption DEF TypeOK, Slots
    <3>2. TypeOK'
      BY <2>1, <2>4, <3>0, <3>1 DEF TypeOK, PublisherPCs, CloserPCs, StopPCs
    <3>3. HasTopic' /\ HasTarget' /\ LoopUnborn' /\ LoopHasOutput'
      BY <2>1, <2>4, <3>0, ThreadFacts DEF TypeOK, HasTopic, HasTarget, LoopUnborn,
         LoopHasOutput, StopPCs
    <3>4. StopperEndsLoop' /\ SoleStopper'
      BY <2>1, <2>4 DEF TypeOK, StopperEndsLoop, SoleStopper, Stopping
    <3>5. QED
      BY <3>2, <3>3, <3>4
  <2>5. QED
    BY <1>3, <2>1, <2>2, <2>3, <2>4, ConstantsAssumption DEF PubScan, Slots
<1>4. CASE PubSend(p)
  <2>1. TypeOK'
    <3>1. cursor' \in [Thread -> 1..(MaxSubs + 1)]
      BY <1>4, ThreadFacts, ConstantsAssumption DEF PubSend, TypeOK, HasTarget, Slots
    <3>2. pc' \in [Thread -> ClientPCs \cup ConsumerPCs \cup SenderPCs
                                \cup PublisherPCs \cup CloserPCs]
      BY <1>4, ThreadFacts DEF PubSend, TypeOK, SenderPCs, PublisherPCs
    <3>3. QED
      BY <1>4, <3>1, <3>2 DEF PubSend, TypeOK
  <2>2. HasTopic' /\ HasTarget'
    BY <1>4, ThreadFacts DEF PubSend, TypeOK, HasTopic, HasTarget, Topics, StopPCs, Slots
  <2>3. LoopUnborn' /\ LoopHasOutput'
    BY <1>4, ThreadFacts DEF PubSend, TypeOK, LoopUnborn, LoopHasOutput, Slots
  <2>4. StopperEndsLoop' /\ SoleStopper'
    BY <1>4, ThreadFacts DEF PubSend, TypeOK, StopperEndsLoop, SoleStopper, Stopping, Slots
  <2>5. QED
    BY <2>1, <2>2, <2>3, <2>4
<1>5. QED
  BY <1>1, <1>2, <1>3, <1>4 DEF PubStep

(* Close keeps the invariant. *)
LEMMA CloseInd ==
    ASSUME NEW k \in Closers, IInv, CallClose(k) \/ CloseStep(k)
    PROVE  IInv'
<1> USE DEF IInv, Goto, chanVars
<1>1. CASE CallClose(k)
  <2>1. TypeOK'
    BY <1>1, ThreadFacts, ConstantsAssumption DEF CallClose, TypeOK, HasTopic, HasTarget,
       Topics,
       ClientPCs, ConsumerPCs, SenderPCs, PublisherPCs, CloserPCs, UnsubPCs, StopPCs
  <2>2. HasTopic' /\ HasTarget'
    BY <1>1, ThreadFacts DEF CallClose, TypeOK, HasTopic, HasTarget, Topics, StopPCs
  <2>3. LoopUnborn' /\ LoopHasOutput'
    BY <1>1, ThreadFacts DEF CallClose, TypeOK, LoopUnborn, LoopHasOutput
  <2>4. StopperEndsLoop' /\ SoleStopper'
    BY <1>1, ThreadFacts DEF CallClose, TypeOK, StopperEndsLoop, SoleStopper, Stopping
  <2>5. QED
    BY <2>1, <2>2, <2>3, <2>4
<1>2. CASE CloseLock(k)
  <2>1. TypeOK'
    BY <1>2, ThreadFacts, ConstantsAssumption DEF CloseLock, TypeOK, HasTopic, HasTarget,
       Topics,
       ClientPCs, ConsumerPCs, SenderPCs, PublisherPCs, CloserPCs, UnsubPCs, StopPCs
  <2>2. HasTopic' /\ HasTarget'
    BY <1>2, ThreadFacts DEF CloseLock, TypeOK, HasTopic, HasTarget, Topics, StopPCs
  <2>3. LoopUnborn' /\ LoopHasOutput'
    BY <1>2, ThreadFacts DEF CloseLock, TypeOK, LoopUnborn, LoopHasOutput
  <2>4. StopperEndsLoop' /\ SoleStopper'
    BY <1>2, ThreadFacts DEF CloseLock, TypeOK, StopperEndsLoop, SoleStopper, Stopping
  <2>5. QED
    BY <2>1, <2>2, <2>3, <2>4
<1>3. CASE CloseScan(k)
  <2> DEFINE th == Closer(k)
             c == slots[topicOf[th]][cursor[th]]
  <2>1. /\ UNCHANGED <<registry, slots, chanVars, topicOf, index, err, cancels, audience, leftBy>>
        /\ pc[th] = "close_scan"
        /\ th \in Thread
        /\ topicOf[th] \in Topics
        /\ cursor[th] \in 1..(MaxSubs + 1)
    BY <1>3, ThreadFacts DEF CloseScan, TypeOK, HasTopic
  <2>2. CASE /\ UNCHANGED <<cursor, target>>
             /\ lock' = [lock EXCEPT ![topicOf[th]] = Nil]
             /\ pc' = [pc EXCEPT ![th] = "close_delete"]
    <3> HIDE DEF th
    <3>1. TypeOK'
      BY <2>1, <2>2 DEF TypeOK, PublisherPCs, CloserPCs
    <3>2. HasTopic' /\ HasTarget' /\ LoopUnborn' /\ LoopHasOutput'
      BY <2>1, <2>2, ThreadFacts DEF TypeOK, HasTopic, HasTarget, LoopUnborn,
         LoopHasOutput, StopPCs
    <3>3. StopperEndsLoop' /\ SoleStopper'
      BY <2>1, <2>2 DEF TypeOK, StopperEndsLoop, SoleStopper, Stopping
    <3>4. QED
      BY <3>1, <3>2, <3>3
  <2>3. CASE /\ cursor[th] \in Slots
             /\ cursor' = [cursor EXCEPT ![th] = cursor[th] + 1]
             /\ UNCHANGED <<pc, target, lock>>
    <3> HIDE DEF th
    <3>0. cursor' \in [Thread -> 1..(MaxSubs + 1)]
      BY <2>1, <2>3, ConstantsAssumption DEF TypeOK, Slots
    <3>1. TypeOK'
      BY <2>1, <2>3, <3>0 DEF TypeOK
    <3>2. HasTopic' /\ HasTarget' /\ LoopUnborn' /\ LoopHasOutput'
      BY <2>1, <2>3, ThreadFacts DEF TypeOK, HasTopic, HasTarget, LoopUnborn,
         LoopHasOutput, StopPCs
    <3>3. StopperEndsLoop' /\ SoleStopper'
      BY <2>1, <2>3 DEF TypeOK, StopperEndsLoop, SoleStopper, Stopping
    <3>4. QED
      BY <3>1, <3>2, <3>3
  <2>4. CASE /\ cursor[th] \in Slots
             /\ c # Nil
             /\ target' = [target EXCEPT ![th] = c]
             /\ pc' = [pc EXCEPT ![th] = "stop_check"]
             /\ cursor' = [cursor EXCEPT ![th] = cursor[th] + 1]
             /\ UNCHANGED lock
    <3>0. c \in Subs
      BY <2>1, <2>4 DEF TypeOK
    <3> HIDE DEF th, c
    <3>1. cursor' \in [Thread -> 1..(MaxSubs + 1)]
      BY <2>1, <2>4, ConstantsAssumption DEF TypeOK, Slots
    <3>2. TypeOK'
      BY <2>1, <2>4, <3>0, <3>1 DEF TypeOK, PublisherPCs, CloserPCs, StopPCs
    <3>3. HasTopic' /\ HasTarget' /\ LoopUnborn' /\ LoopHasOutput'
      BY <2>1, <2>4, <3>0, ThreadFacts DEF TypeOK, HasTopic, HasTarget, LoopUnborn,
         LoopHasOutput, StopPCs
    <3>4. StopperEndsLoop' /\ SoleStopper'
      BY <2>1, <2>4 DEF TypeOK, StopperEndsLoop, SoleStopper, Stopping
    <3>5. QED
      BY <3>2, <3>3, <3>4
  <2>5. QED
    BY <1>3, <2>1, <2>2, <2>3, <2>4, ConstantsAssumption DEF CloseScan, Slots
<1>4. CASE CloseDelete(k)
  <2>1. TypeOK'
    BY <1>4, ThreadFacts, ConstantsAssumption DEF CloseDelete, TypeOK, HasTopic, HasTarget,
       Topics,
       ClientPCs, ConsumerPCs, SenderPCs, PublisherPCs, CloserPCs, UnsubPCs, StopPCs
  <2>2. HasTopic' /\ HasTarget'
    BY <1>4, ThreadFacts DEF CloseDelete, TypeOK, HasTopic, HasTarget, Topics, StopPCs
  <2>3. LoopUnborn' /\ LoopHasOutput'
    BY <1>4, ThreadFacts DEF CloseDelete, TypeOK, LoopUnborn, LoopHasOutput
  <2>4. StopperEndsLoop' /\ SoleStopper'
    BY <1>4, ThreadFacts DEF CloseDelete, TypeOK, StopperEndsLoop, SoleStopper, Stopping
  <2>5. QED
    BY <2>1, <2>2, <2>3, <2>4
<1>5. CASE Stop(Closer(k))
  BY <1>5, ThreadFacts, StopInd
<1>6. QED
  BY <1>1, <1>2, <1>3, <1>4, <1>5 DEF CloseStep

-----------------------------------------------------------------------------
(* Every step keeps the invariant. *)
LEMMA StepInd == IInv /\ [Next]_vars => IInv'
<1> SUFFICES ASSUME IInv, [Next]_vars PROVE IInv'
  OBVIOUS
<1>1. CASE UNCHANGED vars
  BY <1>1 DEF IInv, vars, TypeOK, HasTopic, HasTarget, LoopUnborn, LoopHasOutput,
     StopperEndsLoop, SoleStopper
<1>2. CASE Next
  BY <1>2, ClientInd, ConsumerInd, SenderInd, PubInd, CloseInd DEF Next
<1>3. QED
  BY <1>1, <1>2

LEMMA Invariance == Spec => []IInv
BY InitInd, StepInd, PTL DEF Spec

(* Every variable of the pubsub keeps its type; in particular a publisher's *)
(* and a closer's index never runs past the slots of the topic.             *)
THEOREM TypeCorrect == Spec => []TypeOK
<1>1. IInv => TypeOK
  BY DEF IInv
<1>2. QED
  BY <1>1, Invariance, PTL

(* At any time at most one thread is between taking the stop message of a   *)
(* channel and closing its output, however many call channel.stop.          *)
THEOREM OneStopper == Spec => []SoleStopper
<1>1. IInv => SoleStopper
  BY DEF IInv
<1>2. QED
  BY <1>1, Invariance, PTL

(* channel.stop only ever closes an open output channel, so the recover of  *)
(* closeChanSafe is never needed.                                           *)
THEOREM StopClosesOpen == Spec => []ClosesOpen
<1>1. IInv => ClosesOpen
  BY DEF IInv, StopperEndsLoop, Stopping, ClosesOpen
<1>2. QED
  BY <1>1, Invariance, PTL

-----------------------------------------------------------------------------
(* Locks, slots and deliveries: what the audience of a publication and the *)
(* refinement of Broadcast need besides IInv.                              *)

(* Who works on the slots of a topic holds its mutex. *)
Holding(th) ==
    \/ pc[th] \in {"unsub_slot", "unsub_clear", "pub_scan", "pub_send", "close_scan"}
    \/ pc[th] \in StopPCs /\ th \notin Senders
Locked == \A th \in Thread : Holding(th) => lock[topicOf[th]] = th

(* A subscription that has no slot yet, or does not run yet, is unknown. *)
Unlisted == {"idle", "sub_lookup", "sub_create", "sub_insert"}
Unrun == Unlisted \cup {"run_activate"}
Fresh ==
    \A s \in Subs :
       /\ pc[Client(s)] \in Unlisted => \A t \in Topics, i \in Slots : slots[t][i] # s
       /\ pc[Client(s)] \in Unrun =>
             /\ ~active[s] /\ out[s] = "unmade"
             /\ \A p \in Pubs : s \notin audience[p] /\ pc[Sender(s, p)] = "idle"

(* A subscription is in one slot of one topic. *)
OneSlot ==
    \A t, u \in Topics, i, j \in Slots :
       slots[t][i] # Nil /\ slots[t][i] = slots[u][j] => t = u /\ i = j

(* A channel is active from its start until its loop has been told to stop *)
(* and channel.stop goes on, and it is closed after that.                  *)
ActiveWhileOpen ==
    /\ \A s \in Subs :
          /\ active[s] => out[s] = "open"
          /\ loop[s] = "running" \/ pc[Client(s)] = "run_loop" => active[s]
    /\ \A th \in Thread :
          /\ pc[th] = "stop_deactivate" => active[target[th]]
          /\ pc[th] = "stop_close" => ~active[target[th]]

(* A sender belongs to a channel that runs or has run, and stops no other. *)
SendersOwn ==
    \A s \in Subs, p \in Pubs :
       /\ pc[Sender(s, p)] # "idle" => out[s] # "unmade"
       /\ pc[Sender(s, p)] \in StopPCs => target[Sender(s, p)] = s

(* Pub goes through the slots in order: whom it has sent the message is    *)
(* behind its index, and who is still to get it is not.                    *)
InOrder(p) ==
    LET th == Publisher(p) IN
    /\ pc[th] \in {"idle", "pub_lock"} =>
          /\ cursor[th] = 1 /\ audience[p] = {}
          /\ \A c \in Subs : pc[Sender(c, p)] = "idle"
    /\ pc[th] \in {"pub_scan", "pub_send"} =>
          /\ \A c \in Subs : pc[Sender(c, p)] # "idle" =>
                \E j \in Slots : j < cursor[th] /\ slots[topicOf[th]][j] = c
          /\ \A c \in audience[p] : active[c] /\ pc[Sender(c, p)] = "idle" =>
                \E j \in Slots : j >= cursor[th] /\ slots[topicOf[th]][j] = c
    /\ pc[th] = "pub_send" => target[th] = slots[topicOf[th]][cursor[th]]
PubOrder == \A p \in Pubs : InOrder(p)

SlotInv ==
    /\ IInv
    /\ Locked
    /\ Fresh
    /\ OneSlot
    /\ ActiveWhileOpen
    /\ SendersOwn
    /\ PubOrder
    /\ AudienceServed


-----------------------------------------------------------------------------
(* The threads are different ones. *)
LEMMA ThreadKinds ==
    /\ \A s, r \in Subs : Client(s) # Consumer(r)
    /\ \A s, r \in Subs : Client(s) = Client(r) => s = r
    /\ \A s, r \in Subs : Consumer(s) = Consumer(r) => s = r
    /\ \A s, r \in Subs, p \in Pubs : Client(s) # Sender(r, p) /\ Consumer(s) # Sender(r, p)
    /\ \A s \in Subs, p \in Pubs : Client(s) # Publisher(p) /\ Consumer(s) # Publisher(p)
    /\ \A s, r \in Subs, p, q \in Pubs : Sender(s, p) = Sender(r, q) => s = r /\ p = q
    /\ \A s \in Subs, p, q \in Pubs : Sender(s, p) # Publisher(q)
    /\ \A p, q \in Pubs : Publisher(p) = Publisher(q) => p = q
    /\ \A k \in Closers, s \in Subs : Closer(k) # Client(s) /\ Closer(k) # Consumer(s)
    /\ \A k \in Closers, s \in Subs, p \in Pubs : Closer(k) # Sender(s, p)
    /\ \A k \in Closers, p \in Pubs : Closer(k) # Publisher(p)
BY DEF Client, Consumer, Sender, Publisher, Closer

LEMMA ThreadSorts ==
    /\ \A s \in Subs : Client(s) \notin Senders \cup ClosersT /\ Consumer(s) \notin Senders \cup ClosersT
    /\ \A s \in Subs : Client(s) \notin Consumers /\ Consumer(s) \in Consumers
    /\ \A s \in Subs, p \in Pubs : Sender(s, p) \in Senders
    /\ \A p \in Pubs : Publisher(p) \notin Senders
    /\ \A k \in Closers : Closer(k) \in ClosersT /\ Closer(k) \notin Senders
BY ThreadKinds DEF Clients, Consumers, Senders, Publishers, ClosersT

LEMMA NilFacts == Nil \notin Thread /\ Nil \notin Subs /\ Nil \notin Topics
BY ConstantsAssumption DEF Topics

(* channel.stop. *)
LEMMA StopSlots ==
  ASSUME SlotInv, IInv', NEW th \in Thread, th \notin Publishers, Stop(th)
  PROVE  SlotInv'
<1> USE DEF SlotInv, IInv, Goto, chanVars
<1>1. CASE StopCheck(th)
  <2>1. Locked'
    BY <1>1 DEF StopCheck, Locked, Holding, StopPCs, AfterStop
  <2>2. Fresh'
    BY <1>1 DEF StopCheck, Fresh, Unlisted, Unrun, AfterStop
  <2>3. OneSlot'
    BY <1>1 DEF StopCheck, OneSlot, AfterStop
  <2>4. ActiveWhileOpen'
    BY <1>1 DEF StopCheck, ActiveWhileOpen, AfterStop
  <2>5. SendersOwn'
    BY <1>1 DEF StopCheck, SendersOwn, StopPCs, AfterStop
  <2>6. PubOrder'
    BY <1>1 DEF StopCheck, PubOrder, InOrder, AfterStop
  <2>7. AudienceServed'
    BY <1>1 DEF StopCheck, AudienceServed, AfterStop
  <2> QED
    BY <2>1, <2>2, <2>3, <2>4, <2>5, <2>6, <2>7
<1>2. CASE StopSend(th)
  <2>1. Locked'
    BY <1>2 DEF StopSend, Locked, Holding, StopPCs
  <2>2. Fresh'
    BY <1>2 DEF StopSend, Fresh, Unlisted, Unrun
  <2>3. OneSlot'
    BY <1>2 DEF StopSend, OneSlot
  <2>4. ActiveWhileOpen'
    BY <1>2, ThreadFacts DEF StopSend, TypeOK, ActiveWhileOpen
  <2>5. SendersOwn'
    BY <1>2 DEF StopSend, SendersOwn, StopPCs
  <2>6. PubOrder'
    BY <1>2 DEF StopSend, PubOrder, InOrder
  <2>7. AudienceServed'
    BY <1>2 DEF StopSend, AudienceServed
  <2> QED
    BY <2>1, <2>2, <2>3, <2>4, <2>5, <2>6, <2>7
<1>3. CASE StopDeactivate(th)
  <2>1. Locked'
    BY <1>3 DEF StopDeactivate, Locked, Holding, StopPCs
  <2>2. Fresh'
    BY <1>3 DEF StopDeactivate, Fresh, Unlisted, Unrun
  <2>3. OneSlot'
    BY <1>3 DEF StopDeactivate, OneSlot
  <2>4. ActiveWhileOpen'
    BY <1>3, ThreadFacts, ThreadKinds DEF StopDeactivate, TypeOK, ActiveWhileOpen,
       StopperEndsLoop, SoleStopper, Stopping, LoopUnborn, LoopHasOutput, HasTarget,
       StopPCs, Fresh, Unrun, Unlisted
  <2>5. SendersOwn'
    BY <1>3 DEF StopDeactivate, SendersOwn, StopPCs
  <2>6. PubOrder'
    BY <1>3 DEF StopDeactivate, PubOrder, InOrder
  <2>7. AudienceServed'
    BY <1>3 DEF StopDeactivate, AudienceServed
  <2> QED
    BY <2>1, <2>2, <2>3, <2>4, <2>5, <2>6, <2>7
<1>4. CASE StopClose(th)
  <2>1. Locked'
    BY <1>4 DEF StopClose, Locked, Holding, StopPCs, AfterStop
  <2>2. Fresh'
    BY <1>4, ThreadFacts, ThreadKinds, ThreadSorts, NilFacts
    DEF StopClose, TypeOK, AfterStop, StopperEndsLoop, Stopping, LoopUnborn, Fresh,
        Unlisted, Unrun, HasTopic, HasTarget, StopPCs
  <2>3. OneSlot'
    BY <1>4 DEF StopClose, OneSlot, AfterStop
  <2>4. ActiveWhileOpen'
    BY <1>4 DEF StopClose, ActiveWhileOpen, AfterStop
  <2>5. SendersOwn'
    BY <1>4 DEF StopClose, SendersOwn, StopPCs, AfterStop
  <2>6. PubOrder'
    BY <1>4 DEF StopClose, PubOrder, InOrder, AfterStop
  <2>7. AudienceServed'
    BY <1>4 DEF StopClose, AudienceServed, AfterStop
  <2> QED
    BY <2>1, <2>2, <2>3, <2>4, <2>5, <2>6, <2>7
<1> QED
  BY <1>1, <1>2, <1>3, <1>4 DEF Stop

(* Unsub. *)
LEMMA UnsubSlots ==
  ASSUME SlotInv, IInv', NEW s \in Subs, NEW th \in {Client(s), Consumer(s)}, Unsub(th, s)
  PROVE  SlotInv'
<1> USE DEF SlotInv, IInv, Goto, chanVars
<1>1. CASE UnsubLookup(th)
  <2>1. Locked'
    BY <1>1 DEF UnsubLookup, Locked, Holding, StopPCs, AfterUnsub
  <2>2. Fresh'
    BY <1>1 DEF UnsubLookup, Fresh, Unlisted, Unrun, AfterUnsub
  <2>3. OneSlot'
    BY <1>1 DEF UnsubLookup, OneSlot, AfterUnsub
  <2>4. ActiveWhileOpen'
    BY <1>1 DEF UnsubLookup, ActiveWhileOpen, AfterUnsub
  <2>5. SendersOwn'
    BY <1>1 DEF UnsubLookup, SendersOwn, StopPCs, AfterUnsub
  <2>6. PubOrder'
    BY <1>1 DEF UnsubLookup, PubOrder, InOrder, AfterUnsub
  <2>7. AudienceServed'
    BY <1>1 DEF UnsubLookup, AudienceServed, AfterUnsub
  <2> QED
    BY <2>1, <2>2, <2>3, <2>4, <2>5, <2>6, <2>7
<1>2. CASE UnsubLock(th)
  <2>1. Locked'
    BY <1>2, ThreadFacts, ThreadKinds, ThreadSorts, NilFacts DEF UnsubLock, TypeOK, Locked,
       Holding, StopPCs
  <2>2. Fresh'
    BY <1>2 DEF UnsubLock, Fresh, Unlisted, Unrun
  <2>3. OneSlot'
    BY <1>2 DEF UnsubLock, OneSlot
  <2>4. ActiveWhileOpen'
    BY <1>2 DEF UnsubLock, ActiveWhileOpen
  <2>5. SendersOwn'
    BY <1>2 DEF UnsubLock, SendersOwn, StopPCs
  <2>6. PubOrder'
    BY <1>2 DEF UnsubLock, PubOrder, InOrder
  <2>7. AudienceServed'
    BY <1>2 DEF UnsubLock, AudienceServed
  <2> QED
    BY <2>1, <2>2, <2>3, <2>4, <2>5, <2>6, <2>7
<1>3. CASE UnsubSlot(th, s)
  <2> DEFINE c == slots[topicOf[th]][index[s]]
  <2>1. /\ UNCHANGED <<slots, registry, chanVars, topicOf, cursor, index, err, cancels, audience, leftBy>>
        /\ th \in Thread /\ pc[th] = "unsub_slot" /\ c \in Subs \cup {Nil} /\ topicOf[th] \in Topics
    BY <1>3, ThreadFacts DEF UnsubSlot, TypeOK, HasTopic
  <2> HIDE DEF c
  <2>2. CASE UNCHANGED target /\ lock' = [lock EXCEPT ![topicOf[th]] = Nil]
             /\ pc' = [pc EXCEPT ![th] = AfterUnsub(th)]
    <3>1. Locked'
      BY <2>1, <2>2, ThreadFacts DEF TypeOK, Locked, Holding, StopPCs, AfterUnsub
    <3>2. Fresh'
      BY <2>1, <2>2 DEF Fresh, Unlisted, Unrun, AfterUnsub
    <3>3. OneSlot'
      BY <2>1, <2>2 DEF OneSlot, AfterUnsub
    <3>4. ActiveWhileOpen'
      BY <2>1, <2>2 DEF ActiveWhileOpen, AfterUnsub
    <3>5. SendersOwn'
      BY <2>1, <2>2 DEF SendersOwn, StopPCs, AfterUnsub
    <3>6. PubOrder'
      BY <2>1, <2>2 DEF PubOrder, InOrder, AfterUnsub
    <3>7. AudienceServed'
      BY <2>1, <2>2 DEF AudienceServed, AfterUnsub
    <3> QED
      BY <3>1, <3>2, <3>3, <3>4, <3>5, <3>6, <3>7
  <2>3. CASE UNCHANGED lock /\ target' = [target EXCEPT ![th] = c]
             /\ pc' = [pc EXCEPT ![th] = "stop_check"]
    <3>1. Locked'
      BY <2>1, <2>3 DEF Locked, Holding, StopPCs
    <3>2. Fresh'
      BY <2>1, <2>3 DEF Fresh, Unlisted, Unrun
    <3>3. OneSlot'
      BY <2>1, <2>3 DEF OneSlot
    <3>4. ActiveWhileOpen'
      BY <2>1, <2>3 DEF ActiveWhileOpen
    <3>5. SendersOwn'
      BY <2>1, <2>3, ThreadFacts, ThreadKinds DEF TypeOK, SendersOwn, StopPCs
    <3>6. PubOrder'
      BY <2>1, <2>3 DEF PubOrder, InOrder
    <3>7. AudienceServed'
      BY <2>1, <2>3 DEF AudienceServed
    <3> QED
      BY <3>1, <3>2, <3>3, <3>4, <3>5, <3>6, <3>7
  <2> QED
    BY <1>3, <2>1, <2>2, <2>3 DEF UnsubSlot, c
<1>4. CASE UnsubClear(th, s)
  <2>1. Locked'
    BY <1>4, ThreadFacts DEF UnsubClear, TypeOK, Locked, Holding, StopPCs, AfterUnsub
  <2>2. Fresh'
    BY <1>4, ThreadFacts, ThreadKinds, ThreadSorts, NilFacts DEF UnsubClear, TypeOK, Fresh,
       Unlisted, Unrun, AfterUnsub
  <2>3. OneSlot'
    BY <1>4 DEF UnsubClear, OneSlot, AfterUnsub
  <2>4. ActiveWhileOpen'
    BY <1>4 DEF UnsubClear, ActiveWhileOpen, AfterUnsub
  <2>5. SendersOwn'
    BY <1>4 DEF UnsubClear, SendersOwn, StopPCs, AfterUnsub
  <2>6. PubOrder'
    BY <1>4, ThreadFacts, ThreadKinds DEF UnsubClear, TypeOK, PubOrder, InOrder, Locked,
       Holding, HasTopic, HasTarget, StopPCs, Fresh, Unrun, Unlisted, AfterUnsub
  <2>7. AudienceServed'
    BY <1>4 DEF UnsubClear, AudienceServed, AfterUnsub
  <2> QED
    BY <2>1, <2>2, <2>3, <2>4, <2>5, <2>6, <2>7
<1> QED
  BY <1>1, <1>2, <1>3, <1>4 DEF Unsub

(* Sub, the call of the CancelFunc, and the consumer. *)
LEMMA SubSlots ==
  ASSUME SlotInv, IInv', NEW s \in Subs,
         \/ CallSub(s) \/ CallCancel(s) \/ SubLookup(s) \/ SubCreate(s) \/ SubInsert(s)
         \/ RunActivate(s) \/ RunLoop(s) \/ RunOut(s) \/ ConsumerRun(s) \/ ConsumerPost(s)
  PROVE  SlotInv'
<1> USE DEF SlotInv, IInv, Goto, chanVars
<1>1. CASE CallSub(s)
  <2>1. Locked'
    BY <1>1 DEF CallSub, Locked, Holding, StopPCs
  <2>2. Fresh'
    BY <1>1, ThreadFacts, ThreadKinds DEF CallSub, TypeOK, Fresh, Unlisted, Unrun
  <2>3. OneSlot'
    BY <1>1 DEF CallSub, OneSlot
  <2>4. ActiveWhileOpen'
    BY <1>1 DEF CallSub, ActiveWhileOpen
  <2>5. SendersOwn'
    BY <1>1, ThreadFacts, ThreadKinds DEF CallSub, TypeOK, SendersOwn, StopPCs
  <2>6. PubOrder'
    BY <1>1, ThreadFacts, ThreadKinds DEF CallSub, TypeOK, PubOrder, InOrder, Locked,
       Holding, HasTopic, HasTarget, StopPCs, Fresh, Unrun, Unlisted
  <2>7. AudienceServed'
    BY <1>1 DEF CallSub, AudienceServed
  <2> QED
    BY <2>1, <2>2, <2>3, <2>4, <2>5, <2>6, <2>7
<1>2. CASE CallCancel(s)
  <2>1. Locked'
    BY <1>2 DEF CallCancel, Locked, Holding, StopPCs
  <2>2. Fresh'
    BY <1>2 DEF CallCancel, Fresh, Unlisted, Unrun
  <2>3. OneSlot'
    BY <1>2 DEF CallCancel, OneSlot
  <2>4. ActiveWhileOpen'
    BY <1>2 DEF CallCancel, ActiveWhileOpen
  <2>5. SendersOwn'
    BY <1>2 DEF CallCancel, SendersOwn, StopPCs
  <2>6. PubOrder'
    BY <1>2 DEF CallCancel, PubOrder, InOrder
  <2>7. AudienceServed'
    BY <1>2 DEF CallCancel, AudienceServed
  <2> QED
    BY <2>1, <2>2, <2>3, <2>4, <2>5, <2>6, <2>7
<1>3. CASE SubLookup(s)
  <2>1. Locked'
    BY <1>3 DEF SubLookup, Locked, Holding, StopPCs
  <2>2. Fresh'
    BY <1>3 DEF SubLookup, Fresh, Unlisted, Unrun
  <2>3. OneSlot'
    BY <1>3 DEF SubLookup, OneSlot
  <2>4. ActiveWhileOpen'
    BY <1>3 DEF SubLookup, ActiveWhileOpen
  <2>5. SendersOwn'
    BY <1>3 DEF SubLookup, SendersOwn, StopPCs
  <2>6. PubOrder'
    BY <1>3 DEF SubLookup, PubOrder, InOrder
  <2>7. AudienceServed'
    BY <1>3 DEF SubLookup, AudienceServed
  <2> QED
    BY <2>1, <2>2, <2>3, <2>4, <2>5, <2>6, <2>7
<1>4. CASE SubCreate(s)
  <2>1. Locked'
    BY <1>4 DEF SubCreate, Locked, Holding, StopPCs
  <2>2. Fresh'
    BY <1>4 DEF SubCreate, Fresh, Unlisted, Unrun
  <2>3. OneSlot'
    BY <1>4 DEF SubCreate, OneSlot
  <2>4. ActiveWhileOpen'
    BY <1>4 DEF SubCreate, ActiveWhileOpen
  <2>5. SendersOwn'
    BY <1>4 DEF SubCreate, SendersOwn, StopPCs
  <2>6. PubOrder'
    BY <1>4 DEF SubCreate, PubOrder, InOrder
  <2>7. AudienceServed'
    BY <1>4 DEF SubCreate, AudienceServed
  <2> QED
    BY <2>1, <2>2, <2>3, <2>4, <2>5, <2>6, <2>7
<1>5. CASE SubInsert(s)
  <2>1. /\ UNCHANGED <<registry, lock, chanVars, topicOf, target, cursor, err, cancels, audience, leftBy>>
        /\ pc[Client(s)] = "sub_insert" /\ lock[topicOf[Client(s)]] = Nil
        /\ topicOf[Client(s)] \in Topics
    BY <1>5, ThreadFacts DEF SubInsert, HasTopic
  <2>2. CASE UNCHANGED <<slots, index>> /\ pc' = [pc EXCEPT ![Client(s)] = "refused"]
    <3>1. Locked'
      BY <2>1, <2>2 DEF Locked, Holding, StopPCs
    <3>2. Fresh'
      BY <2>1, <2>2 DEF Fresh, Unlisted, Unrun
    <3>3. OneSlot'
      BY <2>1, <2>2 DEF OneSlot
    <3>4. ActiveWhileOpen'
      BY <2>1, <2>2 DEF ActiveWhileOpen
    <3>5. SendersOwn'
      BY <2>1, <2>2 DEF SendersOwn, StopPCs
    <3>6. PubOrder'
      BY <2>1, <2>2 DEF PubOrder, InOrder
    <3>7. AudienceServed'
      BY <2>1, <2>2 DEF AudienceServed
    <3> QED
      BY <3>1, <3>2, <3>3, <3>4, <3>5, <3>6, <3>7
  <2>3. ASSUME NEW i \in Slots, slots[topicOf[Client(s)]][i] = Nil,
               slots' = [slots EXCEPT ![topicOf[Client(s)]][i] = s],
               index' = [index EXCEPT ![s] = i],
               pc' = [pc EXCEPT ![Client(s)] = "run_activate"]
        PROVE  SlotInv'
    <3>1. Locked'
      BY <2>1, <2>3 DEF Locked, Holding, StopPCs
    <3>2. Fresh'
      BY <2>1, <2>3, ThreadFacts DEF TypeOK, Fresh, Unlisted, Unrun
    <3>3. OneSlot'
      BY <2>1, <2>3, ThreadFacts, ThreadKinds DEF TypeOK, OneSlot, Fresh, Unlisted, HasTopic
    <3>4. ActiveWhileOpen'
      BY <2>1, <2>3 DEF ActiveWhileOpen
    <3>5. SendersOwn'
      BY <2>1, <2>3 DEF SendersOwn, StopPCs
    <3>6. PubOrder'
      BY <2>1, <2>3, ThreadFacts, ThreadKinds, ThreadSorts, NilFacts DEF TypeOK, PubOrder,
         InOrder, Locked, Holding, HasTopic, HasTarget, StopPCs, Fresh, Unrun, Unlisted
    <3>7. AudienceServed'
      BY <2>1, <2>3 DEF AudienceServed
    <3> QED
      BY <3>1, <3>2, <3>3, <3>4, <3>5, <3>6, <3>7
  <2> QED
    BY <1>5, <2>1, <2>2, <2>3 DEF SubInsert
<1>6. CASE RunActivate(s)
  <2>1. Locked'
    BY <1>6 DEF RunActivate, Locked, Holding, StopPCs
  <2>2. Fresh'
    BY <1>6, ThreadFacts DEF RunActivate, TypeOK, Fresh, Unlisted, Unrun
  <2>3. OneSlot'
    BY <1>6 DEF RunActivate, OneSlot
  <2>4. ActiveWhileOpen'
    BY <1>6, ThreadFacts, ThreadKinds DEF RunActivate, TypeOK, ActiveWhileOpen,
       StopperEndsLoop, SoleStopper, Stopping, LoopUnborn, LoopHasOutput, HasTarget,
       StopPCs, Fresh, Unrun, Unlisted
  <2>5. SendersOwn'
    BY <1>6 DEF RunActivate, SendersOwn, StopPCs
  <2>6. PubOrder'
    BY <1>6, ThreadFacts, ThreadKinds DEF RunActivate, TypeOK, PubOrder, InOrder, Locked,
       Holding, HasTopic, HasTarget, StopPCs, Fresh, Unrun, Unlisted
  <2>7. AudienceServed'
    BY <1>6, ThreadFacts, ThreadKinds DEF RunActivate, TypeOK, AudienceServed, PubOrder,
       InOrder, Fresh, Unrun, Unlisted
  <2> QED
    BY <2>1, <2>2, <2>3, <2>4, <2>5, <2>6, <2>7
<1>7. CASE RunLoop(s)
  <2>1. Locked'
    BY <1>7 DEF RunLoop, Locked, Holding, StopPCs
  <2>2. Fresh'
    BY <1>7 DEF RunLoop, Fresh, Unlisted, Unrun
  <2>3. OneSlot'
    BY <1>7 DEF RunLoop, OneSlot
  <2>4. ActiveWhileOpen'
    BY <1>7 DEF RunLoop, ActiveWhileOpen
  <2>5. SendersOwn'
    BY <1>7 DEF RunLoop, SendersOwn, StopPCs
  <2>6. PubOrder'
    BY <1>7 DEF RunLoop, PubOrder, InOrder
  <2>7. AudienceServed'
    BY <1>7 DEF RunLoop, AudienceServed
  <2> QED
    BY <2>1, <2>2, <2>3, <2>4, <2>5, <2>6, <2>7
<1>8. CASE RunOut(s)
  <2>1. Locked'
    BY <1>8, ThreadFacts DEF RunOut, TypeOK, Locked, Holding, StopPCs
  <2>2. Fresh'
    <3>1. /\ UNCHANGED <<slots, active, out, audience>>
          /\ pc[Client(s)] = "run_out" /\ pc'[Client(s)] = "subscribed"
          /\ \A t \in Thread \ {Client(s), Consumer(s)} : pc'[t] = pc[t]
      BY <1>8, ThreadFacts, ThreadKinds DEF RunOut, TypeOK
    <3>2. \A r \in Subs : r # s => pc'[Client(r)] = pc[Client(r)]
      BY <3>1, ThreadFacts, ThreadKinds
    <3>3. \A r \in Subs, p \in Pubs : pc'[Sender(r, p)] = pc[Sender(r, p)]
      BY <3>1, ThreadFacts, ThreadKinds
    <3> QED
      BY <3>1, <3>2, <3>3 DEF Fresh, Unlisted, Unrun
  <2>3. OneSlot'
    BY <1>8 DEF RunOut, OneSlot
  <2>4. ActiveWhileOpen'
    BY <1>8, ThreadFacts DEF RunOut, TypeOK, ActiveWhileOpen
  <2>5. SendersOwn'
    BY <1>8, ThreadFacts, ThreadKinds DEF RunOut, TypeOK, SendersOwn, StopPCs
  <2>6. PubOrder'
    BY <1>8, ThreadFacts, ThreadKinds DEF RunOut, TypeOK, PubOrder, InOrder, Locked,
       Holding, HasTopic, HasTarget, StopPCs, Fresh, Unrun, Unlisted
  <2>7. AudienceServed'
    BY <1>8, ThreadFacts DEF RunOut, TypeOK, AudienceServed
  <2> QED
    BY <2>1, <2>2, <2>3, <2>4, <2>5, <2>6, <2>7
<1>9. CASE ConsumerRun(s)
  <2>1. Locked'
    BY <1>9, ThreadFacts DEF ConsumerRun, TypeOK, Locked, Holding, StopPCs
  <2>2. Fresh'
    BY <1>9, ThreadFacts DEF ConsumerRun, TypeOK, Fresh, Unlisted, Unrun
  <2>3. OneSlot'
    BY <1>9 DEF ConsumerRun, OneSlot
  <2>4. ActiveWhileOpen'
    BY <1>9, ThreadFacts DEF ConsumerRun, TypeOK, ActiveWhileOpen
  <2>5. SendersOwn'
    BY <1>9, ThreadFacts DEF ConsumerRun, TypeOK, SendersOwn, StopPCs
  <2>6. PubOrder'
    BY <1>9, ThreadFacts, ThreadKinds DEF ConsumerRun, TypeOK, PubOrder, InOrder
  <2>7. AudienceServed'
    BY <1>9, ThreadFacts DEF ConsumerRun, TypeOK, AudienceServed
  <2> QED
    BY <2>1, <2>2, <2>3, <2>4, <2>5, <2>6, <2>7
<1>10. CASE ConsumerPost(s)
  <2>1. Locked'
    BY <1>10 DEF ConsumerPost, Locked, Holding, StopPCs
  <2>2. Fresh'
    BY <1>10 DEF ConsumerPost, Fresh, Unlisted, Unrun
  <2>3. OneSlot'
    BY <1>10 DEF ConsumerPost, OneSlot
  <2>4. ActiveWhileOpen'
    BY <1>10 DEF ConsumerPost, ActiveWhileOpen
  <2>5. SendersOwn'
    BY <1>10 DEF ConsumerPost, SendersOwn, StopPCs
  <2>6. PubOrder'
    BY <1>10 DEF ConsumerPost, PubOrder, InOrder
  <2>7. AudienceServed'
    BY <1>10 DEF ConsumerPost, AudienceServed
  <2> QED
    BY <2>1, <2>2, <2>3, <2>4, <2>5, <2>6, <2>7
<1> QED
  BY <1>1, <1>2, <1>3, <1>4, <1>5, <1>6, <1>7, <1>8, <1>9, <1>10 DEF Unsub

(* A sender. *)
LEMMA SendSlots ==
  ASSUME SlotInv, IInv', NEW s \in Subs, NEW p \in Pubs,
         SendEval(s, p) \/ Deliver(s, p) \/ SendPanic(s, p) \/ SendTimeout(s, p)
  PROVE  SlotInv'
<1> USE DEF SlotInv, IInv, Goto, chanVars
<1>1. CASE SendEval(s, p)
  <2>1. Locked'
    BY <1>1 DEF SendEval, Locked, Holding, StopPCs
  <2>2. Fresh'
    BY <1>1 DEF SendEval, Fresh, Unlisted, Unrun
  <2>3. OneSlot'
    BY <1>1 DEF SendEval, OneSlot
  <2>4. ActiveWhileOpen'
    BY <1>1 DEF SendEval, ActiveWhileOpen
  <2>5. SendersOwn'
    BY <1>1 DEF SendEval, SendersOwn, StopPCs
  <2>6. PubOrder'
    BY <1>1 DEF SendEval, PubOrder, InOrder
  <2>7. AudienceServed'
    BY <1>1 DEF SendEval, AudienceServed
  <2> QED
    BY <2>1, <2>2, <2>3, <2>4, <2>5, <2>6, <2>7
<1>2. CASE Deliver(s, p)
  <2>1. Locked'
    BY <1>2, ThreadFacts DEF Deliver, TypeOK, Locked, Holding, StopPCs
  <2>2. Fresh'
    BY <1>2, ThreadFacts DEF Deliver, TypeOK, Fresh, Unlisted, Unrun
  <2>3. OneSlot'
    BY <1>2 DEF Deliver, OneSlot
  <2>4. ActiveWhileOpen'
    BY <1>2, ThreadFacts DEF Deliver, TypeOK, ActiveWhileOpen
  <2>5. SendersOwn'
    BY <1>2, ThreadFacts DEF Deliver, TypeOK, SendersOwn, StopPCs
  <2>6. PubOrder'
    <3>1. /\ UNCHANGED <<slots, active, audience, cursor, target, topicOf>>
          /\ pc[Sender(s, p)] # "idle" /\ pc'[Sender(s, p)] # "idle"
          /\ \A t \in Thread \ {Sender(s, p), Consumer(s)} : pc'[t] = pc[t]
      BY <1>2, ThreadFacts, ThreadKinds DEF Deliver, TypeOK
    <3>2. \A q \in Pubs : pc'[Publisher(q)] = pc[Publisher(q)]
      BY <3>1, ThreadFacts, ThreadKinds
    <3>3. \A c \in Subs, q \in Pubs : pc'[Sender(c, q)] = "idle" <=> pc[Sender(c, q)] = "idle"
      BY <3>1, ThreadFacts, ThreadKinds
    <3>4. ASSUME NEW q \in Pubs PROVE InOrder(q)'
      <4>1. InOrder(q)
        BY DEF PubOrder
      <4> HIDE DEF SlotInv, IInv
      <4> QED
        <5> DEFINE th == Publisher(q)
        <5>1. /\ pc'[th] = pc[th] /\ cursor'[th] = cursor[th] /\ audience'[q] = audience[q]
              /\ target'[th] = target[th] /\ topicOf'[th] = topicOf[th] /\ slots' = slots /\ active' = active
          BY <3>1, <3>2
        <5>2. audience[q] \subseteq Subs
          BY DEF SlotInv, IInv, TypeOK
        <5>3. \A c \in Subs : (pc'[Sender(c, q)] = "idle") = (pc[Sender(c, q)] = "idle")
          BY <3>3
        <5> HIDE DEF th
        <5>4. pc[th] \in {"pub_scan", "pub_send"} =>
                \A c \in audience[q] : active[c] /\ pc'[Sender(c, q)] = "idle" =>
                   \E j \in Slots : j >= cursor[th] /\ slots[topicOf[th]][j] = c
          BY <4>1, <5>2, <5>3 DEF InOrder, th
        <5>5. pc[th] \in {"pub_scan", "pub_send"} =>
                \A c \in Subs : pc'[Sender(c, q)] # "idle" =>
                   \E j \in Slots : j < cursor[th] /\ slots[topicOf[th]][j] = c
          BY <4>1, <5>3 DEF InOrder, th
        <5>6. /\ pc[th] \in {"idle", "pub_lock"} =>
                    /\ cursor[th] = 1 /\ audience[q] = {}
                    /\ \A c \in Subs : pc'[Sender(c, q)] = "idle"
              /\ pc[th] = "pub_send" => target[th] = slots[topicOf[th]][cursor[th]]
          BY <4>1, <5>3 DEF InOrder, th
        <5> QED
          BY <5>1, <5>4, <5>5, <5>6 DEF InOrder, th
    <3> QED
      BY <3>4 DEF PubOrder
  <2>7. AudienceServed'
    BY <1>2, ThreadFacts, ThreadKinds DEF Deliver, TypeOK, AudienceServed
  <2> QED
    BY <2>1, <2>2, <2>3, <2>4, <2>5, <2>6, <2>7
<1>3. CASE SendPanic(s, p)
  <2>1. Locked'
    BY <1>3, ThreadFacts DEF SendPanic, TypeOK, Locked, Holding, StopPCs
  <2>2. Fresh'
    BY <1>3 DEF SendPanic, Fresh, Unlisted, Unrun
  <2>3. OneSlot'
    BY <1>3 DEF SendPanic, OneSlot
  <2>4. ActiveWhileOpen'
    BY <1>3 DEF SendPanic, ActiveWhileOpen
  <2>5. SendersOwn'
    BY <1>3, ThreadFacts, ThreadKinds DEF SendPanic, TypeOK, SendersOwn, StopPCs
  <2>6. PubOrder'
    BY <1>3 DEF SendPanic, PubOrder, InOrder
  <2>7. AudienceServed'
    BY <1>3 DEF SendPanic, AudienceServed
  <2> QED
    BY <2>1, <2>2, <2>3, <2>4, <2>5, <2>6, <2>7
<1>4. CASE SendTimeout(s, p)
  <2>1. Locked'
    BY <1>4, ThreadFacts DEF SendTimeout, TypeOK, Locked, Holding, StopPCs
  <2>2. Fresh'
    BY <1>4 DEF SendTimeout, Fresh, Unlisted, Unrun
  <2>3. OneSlot'
    BY <1>4 DEF SendTimeout, OneSlot
  <2>4. ActiveWhileOpen'
    BY <1>4 DEF SendTimeout, ActiveWhileOpen
  <2>5. SendersOwn'
    BY <1>4, ThreadFacts, ThreadKinds DEF SendTimeout, TypeOK, SendersOwn, StopPCs
  <2>6. PubOrder'
    BY <1>4 DEF SendTimeout, PubOrder, InOrder
  <2>7. AudienceServed'
    BY <1>4 DEF SendTimeout, AudienceServed
  <2> QED
    BY <2>1, <2>2, <2>3, <2>4, <2>5, <2>6, <2>7
<1> QED
  BY <1>1, <1>2, <1>3, <1>4 DEF Unsub

(* Pub. *)
LEMMA PubSlots ==
  ASSUME SlotInv, IInv', NEW p \in Pubs, CallPub(p) \/ PubStep(p)
  PROVE  SlotInv'
<1> USE DEF SlotInv, IInv, Goto, chanVars
<1>1. CASE CallPub(p)
  <2>1. Locked'
    BY <1>1 DEF CallPub, Locked, Holding, StopPCs
  <2>2. Fresh'
    BY <1>1, ThreadFacts, ThreadKinds DEF CallPub, TypeOK, Fresh, Unlisted, Unrun
  <2>3. OneSlot'
    BY <1>1 DEF CallPub, OneSlot
  <2>4. ActiveWhileOpen'
    BY <1>1 DEF CallPub, ActiveWhileOpen
  <2>5. SendersOwn'
    BY <1>1, ThreadFacts, ThreadKinds DEF CallPub, TypeOK, SendersOwn, StopPCs
  <2>6. PubOrder'
    BY <1>1, ThreadFacts, ThreadKinds DEF CallPub, TypeOK, PubOrder, InOrder, Locked,
       Holding, HasTopic, HasTarget, StopPCs, Fresh, Unrun, Unlisted
  <2>7. AudienceServed'
    BY <1>1, ThreadFacts, ThreadKinds DEF CallPub, TypeOK, AudienceServed, PubOrder,
       InOrder, Fresh, Unrun, Unlisted
  <2> QED
    BY <2>1, <2>2, <2>3, <2>4, <2>5, <2>6, <2>7
<1>2. CASE PubLock(p)
  <2>1. Locked'
    BY <1>2, ThreadFacts, ThreadKinds, ThreadSorts, NilFacts DEF PubLock, TypeOK, Locked,
       Holding, StopPCs
  <2>2. Fresh'
    BY <1>2 DEF PubLock, Fresh, Unlisted, Unrun
  <2>3. OneSlot'
    BY <1>2 DEF PubLock, OneSlot
  <2>4. ActiveWhileOpen'
    BY <1>2 DEF PubLock, ActiveWhileOpen
  <2>5. SendersOwn'
    BY <1>2 DEF PubLock, SendersOwn, StopPCs
  <2>6. PubOrder'
    <3>1. ASSUME NEW q \in Pubs \ {p} PROVE InOrder(q)'
      <4>1. /\ pc'[Publisher(q)] = pc[Publisher(q)] /\ audience'[q] = audience[q]
            /\ \A c \in Subs : pc'[Sender(c, q)] = pc[Sender(c, q)]
        BY <1>2, ThreadFacts, ThreadKinds DEF PubLock, TypeOK
      <4>2. UNCHANGED <<slots, active, topicOf, target, cursor>> /\ audience[q] \subseteq Subs
        BY <1>2 DEF PubLock, TypeOK
      <4>3. InOrder(q)
        BY DEF PubOrder
      <4> QED
        BY <4>1, <4>2, <4>3 DEF InOrder
    <3>2. \A j \in Slots : j >= 1
      BY ConstantsAssumption DEF Slots
    <3>3. InOrder(p)'
      BY <1>2, <3>2, ThreadFacts, ThreadKinds DEF PubLock, TypeOK, PubOrder, InOrder
    <3> QED
      BY <3>1, <3>3 DEF PubOrder
  <2>7. AudienceServed'
    BY <1>2 DEF PubLock, AudienceServed
  <2> QED
    BY <2>1, <2>2, <2>3, <2>4, <2>5, <2>6, <2>7
<1>3. CASE PubScan(p)
  <2> DEFINE th == Publisher(p)
             t == topicOf[th]
             i == cursor[th]
  <2>1. /\ UNCHANGED <<slots, registry, chanVars, topicOf, index, err, cancels, audience, leftBy>>
        /\ th \in Thread /\ pc[th] = "pub_scan" /\ t \in Topics /\ i \in 1..(MaxSubs + 1)
        /\ th \notin Senders /\ t = topicOf[th] /\ i = cursor[th] /\ th = Publisher(p)
        /\ \A s \in Subs : th # Client(s) /\ th # Consumer(s)
        /\ \A q \in Pubs : th = Publisher(q) => q = p
        /\ \A q \in Pubs, s \in Subs : th # Sender(s, q)
    BY <1>3, ThreadFacts, ThreadKinds, ThreadSorts DEF PubScan, TypeOK, HasTopic
  <2> HIDE DEF th, t, i
  <2>2. CASE UNCHANGED <<cursor, target>> /\ i > MaxSubs
             /\ lock' = [lock EXCEPT ![t] = Nil] /\ pc' = [pc EXCEPT ![th] = "done"]
    <3>1. Locked'
      BY <2>1, <2>2, ThreadFacts DEF TypeOK, Locked, Holding, StopPCs, Slots
    <3>2. Fresh'
      BY <2>1, <2>2 DEF Fresh, Unlisted, Unrun, Slots
    <3>3. OneSlot'
      BY <2>1, <2>2 DEF OneSlot, Slots
    <3>4. ActiveWhileOpen'
      BY <2>1, <2>2 DEF ActiveWhileOpen, Slots
    <3>5. SendersOwn'
      BY <2>1, <2>2 DEF SendersOwn, StopPCs, Slots
    <3>6. PubOrder'
      BY <2>1, <2>2 DEF PubOrder, InOrder, Slots
    <3>7. AudienceServed'
      <4>1. ASSUME NEW q \in Pubs \ {p}, pc'[Publisher(q)] = "done", NEW c \in audience'[q], active'[c]
            PROVE  pc'[Sender(c, q)] # "idle"
        BY <2>1, <2>2, <4>1, ThreadFacts DEF TypeOK, AudienceServed
      <4>2. ASSUME NEW c \in audience[p], active[c] PROVE pc[Sender(c, p)] # "idle"
        <5>1. \A j \in Slots : ~(j >= i)
          BY <2>1, <2>2, ConstantsAssumption DEF Slots
        <5> QED
          BY <2>1, <4>2, <5>1 DEF PubOrder, InOrder
      <4> QED
        BY <2>1, <2>2, <4>1, <4>2, ThreadFacts DEF TypeOK, AudienceServed
    <3> QED
      BY <3>1, <3>2, <3>3, <3>4, <3>5, <3>6, <3>7
  <2>3. CASE UNCHANGED <<lock, pc, target>> /\ i \in Slots
             /\ (slots[t][i] = Nil \/ ~active[slots[t][i]])
             /\ cursor' = [cursor EXCEPT ![th] = i + 1]
    <3>1. Locked'
      BY <2>1, <2>3 DEF Locked, Holding, StopPCs, Slots
    <3>2. Fresh'
      BY <2>1, <2>3 DEF Fresh, Unlisted, Unrun, Slots
    <3>3. OneSlot'
      BY <2>1, <2>3 DEF OneSlot, Slots
    <3>4. ActiveWhileOpen'
      BY <2>1, <2>3 DEF ActiveWhileOpen, Slots
    <3>5. SendersOwn'
      BY <2>1, <2>3 DEF SendersOwn, StopPCs, Slots
    <3>6. PubOrder'
      <4>1. ASSUME NEW q \in Pubs \ {p} PROVE InOrder(q)'
        BY <2>1, <2>3, <4>1, ThreadFacts, ThreadKinds DEF TypeOK, PubOrder, InOrder
      <4>2. i \in Nat /\ cursor'[th] = i + 1 /\ \A j \in Slots : j \in Nat
        BY <2>1, <2>3, ConstantsAssumption DEF TypeOK, Slots
      <4>3. ASSUME NEW c \in audience[p], active[c], pc[Sender(c, p)] = "idle"
            PROVE  \E j \in Slots : j >= i + 1 /\ slots[t][j] = c
        <5>1. PICK j \in Slots : j >= i /\ slots[t][j] = c
          BY <2>1, <4>3 DEF PubOrder, InOrder
        <5>2. c \in Subs
          BY <4>3 DEF TypeOK
        <5>3. j # i
          BY <5>1, <5>2, <2>3, <4>3, NilFacts
        <5> QED
          BY <5>1, <5>3, <4>2
      <4>4. ASSUME NEW c \in Subs, pc[Sender(c, p)] # "idle"
            PROVE  \E j \in Slots : j < i + 1 /\ slots[t][j] = c
        <5>1. PICK j \in Slots : j < i /\ slots[t][j] = c
          BY <2>1, <4>4 DEF PubOrder, InOrder
        <5> QED
          BY <5>1, <4>2
      <4>5. InOrder(p)'
        BY <2>1, <2>3, <4>2, <4>3, <4>4 DEF InOrder
      <4> QED
        BY <4>1, <4>5 DEF PubOrder
    <3>7. AudienceServed'
      BY <2>1, <2>3 DEF AudienceServed, Slots
    <3> QED
      BY <3>1, <3>2, <3>3, <3>4, <3>5, <3>6, <3>7
  <2>4. CASE UNCHANGED <<lock, cursor>> /\ i \in Slots /\ slots[t][i] \in Subs
             /\ active[slots[t][i]] /\ target' = [target EXCEPT ![th] = slots[t][i]]
             /\ pc' = [pc EXCEPT ![th] = "pub_send"]
    <3>1. Locked'
      BY <2>1, <2>4 DEF Locked, Holding, StopPCs
    <3>2. Fresh'
      BY <2>1, <2>4 DEF Fresh, Unlisted, Unrun
    <3>3. OneSlot'
      BY <2>1, <2>4 DEF OneSlot
    <3>4. ActiveWhileOpen'
      BY <2>1, <2>4 DEF ActiveWhileOpen
    <3>5. SendersOwn'
      BY <2>1, <2>4 DEF SendersOwn, StopPCs
    <3>6. PubOrder'
      BY <2>1, <2>4, ThreadFacts, ThreadKinds DEF TypeOK, PubOrder, InOrder, Locked,
         Holding, HasTopic, HasTarget, StopPCs, Fresh, Unrun, Unlisted
    <3>7. AudienceServed'
      BY <2>1, <2>4 DEF AudienceServed
    <3> QED
      BY <3>1, <3>2, <3>3, <3>4, <3>5, <3>6, <3>7
  <2> QED
    BY <1>3, <2>1, <2>2, <2>3, <2>4, ConstantsAssumption DEF PubScan, TypeOK, Slots, th, t,
       i
<1>4. CASE PubSend(p)
  <2> DEFINE th == Publisher(p)
             t == topicOf[th]
             c == target[th]
             i == cursor[th]
  <2>1. /\ UNCHANGED <<registry, slots, lock, chanVars, topicOf, target, index, err, cancels, audience, leftBy>>
        /\ pc[th] = "pub_send" /\ loop[c] = "running" /\ c \in Subs /\ i \in Slots
        /\ slots[t][i] = c
        /\ pc' = [pc EXCEPT ![th] = "pub_scan", ![Sender(c, p)] = "send_eval"]
        /\ cursor' = [cursor EXCEPT ![th] = i + 1]
    BY <1>4, ThreadFacts DEF PubSend, HasTarget, PubOrder, InOrder
  <2>2. /\ th \in Thread /\ t = topicOf[th] /\ i = cursor[th] /\ th = Publisher(p) /\ c = target[th]
        /\ th \notin Senders /\ Sender(c, p) \in Thread /\ Sender(c, p) \in Senders
        /\ \A s \in Subs : Client(s) \notin {th, Sender(c, p)} /\ Consumer(s) \notin {th, Sender(c, p)}
        /\ \A q \in Pubs \ {p} : Publisher(q) \notin {th, Sender(c, p)}
        /\ \A q \in Pubs, s \in Subs : Sender(s, q) # th /\ (Sender(s, q) = Sender(c, p) => s = c /\ q = p)
    BY <2>1, ThreadFacts, ThreadKinds, ThreadSorts
  <2>3. i \in Nat /\ cursor'[th] = i + 1 /\ \A j \in Slots : j \in Nat
    BY <2>1, <2>2, ConstantsAssumption DEF TypeOK, Slots
  <2>4. active[c] /\ out[c] = "open" /\ pc[Client(c)] \notin Unrun
    BY <2>1 DEF ActiveWhileOpen, LoopUnborn, Unrun, Unlisted
  <2> HIDE DEF th, t, i, c
  <2>5. Locked' /\ OneSlot' /\ ActiveWhileOpen'
    BY <2>1, <2>2, ThreadFacts DEF TypeOK, Locked, Holding, StopPCs, OneSlot,
       ActiveWhileOpen
  <2>6. Fresh' /\ SendersOwn'
    BY <2>1, <2>2, <2>4, ThreadFacts DEF TypeOK, Fresh, SendersOwn, StopPCs, Unrun, Unlisted
  <2>7. AudienceServed'
    BY <2>1, <2>2, ThreadFacts DEF TypeOK, AudienceServed
  <2>8. ASSUME NEW q \in Pubs \ {p} PROVE InOrder(q)'
    BY <2>1, <2>2, <2>8, ThreadFacts DEF TypeOK, PubOrder, InOrder
  <2>9. ASSUME NEW d \in audience[p], active[d], pc'[Sender(d, p)] = "idle"
        PROVE  \E j \in Slots : j >= i + 1 /\ slots[t][j] = d
    <3>1. d \in Subs /\ d # c /\ pc[Sender(d, p)] = "idle"
      BY <2>1, <2>2, <2>9, ThreadFacts DEF TypeOK
    <3>2. PICK j \in Slots : j >= i /\ slots[t][j] = d
      BY <2>1, <2>2, <2>9, <3>1 DEF PubOrder, InOrder
    <3>3. j # i
      BY <3>1, <3>2, <2>1
    <3> QED
      BY <3>2, <3>3, <2>3
  <2>10. ASSUME NEW d \in Subs, pc'[Sender(d, p)] # "idle"
         PROVE  \E j \in Slots : j < i + 1 /\ slots[t][j] = d
    <3>1. CASE d = c
      BY <3>1, <2>1, <2>3
    <3>2. CASE d # c
      <4>1. pc[Sender(d, p)] # "idle"
        BY <2>1, <2>2, <2>10, <3>2, ThreadFacts DEF TypeOK
      <4>2. PICK j \in Slots : j < i /\ slots[t][j] = d
        BY <2>1, <2>2, <4>1 DEF PubOrder, InOrder
      <4> QED
        BY <4>2, <2>3
    <3> QED
      BY <3>1, <3>2
  <2>11. InOrder(p)'
    <3>1. /\ pc'[th] = "pub_scan" /\ topicOf'[th] = t /\ cursor'[th] = i + 1
          /\ UNCHANGED <<slots, active, audience>> /\ audience[p] \subseteq Subs
      BY <2>1, <2>2, <2>3 DEF TypeOK
    <3>2. \A d \in Subs : pc'[Sender(d, p)] # "idle" => \E j \in Slots : j < i + 1 /\ slots[t][j] = d
      BY <2>10
    <3>3. \A d \in audience[p] : active[d] /\ pc'[Sender(d, p)] = "idle" => \E j \in Slots : j >= i + 1 /\ slots[t][j] = d
      BY <2>9
    <3> HIDE DEF SlotInv, IInv
    <3> QED
      BY <2>2, <3>1, <3>2, <3>3 DEF InOrder
  <2>12. PubOrder'
    BY <2>8, <2>11 DEF PubOrder
  <2> QED
    BY <2>5, <2>6, <2>7, <2>12
<1> QED
  BY <1>1, <1>2, <1>3, <1>4 DEF PubStep

(* Close. *)
LEMMA CloseSlots ==
  ASSUME SlotInv, IInv', NEW k \in Closers, CallClose(k) \/ CloseLock(k) \/ CloseScan(k) \/ CloseDelete(k)
  PROVE  SlotInv'
<1> USE DEF SlotInv, IInv, Goto, chanVars
<1>1. CASE CallClose(k)
  <2>1. Locked'
    BY <1>1 DEF CallClose, Locked, Holding, StopPCs
  <2>2. Fresh'
    BY <1>1, ThreadFacts, ThreadKinds DEF CallClose, TypeOK, Fresh, Unlisted, Unrun
  <2>3. OneSlot'
    BY <1>1 DEF CallClose, OneSlot
  <2>4. ActiveWhileOpen'
    BY <1>1 DEF CallClose, ActiveWhileOpen
  <2>5. SendersOwn'
    BY <1>1, ThreadFacts, ThreadKinds DEF CallClose, TypeOK, SendersOwn, StopPCs
  <2>6. PubOrder'
    BY <1>1, ThreadFacts, ThreadKinds DEF CallClose, TypeOK, PubOrder, InOrder, Locked,
       Holding, HasTopic, HasTarget, StopPCs, Fresh, Unrun, Unlisted
  <2>7. AudienceServed'
    BY <1>1, ThreadFacts, ThreadKinds DEF CallClose, TypeOK, AudienceServed
  <2> QED
    BY <2>1, <2>2, <2>3, <2>4, <2>5, <2>6, <2>7
<1>2. CASE CloseLock(k)
  <2>1. Locked'
    BY <1>2, ThreadFacts, ThreadKinds, ThreadSorts, NilFacts DEF CloseLock, TypeOK, Locked,
       Holding, StopPCs
  <2>2. Fresh'
    BY <1>2 DEF CloseLock, Fresh, Unlisted, Unrun
  <2>3. OneSlot'
    BY <1>2 DEF CloseLock, OneSlot
  <2>4. ActiveWhileOpen'
    BY <1>2 DEF CloseLock, ActiveWhileOpen
  <2>5. SendersOwn'
    BY <1>2 DEF CloseLock, SendersOwn, StopPCs
  <2>6. PubOrder'
    BY <1>2 DEF CloseLock, PubOrder, InOrder
  <2>7. AudienceServed'
    BY <1>2 DEF CloseLock, AudienceServed
  <2> QED
    BY <2>1, <2>2, <2>3, <2>4, <2>5, <2>6, <2>7
<1>3. CASE CloseScan(k)
  <2> DEFINE th == Closer(k)
             c == slots[topicOf[th]][cursor[th]]
             Kind == /\ th \in Thread /\ th \in ClosersT /\ th \notin Senders
                     /\ \A s \in Subs : th # Client(s) /\ th # Consumer(s)
                     /\ \A p \in Pubs : th # Publisher(p) /\ \A s \in Subs : th # Sender(s, p)
  <2>0. Kind
    <3> USE ThreadFacts, ThreadKinds, ThreadSorts
    <3>1. th \in Thread /\ th \in ClosersT /\ th \notin Senders
      OBVIOUS
    <3>2. \A s \in Subs : th # Client(s) /\ th # Consumer(s)
      OBVIOUS
    <3>3. \A p \in Pubs : th # Publisher(p) /\ \A s \in Subs : th # Sender(s, p)
      OBVIOUS
    <3> QED
      BY <3>1, <3>2, <3>3
  <2> HIDE DEF Kind
  <2>1. /\ UNCHANGED <<slots, registry, chanVars, topicOf, index, err, cancels, audience, leftBy>>
        /\ pc[th] = "close_scan" /\ topicOf[th] \in Topics /\ Kind
    BY <1>3, <2>0, ThreadFacts DEF CloseScan, TypeOK, HasTopic
  <2> HIDE DEF th, c
  <2>2. CASE UNCHANGED <<cursor, target>>
             /\ lock' = [lock EXCEPT ![topicOf[th]] = Nil]
             /\ pc' = [pc EXCEPT ![th] = "close_delete"]
    <3>1. Locked'
      BY <2>1, <2>2, ThreadFacts DEF TypeOK, Locked, Holding, StopPCs, Kind
    <3>2. Fresh'
      BY <2>1, <2>2 DEF Fresh, Unlisted, Unrun, Kind
    <3>3. OneSlot'
      BY <2>1, <2>2 DEF OneSlot, Kind
    <3>4. ActiveWhileOpen'
      BY <2>1, <2>2 DEF ActiveWhileOpen, Kind
    <3>5. SendersOwn'
      BY <2>1, <2>2 DEF SendersOwn, StopPCs, Kind
    <3>6. PubOrder'
      BY <2>1, <2>2 DEF PubOrder, InOrder, Kind
    <3>7. AudienceServed'
      BY <2>1, <2>2 DEF AudienceServed, Kind
    <3> QED
      BY <3>1, <3>2, <3>3, <3>4, <3>5, <3>6, <3>7
  <2>3. CASE UNCHANGED <<lock, pc, target>> /\ cursor' = [cursor EXCEPT ![th] = @ + 1]
    <3>1. Locked'
      BY <2>1, <2>3 DEF Locked, Holding, StopPCs, Kind
    <3>2. Fresh'
      BY <2>1, <2>3 DEF Fresh, Unlisted, Unrun, Kind
    <3>3. OneSlot'
      BY <2>1, <2>3 DEF OneSlot, Kind
    <3>4. ActiveWhileOpen'
      BY <2>1, <2>3 DEF ActiveWhileOpen, Kind
    <3>5. SendersOwn'
      BY <2>1, <2>3 DEF SendersOwn, StopPCs, Kind
    <3>6. PubOrder'
      BY <2>1, <2>3 DEF PubOrder, InOrder, Kind
    <3>7. AudienceServed'
      BY <2>1, <2>3 DEF AudienceServed, Kind
    <3> QED
      BY <3>1, <3>2, <3>3, <3>4, <3>5, <3>6, <3>7
  <2>4. CASE UNCHANGED lock /\ cursor' = [cursor EXCEPT ![th] = @ + 1]
             /\ target' = [target EXCEPT ![th] = c] /\ pc' = [pc EXCEPT ![th] = "stop_check"]
    <3>1. Locked'
      BY <2>1, <2>4 DEF Locked, Holding, StopPCs, Kind
    <3>2. Fresh'
      BY <2>1, <2>4 DEF Fresh, Unlisted, Unrun, Kind
    <3>3. OneSlot'
      BY <2>1, <2>4 DEF OneSlot, Kind
    <3>4. ActiveWhileOpen'
      BY <2>1, <2>4 DEF ActiveWhileOpen, Kind
    <3>5. SendersOwn'
      BY <2>1, <2>4 DEF SendersOwn, StopPCs, Kind
    <3>6. PubOrder'
      BY <2>1, <2>4 DEF PubOrder, InOrder, Kind
    <3>7. AudienceServed'
      BY <2>1, <2>4 DEF AudienceServed, Kind
    <3> QED
      BY <3>1, <3>2, <3>3, <3>4, <3>5, <3>6, <3>7
  <2> QED
    BY <1>3, <2>1, <2>2, <2>3, <2>4 DEF CloseScan, th, c
<1>4. CASE CloseDelete(k)
  <2>1. Locked'
    BY <1>4 DEF CloseDelete, Locked, Holding, StopPCs
  <2>2. Fresh'
    BY <1>4 DEF CloseDelete, Fresh, Unlisted, Unrun
  <2>3. OneSlot'
    BY <1>4 DEF CloseDelete, OneSlot
  <2>4. ActiveWhileOpen'
    BY <1>4 DEF CloseDelete, ActiveWhileOpen
  <2>5. SendersOwn'
    BY <1>4 DEF CloseDelete, SendersOwn, StopPCs
  <2>6. PubOrder'
    BY <1>4 DEF CloseDelete, PubOrder, InOrder
  <2>7. AudienceServed'
    BY <1>4, ThreadFacts, ThreadKinds DEF CloseDelete, TypeOK, AudienceServed
  <2> QED
    BY <2>1, <2>2, <2>3, <2>4, <2>5, <2>6, <2>7
<1> QED
  BY <1>1, <1>2, <1>3, <1>4 DEF CloseStep

-----------------------------------------------------------------------------
(* PubSub implements Broadcast: every step of a goroutine is one of its    *)
(* steps, or none.                                                         *)

SamePhase(s) == PhaseOf(s)' = PhaseOf(s)
SameMail(s, p) == MailOf(s, p)' = MailOf(s, p)

LEMMA NoBroadcast ==
  ASSUME \A s \in Subs : SamePhase(s), \A s \in Subs, p \in Pubs : SameMail(s, p)
  PROVE  UNCHANGED B!bvars
BY DEF B!bvars, SamePhase, SameMail

LEMMA PhaseSteps ==
  ASSUME NEW s \in Subs, \A r \in Subs \ {s} : SamePhase(r),
         \A r \in Subs, p \in Pubs : SameMail(r, p)
  PROVE  /\ PhaseOf(s) = "none" /\ PhaseOf(s)' = "open" => B!Subscribe(s)
         /\ PhaseOf(s) = "open" /\ PhaseOf(s)' = "closing" => B!Deactivate(s)
BY DEF SamePhase, SameMail, B!Subscribe, B!Deactivate

LEMMA MailSteps ==
  ASSUME NEW s \in Subs, NEW p \in Pubs, \A r \in Subs : SamePhase(r),
         \A r \in Subs, q \in Pubs : r # s \/ q # p => SameMail(r, q)
  PROVE  /\ PhaseOf(s) = "open" /\ MailOf(s, p) = "unsent" /\ MailOf(s, p)' = "held" => B!Accept(s, p)
         /\ PhaseOf(s) \in {"open", "closing"} /\ MailOf(s, p) = "held" /\ MailOf(s, p)' = "delivered"
              => B!Give(s, p)
         /\ PhaseOf(s) \in {"closing", "ended"} /\ MailOf(s, p) = "held" /\ MailOf(s, p)' = "lost"
              => B!Lose(s, p)
BY DEF SamePhase, SameMail, B!Accept, B!Give, B!Lose

LEMMA EndSteps ==
  ASSUME NEW s \in Subs, \A r \in Subs \ {s} : SamePhase(r),
         PhaseOf(s) = "closing", PhaseOf(s)' = "ended",
         NEW gone \in SUBSET Pubs,
         \A p \in gone : MailOf(s, p) = "held" /\ MailOf(s, p)' = "lost",
         \A r \in Subs, p \in Pubs : r # s \/ p \notin gone => SameMail(r, p)
  PROVE  B!End(s)
<1> DEFINE mail == [r \in Subs |-> [p \in Pubs |-> MailOf(r, p)]]
<1>1. gone \in SUBSET {p \in Pubs : mail[s][p] = "held"}
  OBVIOUS
<1>2. mail' = [mail EXCEPT ![s] = [p \in Pubs |-> IF p \in gone THEN "lost" ELSE mail[s][p]]]
  <2>1. \A p \in Pubs : MailOf(s, p)' = IF p \in gone THEN "lost" ELSE MailOf(s, p)
    BY DEF SameMail
  <2>2. \A r \in Subs \ {s}, p \in Pubs : MailOf(r, p)' = MailOf(r, p)
    BY DEF SameMail
  <2> QED
    BY <2>1, <2>2
<1>3. [r \in Subs |-> PhaseOf(r)]' = [[r \in Subs |-> PhaseOf(r)] EXCEPT ![s] = "ended"]
  BY DEF SamePhase
<1> QED
  BY <1>1, <1>2, <1>3 DEF B!End

(* A step of Broadcast, or none. *)
Abstract == B!BNext \/ UNCHANGED B!bvars

LEMMA QuietStep ==
  ASSUME UNCHANGED <<active, out>>, \A s \in Subs, p \in Pubs : pc'[Sender(s, p)] = pc[Sender(s, p)]
  PROVE  Abstract
<1>1. \A s \in Subs : SamePhase(s)
  BY DEF SamePhase, PhaseOf
<1>2. \A s \in Subs, p \in Pubs : SameMail(s, p)
  BY DEF SameMail, MailOf
<1> QED
  BY <1>1, <1>2, NoBroadcast DEF Abstract

(* The phases of a channel, as the invariant has them. *)
LEMMA PhaseFacts ==
  ASSUME TypeOK, ActiveWhileOpen, NEW s \in Subs
  PROVE  /\ out[s] = "unmade" => PhaseOf(s) = "none"
         /\ active[s] => PhaseOf(s) = "open"
         /\ ~active[s] /\ out[s] = "open" => PhaseOf(s) = "closing"
         /\ out[s] = "closed" => PhaseOf(s) = "ended"
         /\ ~active[s] /\ out[s] # "unmade" => PhaseOf(s) \in {"closing", "ended"}
BY DEF TypeOK, ActiveWhileOpen, PhaseOf

(* Whoever runs channel.stop. *)
LEMMA StopMaps ==
  ASSUME SlotInv, SlotInv', NEW th \in Thread, Stop(th), th \notin Publishers,
         \/ th \in Clients \cup Consumers \cup ClosersT
         \/ \E s \in Subs, p \in Pubs : th = Sender(s, p)
  PROVE  Abstract
<1> USE DEF SlotInv, IInv, Goto, chanVars
<1>0. PICK c \in Subs : c = target[th] /\ pc[th] \in StopPCs
  BY DEF Stop, StopCheck, StopSend, StopDeactivate, StopClose, StopPCs, HasTarget
<1>1. \A s \in Subs, p \in Pubs : th # Sender(s, p) => pc'[Sender(s, p)] = pc[Sender(s, p)]
  BY ThreadFacts DEF Stop, StopCheck, StopSend, StopDeactivate, StopClose, TypeOK
<1>2. CASE (StopCheck(th) /\ active[c]) \/ StopSend(th)
  <2>1. UNCHANGED <<active, out>>
    BY <1>2 DEF StopCheck, StopSend
  <2>2. \A s \in Subs : SamePhase(s)
    BY <2>1 DEF SamePhase, PhaseOf
  <2>3. ASSUME NEW s \in Subs, NEW p \in Pubs PROVE SameMail(s, p)
    <3>1. CASE th = Sender(s, p)
      BY <3>1, <1>0, <1>2, ThreadFacts DEF StopCheck, StopSend, TypeOK, SameMail, MailOf
    <3> QED
      BY <1>1, <3>1 DEF SameMail, MailOf
  <2> QED
    BY <2>2, <2>3, NoBroadcast DEF Abstract
<1>3. CASE StopCheck(th) /\ ~active[c]
  <2>1. UNCHANGED <<active, out>> /\ pc[th] = "stop_check" /\ pc'[th] = AfterStop(th)
    BY <1>0, <1>3 DEF StopCheck, TypeOK
  <2>2. \A s \in Subs : SamePhase(s)
    BY <2>1 DEF SamePhase, PhaseOf
  <2>3. ASSUME NEW s \in Subs, NEW p \in Pubs, th = Sender(s, p) PROVE B!Lose(s, p)
    <3>1. c = s /\ out[s] # "unmade"
      BY <1>0, <2>1, <2>3 DEF SendersOwn
    <3>2. PhaseOf(s) \in {"closing", "ended"}
      BY <1>3, <3>1, PhaseFacts
    <3>3. MailOf(s, p) = "held" /\ MailOf(s, p)' = "lost"
      BY <2>1, <2>3, ThreadFacts DEF MailOf, AfterStop
    <3>4. \A r \in Subs, q \in Pubs : r # s \/ q # p => SameMail(r, q)
      BY <1>1, <2>3, ThreadKinds DEF SameMail, MailOf
    <3> QED
      BY <2>2, <3>2, <3>3, <3>4, MailSteps
  <2>4. CASE \A s \in Subs, p \in Pubs : th # Sender(s, p)
    BY <1>1, <2>1, <2>4, QuietStep
  <2> QED
    BY <2>3, <2>4 DEF Abstract, B!BNext
<1>4. CASE StopDeactivate(th)
  <2>1. /\ out' = out /\ active' = [active EXCEPT ![c] = FALSE]
        /\ pc[th] = "stop_deactivate" /\ pc'[th] = "stop_close"
    BY <1>0, <1>4 DEF StopDeactivate, TypeOK
  <2>2. active[c] /\ out[c] = "open" /\ ~active'[c] /\ out'[c] = "open"
    BY <1>0, <2>1 DEF ActiveWhileOpen, TypeOK
  <2>3. PhaseOf(c) = "open" /\ PhaseOf(c)' = "closing"
    BY <2>2 DEF PhaseOf
  <2>4. \A r \in Subs \ {c} : SamePhase(r)
    BY <2>1 DEF SamePhase, PhaseOf, TypeOK
  <2>5. ASSUME NEW s \in Subs, NEW p \in Pubs PROVE SameMail(s, p)
    <3>1. CASE th = Sender(s, p)
      BY <3>1, <2>1 DEF SameMail, MailOf
    <3> QED
      BY <1>1, <3>1 DEF SameMail, MailOf
  <2>6. B!Deactivate(c)
    BY <1>0, <2>3, <2>4, <2>5, PhaseSteps
  <2> QED
    BY <1>0, <2>6 DEF Abstract, B!BNext
<1>5. CASE StopClose(th)
  <2>1. /\ active' = active /\ out' = [out EXCEPT ![c] = "closed"]
        /\ pc[th] = "stop_close" /\ pc'[th] = AfterStop(th)
    BY <1>0, <1>5 DEF StopClose, TypeOK
  <2>2. ~active[c] /\ out[c] = "open" /\ out'[c] = "closed"
    BY <1>0, <2>1 DEF ActiveWhileOpen, StopperEndsLoop, Stopping, TypeOK
  <2>3. PhaseOf(c) = "closing" /\ PhaseOf(c)' = "ended"
    BY <2>2 DEF PhaseOf
  <2>4. \A r \in Subs \ {c} : SamePhase(r)
    BY <2>1 DEF SamePhase, PhaseOf, TypeOK
  <2> DEFINE gone == {p \in Pubs : th = Sender(c, p)}
  <2>5. \A p \in gone : MailOf(c, p) = "held" /\ MailOf(c, p)' = "lost"
    BY <1>0, <2>1, ThreadFacts DEF MailOf, AfterStop
  <2>6. ASSUME NEW s \in Subs, NEW p \in Pubs, s # c \/ p \notin gone PROVE SameMail(s, p)
    <3>1. th # Sender(s, p)
      <4>1. CASE s = c
        BY <4>1, <2>6
      <4>2. CASE s # c
        BY <4>2, <1>0, <2>1 DEF SendersOwn
      <4> QED
        BY <4>1, <4>2
    <3> QED
      BY <1>1, <3>1 DEF SameMail, MailOf
  <2>7. B!End(c)
    BY <1>0, <2>3, <2>4, <2>5, <2>6, EndSteps
  <2> QED
    BY <1>0, <2>7 DEF Abstract, B!BNext
<1> QED
  BY <1>2, <1>3, <1>4, <1>5 DEF Stop

(* The starts of a channel, of a message and of Run. *)
LEMMA RunActivateMaps ==
  ASSUME SlotInv, NEW s \in Subs, RunActivate(s)
  PROVE  Abstract
<1> USE DEF SlotInv, IInv, Goto, chanVars
<1>1. /\ out' = [out EXCEPT ![s] = "open"] /\ active' = [active EXCEPT ![s] = TRUE]
      /\ pc[Client(s)] = "run_activate"
      /\ \A r \in Subs, p \in Pubs : pc'[Sender(r, p)] = pc[Sender(r, p)]
  BY ThreadFacts, ThreadKinds DEF RunActivate, TypeOK
<1>2. PhaseOf(s) = "none" /\ PhaseOf(s)' = "open"
  BY <1>1 DEF PhaseOf, Fresh, Unrun, TypeOK
<1>3. \A r \in Subs \ {s} : SamePhase(r)
  BY <1>1 DEF SamePhase, PhaseOf, TypeOK
<1>4. \A r \in Subs, p \in Pubs : SameMail(r, p)
  BY <1>1 DEF SameMail, MailOf
<1>5. B!Subscribe(s)
  BY <1>2, <1>3, <1>4, PhaseSteps
<1> QED
  BY <1>5 DEF Abstract, B!BNext

LEMMA PubSendMaps ==
  ASSUME SlotInv, NEW p \in Pubs, PubSend(p)
  PROVE  Abstract
<1> USE DEF SlotInv, IInv, Goto, chanVars
<1> DEFINE th == Publisher(p)
<1>0. PICK c \in Subs : c = target[th]
  BY ThreadFacts DEF PubSend, HasTarget
<1>1. /\ UNCHANGED <<active, out>> /\ pc[th] = "pub_send" /\ loop[c] = "running"
      /\ cursor[th] \in Slots /\ topicOf[th] \in Topics
      /\ slots[topicOf[th]][cursor[th]] = c
      /\ pc'[Sender(c, p)] = "send_eval"
  BY <1>0, ThreadFacts DEF PubSend, HasTarget, HasTopic, PubOrder, InOrder, TypeOK
<1>2. \A r \in Subs, q \in Pubs : r # c \/ q # p => pc'[Sender(r, q)] = pc[Sender(r, q)]
  BY <1>0, ThreadFacts, ThreadKinds DEF PubSend, TypeOK
<1>3. pc[Sender(c, p)] = "idle"
  <2> SUFFICES ASSUME pc[Sender(c, p)] # "idle" PROVE FALSE
    OBVIOUS
  <2>1. PICK j \in Slots : j < cursor[th] /\ slots[topicOf[th]][j] = c
    BY <1>1 DEF PubOrder, InOrder
  <2>2. j = cursor[th]
    BY <1>1, <2>1, NilFacts DEF OneSlot
  <2> QED
    BY <2>1, <2>2, <1>1, ConstantsAssumption DEF Slots
<1>4. PhaseOf(c) = "open"
  BY <1>1, PhaseFacts DEF ActiveWhileOpen
<1>5. MailOf(c, p) = "unsent" /\ MailOf(c, p)' = "held"
  BY <1>1, <1>3 DEF MailOf
<1>6. \A r \in Subs : SamePhase(r)
  BY <1>1 DEF SamePhase, PhaseOf
<1>7. \A r \in Subs, q \in Pubs : r # c \/ q # p => SameMail(r, q)
  BY <1>2 DEF SameMail, MailOf
<1>8. B!Accept(c, p)
  BY <1>1, <1>4, <1>5, <1>6, <1>7, MailSteps
<1> QED
  BY <1>1, <1>8 DEF Abstract, B!BNext

LEMMA SendMaps ==
  ASSUME SlotInv, NEW s \in Subs, NEW p \in Pubs,
         SendEval(s, p) \/ Deliver(s, p) \/ SendPanic(s, p) \/ SendTimeout(s, p)
  PROVE  Abstract
<1> USE DEF SlotInv, IInv, Goto, chanVars
<1>1. UNCHANGED <<active, out>>
  BY DEF SendEval, Deliver, SendPanic, SendTimeout
<1>2. \A r \in Subs, q \in Pubs : r # s \/ q # p => pc'[Sender(r, q)] = pc[Sender(r, q)]
  BY ThreadFacts, ThreadKinds DEF SendEval, Deliver, SendPanic, SendTimeout, TypeOK
<1>3. \A r \in Subs : SamePhase(r)
  BY <1>1 DEF SamePhase, PhaseOf
<1>4. \A r \in Subs, q \in Pubs : r # s \/ q # p => SameMail(r, q)
  BY <1>2 DEF SameMail, MailOf
<1>5. CASE Deliver(s, p)
  <2>1. /\ pc[Sender(s, p)] = "send_wait" /\ pc'[Sender(s, p)] = "delivered" /\ out[s] = "open"
    BY <1>5, ThreadFacts, ThreadKinds DEF Deliver, TypeOK
  <2>2. MailOf(s, p) = "held" /\ MailOf(s, p)' = "delivered"
    BY <2>1 DEF MailOf
  <2>3. PhaseOf(s) \in {"open", "closing"}
    BY <2>1, PhaseFacts
  <2>4. B!Give(s, p)
    BY <1>3, <1>4, <2>2, <2>3, MailSteps
  <2> QED
    BY <2>4 DEF Abstract, B!BNext
<1>6. CASE SendEval(s, p) \/ SendPanic(s, p) \/ SendTimeout(s, p)
  <2>1. /\ pc[Sender(s, p)] \in {"send_eval", "send_wait", "send_nil"}
        /\ pc'[Sender(s, p)] \in {"send_wait", "send_nil", "stop_check"}
    BY <1>6, ThreadFacts DEF SendEval, SendPanic, SendTimeout, TypeOK
  <2>2. SameMail(s, p)
    BY <2>1 DEF SameMail, MailOf
  <2> QED
    BY <1>3, <1>4, <2>2, NoBroadcast DEF Abstract
<1> QED
  BY <1>5, <1>6

(* All other steps: Sub, Unsub, the consumer, Pub and Close work on the    *)
(* registry, the slots and the mutex, of which Broadcast knows nothing.    *)
LEMMA ClientQuiet ==
  ASSUME SlotInv, NEW s \in Subs, NEW th \in {Client(s), Consumer(s)},
         \/ CallSub(s) \/ CallCancel(s) \/ SubLookup(s) \/ SubCreate(s) \/ SubInsert(s)
         \/ RunLoop(s) \/ RunOut(s) \/ ConsumerRun(s) \/ ConsumerPost(s) \/ Unsub(th, s)
  PROVE  Abstract
<1> USE DEF SlotInv, IInv, Goto, chanVars
<1>1. UNCHANGED <<active, out>>
  BY DEF CallSub, CallCancel, SubLookup, SubCreate, SubInsert, RunLoop, RunOut, ConsumerRun,
     ConsumerPost, Unsub, UnsubLookup, UnsubLock, UnsubSlot, UnsubClear
<1>2. CASE \/ CallSub(s) \/ CallCancel(s) \/ SubLookup(s) \/ SubCreate(s) \/ SubInsert(s)
           \/ RunLoop(s) \/ RunOut(s) \/ ConsumerRun(s) \/ ConsumerPost(s)
  <2>1. ASSUME NEW r \in Subs, NEW q \in Pubs PROVE pc'[Sender(r, q)] = pc[Sender(r, q)]
    <3> USE ThreadFacts, ThreadKinds DEF TypeOK
    <3>1. CASE CallSub(s) \/ CallCancel(s) \/ SubLookup(s) \/ SubCreate(s) \/ RunLoop(s)
      BY <3>1 DEF CallSub, CallCancel, SubLookup, SubCreate, RunLoop
    <3>2. CASE SubInsert(s)
      <4>1. PICK l \in {"refused", "run_activate"} : pc' = [pc EXCEPT ![Client(s)] = l]
        BY <3>2 DEF SubInsert
      <4> QED
        BY <4>1
    <3>3. CASE RunOut(s) \/ ConsumerRun(s) \/ ConsumerPost(s)
      BY <3>3 DEF RunOut, ConsumerRun, ConsumerPost
    <3> QED
      BY <1>2, <3>1, <3>2, <3>3
  <2> QED
    BY <1>1, <2>1, QuietStep
<1>3. CASE Unsub(th, s)
  <2>1. \A r \in Subs, q \in Pubs : th # Sender(r, q)
    BY ThreadKinds
  <2>2. \A r \in Subs, q \in Pubs : pc'[Sender(r, q)] = pc[Sender(r, q)]
    BY <1>3, <2>1, ThreadFacts
    DEF TypeOK, Unsub, UnsubLookup, UnsubLock, UnsubSlot, UnsubClear
  <2> QED
    BY <1>1, <2>2, QuietStep
<1> QED
  BY <1>2, <1>3

LEMMA PubQuiet ==
  ASSUME SlotInv, NEW p \in Pubs, CallPub(p) \/ PubLock(p) \/ PubScan(p)
  PROVE  Abstract
<1> USE DEF SlotInv, IInv, Goto, chanVars
<1>1. UNCHANGED <<active, out>>
  BY DEF CallPub, PubLock, PubScan
<1>2. \A r \in Subs, q \in Pubs : pc'[Sender(r, q)] = pc[Sender(r, q)]
  BY ThreadFacts, ThreadKinds DEF TypeOK, CallPub, PubLock, PubScan
<1> QED
  BY <1>1, <1>2, QuietStep

LEMMA CloseQuiet ==
  ASSUME SlotInv, NEW k \in Closers, CallClose(k) \/ CloseLock(k) \/ CloseScan(k) \/ CloseDelete(k)
  PROVE  Abstract
<1> USE DEF SlotInv, IInv, Goto, chanVars
<1>1. UNCHANGED <<active, out>>
  BY DEF CallClose, CloseLock, CloseScan, CloseDelete
<1>2. \A r \in Subs, q \in Pubs : pc'[Sender(r, q)] = pc[Sender(r, q)]
  BY ThreadFacts, ThreadKinds DEF TypeOK, CallClose, CloseLock, CloseScan, CloseDelete
<1> QED
  BY <1>1, <1>2, QuietStep

LEMMA StopSorts ==
    /\ \A s \in Subs : Client(s) \notin Publishers /\ Consumer(s) \notin Publishers
    /\ \A s \in Subs : Client(s) \in Clients /\ Consumer(s) \in Consumers
    /\ \A s \in Subs, p \in Pubs : Sender(s, p) \notin Publishers
    /\ \A k \in Closers : Closer(k) \notin Publishers /\ Closer(k) \in ClosersT
BY ThreadKinds DEF Clients, Consumers, Senders, Publishers, ClosersT

LEMMA StepMaps == SlotInv /\ SlotInv' /\ [Next]_vars => [B!BNext]_(B!bvars)
<1> SUFFICES ASSUME SlotInv, SlotInv', [Next]_vars PROVE Abstract
  BY DEF Abstract
<1>1. CASE UNCHANGED vars
  BY <1>1, QuietStep DEF vars
<1>2. ASSUME NEW s \in Subs, CallSub(s) \/ CallCancel(s) \/ ClientStep(s) \/ ConsumerStep(s)
      PROVE  Abstract
  <2>1. CASE Stop(Client(s)) \/ Stop(Consumer(s))
    BY <2>1, ThreadFacts, StopSorts, StopMaps
  <2>2. CASE RunActivate(s)
    BY <2>2, RunActivateMaps
  <2>3. CASE \/ CallSub(s) \/ CallCancel(s) \/ SubLookup(s) \/ SubCreate(s) \/ SubInsert(s)
             \/ RunLoop(s) \/ RunOut(s) \/ ConsumerRun(s) \/ ConsumerPost(s)
             \/ Unsub(Client(s), s) \/ Unsub(Consumer(s), s)
    BY <2>3, ClientQuiet
  <2> QED
    BY <1>2, <2>1, <2>2, <2>3 DEF ClientStep, ConsumerStep
<1>3. ASSUME NEW s \in Subs, NEW p \in Pubs, SenderStep(s, p) PROVE Abstract
  BY <1>3, ThreadFacts, StopSorts, StopMaps, SendMaps DEF SenderStep
<1>4. ASSUME NEW p \in Pubs, CallPub(p) \/ PubStep(p) PROVE Abstract
  BY <1>4, PubQuiet, PubSendMaps DEF PubStep
<1>5. ASSUME NEW k \in Closers, CallClose(k) \/ CloseStep(k) PROVE Abstract
  BY <1>5, ThreadFacts, StopSorts, StopMaps, CloseQuiet DEF CloseStep
<1> QED
  BY <1>1, <1>2, <1>3, <1>4, <1>5 DEF Next

LEMMA InitMaps == Init => B!BInit
BY ThreadFacts DEF Init, B!BInit, PhaseOf, MailOf

LEMMA SlotInitInd == Init => SlotInv
BY InitInd, ThreadFacts, NilFacts, ConstantsAssumption
DEF Init, SlotInv, Locked, Holding, StopPCs, Fresh, OneSlot, ActiveWhileOpen, SendersOwn,
    PubOrder,
    InOrder, AudienceServed

LEMMA SlotStepInd == SlotInv /\ [Next]_vars => SlotInv'
<1> SUFFICES ASSUME SlotInv, [Next]_vars PROVE SlotInv'
  OBVIOUS
<1>1. IInv'
  BY StepInd DEF SlotInv
<1>2. CASE UNCHANGED vars
  BY <1>1, <1>2
  DEF vars, SlotInv, Locked, Holding, Fresh, OneSlot, ActiveWhileOpen, SendersOwn, PubOrder,
      InOrder, AudienceServed
<1>3. CASE Next
  BY <1>1, <1>3, SubSlots, UnsubSlots, StopSlots, SendSlots, PubSlots, CloseSlots,
     ThreadFacts, StopSorts
  DEF Next, ClientStep, ConsumerStep, SenderStep, CloseStep
<1> QED
  BY <1>2, <1>3

LEMMA SlotInvariance == Spec => []SlotInv
BY SlotInitInd, SlotStepInd, PTL DEF Spec

(* When Pub has returned (pubsub.go:201), every subscriber that was active *)
(* when it locked the topic, and still is, has been handed the message,    *)
(* whoever stops channels while it walks the slots.                        *)
THEOREM PubServesAll == Spec => []AudienceServed
<1>1. SlotInv => AudienceServed
  BY DEF SlotInv
<1> QED
  BY <1>1, SlotInvariance, PTL

(* The goroutines of the pubsub, with their locks, channels and slots, do  *)
(* what Broadcast promises: no message is given to Run twice or after the  *)
(* end (channel.go:46), and only a subscription that is being stopped      *)
(* loses one.                                                              *)
THEOREM ImplementsAbstract == Spec => ImplementsBroadcast
<1>1. Spec => [][B!BNext]_(B!bvars)
  BY SlotInvariance, StepMaps, PTL DEF Spec
<1> QED
  BY <1>1, InitMaps, PTL DEF Spec, ImplementsBroadcast, B!BSpec

-----------------------------------------------------------------------------
(* Who stops whom.                                                         *)

Own(s) == {Client(s), Consumer(s)}
Slotless == Unlisted \cup {"refused"}
Clearing == StopPCs \cup {"unsub_clear"}

(* A subscription that was given a slot has it, in some topic object, until *)
(* an Unsub takes it away.                                                 *)
Placed ==
    \A s \in Subs : pc[Client(s)] \notin Slotless =>
       leftBy[s] # Nil \/ \E t \in Topics : slots[t][index[s]] = s

(* A consumer starts when its Sub has returned.                            *)
Consuming ==
    \A s \in Subs : pc[Consumer(s)] # "idle" => pc[Client(s)] \notin Slotless \cup Unrun

(* An Unsub that has found a channel clears the slot of that channel, and   *)
(* the channel is stopped by then, if it ever was active.                  *)
Targets ==
    \A s \in Subs : \A th \in Own(s) : pc[th] \in Clearing =>
       /\ target[th] = slots[topicOf[th]][index[s]]
       /\ pc[th] = "unsub_clear" /\ target[th] = s => ~active[s]

(* Who is taken out by its own Unsub is stopped for good.                  *)
LeftStopped ==
    \A s \in Subs : leftBy[s] \in Own(s) => ~active[s] /\ pc[Client(s)] \notin Slotless \cup Unrun

OwnInv == Placed /\ Consuming /\ Targets /\ LeftStopped

-----------------------------------------------------------------------------
(* A step that changes no slot, starts no channel, and moves no thread into *)
(* an Unsub's work on a slot.                                              *)
Moves ==
    /\ UNCHANGED <<slots, index, leftBy>>
    /\ \A s \in Subs :
          /\ active'[s] => active[s]
          /\ pc'[Client(s)] \notin Slotless => pc[Client(s)] \notin Slotless
          /\ pc[Client(s)] \notin Slotless \cup Unrun => pc'[Client(s)] \notin Slotless \cup Unrun
          /\ pc'[Consumer(s)] # "idle" => pc[Consumer(s)] # "idle" \/ pc'[Client(s)] \notin Slotless \cup Unrun
          /\ \A th \in Own(s) : pc'[th] \in Clearing =>
                /\ pc[th] \in Clearing /\ target'[th] = target[th] /\ topicOf'[th] = topicOf[th]
                /\ pc'[th] = "unsub_clear" => pc[th] = "unsub_clear" \/ ~active'[target[th]]

LEMMA MovesKeep ==
  ASSUME SlotInv, OwnInv, Moves
  PROVE  OwnInv'
<1> USE DEF OwnInv, Moves
<1>1. Placed'
  BY DEF Placed
<1>2. Consuming'
  BY DEF Consuming
<1>3. Targets'
  BY ThreadFacts DEF Targets, Own, SlotInv, IInv, TypeOK
<1>4. LeftStopped'
  BY DEF LeftStopped
<1> QED
  BY <1>1, <1>2, <1>3, <1>4

(* channel.stop, whoever runs it.                                          *)
LEMMA StopMoves ==
  ASSUME SlotInv, NEW th \in Thread, Stop(th)
  PROVE  Moves
<1> USE DEF SlotInv, IInv, TypeOK, Goto, chanVars, Moves, Clearing, StopPCs, Slotless,
   Unrun, Unlisted, Own
<1>1. CASE StopCheck(th)
  <2>1. /\ UNCHANGED <<slots, index, leftBy, active, target, topicOf>>
        /\ \A t \in Thread : t # th => pc'[t] = pc[t]
        /\ pc[th] = "stop_check"
        /\ pc'[th] = "stop_send" \/ (~active[target[th]] /\ pc'[th] = AfterStop(th))
    BY <1>1 DEF StopCheck
  <2>2. AfterStop(th) \in {"dropped", "close_scan", "unsub_clear"}
    BY DEF AfterStop
  <2> QED
    BY <2>1, <2>2, ThreadFacts
<1>2. CASE StopSend(th)
  BY <1>2, ThreadFacts DEF StopSend
<1>3. CASE StopDeactivate(th)
  BY <1>3, ThreadFacts DEF StopDeactivate
<1>4. CASE StopClose(th)
  <2>1. /\ UNCHANGED <<slots, index, leftBy, active, target, topicOf>>
        /\ \A t \in Thread : t # th => pc'[t] = pc[t]
        /\ pc[th] = "stop_close" /\ ~active[target[th]] /\ pc'[th] = AfterStop(th)
    BY <1>4 DEF StopClose, ActiveWhileOpen
  <2>2. AfterStop(th) \in {"dropped", "close_scan", "unsub_clear"}
    BY DEF AfterStop
  <2> QED
    BY <2>1, <2>2, ThreadFacts
<1> QED
  BY <1>1, <1>2, <1>3, <1>4 DEF Stop

(* An Unsub on its way to its topic and slot, or that finds the slot empty. *)
LEMMA UnsubMoves ==
  ASSUME SlotInv, Consuming, NEW s \in Subs, NEW th \in Own(s),
         \/ UnsubLookup(th) \/ UnsubLock(th)
         \/ UnsubSlot(th, s) /\ slots[topicOf[th]][index[s]] = Nil
  PROVE  Moves
<1> USE DEF SlotInv, IInv, TypeOK, Goto, chanVars, Moves, Clearing, StopPCs, Slotless,
   Unrun, Unlisted
<1>1. /\ UNCHANGED <<slots, index, leftBy, active>> /\ th \in Thread
      /\ \A t \in Thread : t # th => pc'[t] = pc[t] /\ target'[t] = target[t] /\ topicOf'[t] = topicOf[t]
      /\ pc[th] \in {"unsub_lookup", "unsub_lock", "unsub_slot"}
      /\ pc'[th] \in {"unsub_lock", "unsub_slot", AfterUnsub(th)}
  BY ThreadFacts DEF UnsubLookup, UnsubLock, UnsubSlot, Own
<1>2. AfterUnsub(th) \in {"recv", "subscribed"}
  BY DEF AfterUnsub
<1> QED
  BY <1>1, <1>2, ThreadFacts, ThreadKinds DEF Own

(* An Unsub that finds a channel in the slot starts to stop it.            *)
LEMMA UnsubFinds ==
  ASSUME SlotInv, OwnInv, NEW s \in Subs, NEW th \in Own(s),
         UnsubSlot(th, s), slots[topicOf[th]][index[s]] # Nil
  PROVE  OwnInv'
<1> USE DEF SlotInv, IInv, TypeOK, Goto, chanVars, OwnInv
<1>1. /\ UNCHANGED <<slots, index, leftBy, active, topicOf>> /\ th \in Thread
      /\ \A t \in Thread : t # th => pc'[t] = pc[t] /\ target'[t] = target[t]
      /\ pc[th] = "unsub_slot" /\ pc'[th] = "stop_check"
      /\ target'[th] = slots[topicOf[th]][index[s]]
  BY ThreadFacts DEF UnsubSlot, Own
<1>2. /\ \A r \in Subs : pc'[Client(r)] \in Slotless \cup Unrun <=> pc[Client(r)] \in Slotless \cup Unrun
      /\ \A r \in Subs : pc'[Client(r)] \in Slotless <=> pc[Client(r)] \in Slotless
      /\ \A r \in Subs : pc'[Consumer(r)] = "idle" <=> pc[Consumer(r)] = "idle"
  BY <1>1, ThreadFacts DEF Slotless, Unrun, Unlisted
<1>4. Placed' /\ Consuming' /\ LeftStopped'
  BY <1>1, <1>2 DEF Placed, Consuming, LeftStopped
<1>3. Targets'
  BY <1>1, ThreadFacts, ThreadKinds DEF Targets, Own
<1> QED
  BY <1>3, <1>4

(* An Unsub that clears a slot: whose channel was there has now left it.   *)
LEMMA UnsubClears ==
  ASSUME SlotInv, OwnInv, NEW s \in Subs, NEW th \in Own(s), UnsubClear(th, s)
  PROVE  OwnInv'
<1> USE DEF SlotInv, IInv, TypeOK, Goto, chanVars, OwnInv
<1> DEFINE t == topicOf[th]
           c == slots[t][index[s]]
<1>1. /\ th \in Thread /\ pc[th] = "unsub_clear" /\ t \in Topics /\ target[th] = c
      /\ (c = s => ~active[s]) /\ pc[Client(s)] \notin Slotless \cup Unrun
    BY ThreadFacts DEF UnsubClear, Own, HasTopic, Targets, Clearing, Consuming, Slotless,
       Unrun, Unlisted
<1>2. /\ UNCHANGED <<index, active, topicOf, target>>
      /\ \A u \in Thread : u # th => pc'[u] = pc[u]
      /\ pc'[th] \in {"recv", "subscribed"}
      /\ \A u \in Topics, i \in Slots : (u # t \/ i # index[s]) => slots'[u][i] = slots[u][i]
      /\ \A r \in Subs : leftBy'[r] = IF r = c THEN th ELSE leftBy[r]
  BY <1>1, ThreadFacts DEF UnsubClear, AfterUnsub, Own
<1> HIDE DEF c, t
<1>3. \A r \in Subs : Client(r) \in Thread /\ Consumer(r) \in Thread /\ index[r] \in Slots
  BY ThreadFacts
<1>4. Placed'
  <2> SUFFICES ASSUME NEW r \in Subs, pc'[Client(r)] \notin Slotless, leftBy'[r] = Nil
               PROVE  \E u \in Topics : slots'[u][index[r]] = r
    BY <1>2 DEF Placed
  <2>1. r # c /\ leftBy[r] = Nil
    BY <1>1, <1>2, NilFacts
  <2>2. pc[Client(r)] \notin Slotless
    BY <1>1, <1>2, <1>3 DEF Slotless, Unlisted
  <2>3. PICK u \in Topics : slots[u][index[r]] = r
    BY <2>1, <2>2 DEF Placed
  <2>4. u # t \/ index[r] # index[s]
    BY <2>1, <2>3 DEF c
  <2> QED
    BY <2>3, <2>4, <1>2, <1>3
<1>5. Consuming'
  BY <1>1, <1>2, <1>3, ThreadKinds DEF Consuming, Own, Slotless, Unrun, Unlisted
<1>6. Targets'
  <2> SUFFICES ASSUME NEW r \in Subs, NEW x \in Own(r), pc'[x] \in Clearing
               PROVE  /\ target[x] = slots'[topicOf[x]][index[r]]
                      /\ pc'[x] = "unsub_clear" /\ target[x] = r => ~active[r]
    BY <1>2 DEF Targets
  <2>1. x # th /\ pc[x] = pc'[x] /\ x \in Thread
    BY <1>2, <1>3 DEF Own, Clearing, StopPCs
  <2>2. x \notin Senders
    BY ThreadSorts DEF Own
  <2>3. lock[topicOf[x]] = x /\ lock[t] = th
    BY <1>1, <2>1, <2>2, ThreadSorts DEF Locked, Holding, Clearing, t
  <2>4. topicOf[x] \in Topics /\ topicOf[x] # t
    BY <2>1, <2>2, <2>3 DEF HasTopic, Clearing, StopPCs
  <2> QED
    BY <1>2, <1>3, <2>1, <2>4 DEF Targets
<1>7. LeftStopped'
  <2> SUFFICES ASSUME NEW r \in Subs, leftBy'[r] \in Own(r)
               PROVE  ~active[r] /\ pc'[Client(r)] \notin Slotless \cup Unrun
    BY <1>2 DEF LeftStopped
  <2>1. CASE r = c
    <3>1. r = s
      BY <1>2, <2>1, ThreadKinds DEF Own
    <3> QED
      BY <1>1, <1>2, <1>3, <2>1, <3>1 DEF Slotless, Unrun, Unlisted
  <2>2. CASE r # c
    <3>1. ~active[r] /\ pc[Client(r)] \notin Slotless \cup Unrun
      BY <1>2, <2>2 DEF LeftStopped
    <3> QED
      BY <3>1, <1>2, <1>3 DEF Slotless, Unrun, Unlisted
  <2> QED
    BY <2>1, <2>2
<1> QED
  BY <1>4, <1>5, <1>6, <1>7

(* Sub before and after it has its slot and its channel, the call of the   *)
(* CancelFunc, and the consumer.                                           *)
LEMMA SubMoves ==
  ASSUME SlotInv, Consuming, NEW s \in Subs,
         \/ CallSub(s) \/ CallCancel(s) \/ SubLookup(s) \/ SubCreate(s) \/ RunLoop(s) \/ RunOut(s)
         \/ ConsumerRun(s) \/ ConsumerPost(s)
  PROVE  Moves
<1> USE DEF SlotInv, IInv, TypeOK, Goto, chanVars, Moves, Clearing, StopPCs, Slotless,
   Unrun, Unlisted, Own
<1>1. CASE CallSub(s)
  BY <1>1, ThreadFacts, ThreadKinds DEF CallSub
<1>2. CASE CallCancel(s)
  BY <1>2, ThreadFacts, ThreadKinds DEF CallCancel
<1>3. CASE SubLookup(s)
  BY <1>3, ThreadFacts, ThreadKinds DEF SubLookup
<1>4. CASE SubCreate(s)
  BY <1>4, ThreadFacts, ThreadKinds DEF SubCreate
<1>5. CASE RunLoop(s)
  BY <1>5, ThreadFacts, ThreadKinds DEF RunLoop
<1>6. CASE RunOut(s)
  BY <1>6, ThreadFacts, ThreadKinds DEF RunOut
<1>7. CASE ConsumerRun(s)
  BY <1>7, ThreadFacts, ThreadKinds DEF ConsumerRun
<1>8. CASE ConsumerPost(s)
  BY <1>8, ThreadFacts, ThreadKinds DEF ConsumerPost
<1> QED
  BY <1>1, <1>2, <1>3, <1>4, <1>5, <1>6, <1>7, <1>8

(* Sub takes a free slot, or is refused.                                   *)
LEMMA InsertOwns ==
  ASSUME SlotInv, OwnInv, NEW s \in Subs, SubInsert(s)
  PROVE  OwnInv'
<1> USE DEF SlotInv, IInv, TypeOK, Goto, chanVars, OwnInv
<1> DEFINE t == topicOf[Client(s)]
<1>1. /\ pc[Client(s)] = "sub_insert" /\ lock[t] = Nil /\ t \in Topics
      /\ UNCHANGED <<active, topicOf, target, leftBy>>
      /\ \A u \in Thread : u # Client(s) => pc'[u] = pc[u]
      /\ \A r \in Subs : r # s => index'[r] = index[r] /\ Client(r) # Client(s)
  BY ThreadFacts, ThreadKinds DEF SubInsert, HasTopic
<1>2. \/ pc'[Client(s)] = "refused" /\ UNCHANGED slots
      \/ /\ pc'[Client(s)] = "run_activate" /\ index'[s] \in Slots
         /\ slots' = [slots EXCEPT ![t][index'[s]] = s] /\ slots[t][index'[s]] = Nil
  BY ThreadFacts DEF SubInsert
<1> HIDE DEF t
<1>3. \A r \in Subs : Client(r) \in Thread /\ Consumer(r) \in Thread /\ index[r] \in Slots
  BY ThreadFacts
<1>4. Placed'
  <2> SUFFICES ASSUME NEW r \in Subs, pc'[Client(r)] \notin Slotless, leftBy[r] = Nil
               PROVE  \E u \in Topics : slots'[u][index'[r]] = r
    BY <1>1 DEF Placed
  <2>1. CASE r = s
    BY <1>1, <1>2, <2>1 DEF Slotless
  <2>2. CASE r # s
    <3>1. PICK u \in Topics : slots[u][index[r]] = r
      BY <2>2, <1>1, <1>3 DEF Placed
    <3>2. u # t \/ index[r] # index'[s] \/ UNCHANGED slots
      BY <3>1, <1>2, NilFacts
    <3>3. slots'[u][index[r]] = r
      BY <3>1, <3>2, <1>2, <1>3
    <3> QED
      BY <3>1, <3>3, <2>2, <1>1
  <2> QED
    BY <2>1, <2>2
<1>5. Consuming'
  BY <1>1, <1>3, ThreadKinds DEF Consuming, Slotless, Unrun, Unlisted
<1>6. Targets'
  <2> SUFFICES ASSUME NEW r \in Subs, NEW x \in Own(r), pc'[x] \in Clearing
               PROVE  /\ target[x] = slots'[topicOf[x]][index'[r]]
                      /\ pc'[x] = "unsub_clear" /\ target[x] = r => ~active[r]
    BY <1>1 DEF Targets
  <2>1. x # Client(s) /\ pc[x] = pc'[x] /\ x \in Thread
    BY <1>1, <1>2, <1>3 DEF Own, Clearing, StopPCs
  <2>2. r # s
    BY <1>1, <2>1 DEF Own, Clearing, StopPCs, Consuming, Slotless, Unlisted
  <2>3. x \notin Senders
    BY ThreadSorts DEF Own
  <2>4. lock[topicOf[x]] = x
    BY <2>1, <2>3 DEF Locked, Holding, Clearing
  <2>5. topicOf[x] \in Topics /\ topicOf[x] # t
    BY <1>1, <2>1, <2>3, <2>4, NilFacts DEF HasTopic, Clearing, StopPCs
  <2>6. slots'[topicOf[x]] = slots[topicOf[x]]
    BY <1>2, <2>5
  <2> QED
    BY <1>1, <2>1, <2>2, <2>6 DEF Targets
<1>7. LeftStopped'
  BY <1>1, <1>3 DEF LeftStopped, Slotless, Unrun, Unlisted
<1> QED
  BY <1>4, <1>5, <1>6, <1>7

(* The channel of a subscription starts: no Unsub of its own is under way.  *)
LEMMA ActivateOwns ==
  ASSUME SlotInv, OwnInv, NEW s \in Subs, RunActivate(s)
  PROVE  OwnInv'
<1> USE DEF SlotInv, IInv, TypeOK, Goto, chanVars, OwnInv
<1>1. /\ pc[Client(s)] = "run_activate" /\ pc'[Client(s)] = "run_loop"
      /\ UNCHANGED <<slots, index, topicOf, target, leftBy>>
      /\ \A u \in Thread : u # Client(s) => pc'[u] = pc[u]
      /\ \A r \in Subs : r # s => active'[r] = active[r] /\ Client(r) # Client(s)
      /\ \A r \in Subs : Client(r) \in Thread /\ Consumer(r) \in Thread /\ Consumer(r) # Client(s)
  BY ThreadFacts, ThreadKinds DEF RunActivate
<1>2. pc[Consumer(s)] = "idle" /\ leftBy[s] \notin Own(s)
  BY <1>1 DEF Consuming, LeftStopped, Slotless, Unrun
<1>3. Placed' /\ Consuming'
  BY <1>1, <1>2 DEF Placed, Consuming, Slotless, Unrun, Unlisted
<1>4. Targets'
  BY <1>1, <1>2 DEF Targets, Own, Clearing, StopPCs
<1>5. LeftStopped'
  BY <1>1, <1>2 DEF LeftStopped, Own, Slotless, Unrun, Unlisted
<1> QED
  BY <1>3, <1>4, <1>5

(* The senders, Pub and Close, but for channel.stop.                       *)
LEMMA OtherMoves ==
  ASSUME SlotInv,
         \/ \E s \in Subs, p \in Pubs : SendEval(s, p) \/ Deliver(s, p) \/ SendPanic(s, p) \/ SendTimeout(s, p)
         \/ \E p \in Pubs : CallPub(p) \/ PubStep(p)
         \/ \E k \in Closers : CallClose(k) \/ CloseLock(k) \/ CloseScan(k) \/ CloseDelete(k)
  PROVE  Moves
<1> DEFINE Frame ==
       /\ UNCHANGED <<slots, index, leftBy, active>>
       /\ \A s \in Subs : /\ pc'[Client(s)] = pc[Client(s)]
                          /\ \/ pc'[Consumer(s)] = pc[Consumer(s)]
                             \/ pc[Consumer(s)] = "recv" /\ pc'[Consumer(s)] = "run"
                          /\ target'[Client(s)] = target[Client(s)] /\ topicOf'[Client(s)] = topicOf[Client(s)]
                          /\ target'[Consumer(s)] = target[Consumer(s)] /\ topicOf'[Consumer(s)] = topicOf[Consumer(s)]
<1>1. Frame
  <2> USE DEF SlotInv, IInv, TypeOK, Goto, chanVars
  <2>1. ASSUME NEW s \in Subs, NEW p \in Pubs, SendEval(s, p) \/ Deliver(s, p) \/ SendPanic(s, p) \/ SendTimeout(s, p)
        PROVE  Frame
    BY <2>1, ThreadFacts, ThreadKinds DEF SendEval, Deliver, SendPanic, SendTimeout
  <2>2. ASSUME NEW p \in Pubs, CallPub(p) \/ PubLock(p) \/ PubScan(p) PROVE Frame
    BY <2>2, ThreadFacts, ThreadKinds DEF CallPub, PubLock, PubScan
  <2>3. ASSUME NEW p \in Pubs, PubSend(p) PROVE Frame
    BY <2>3, ThreadFacts, ThreadKinds DEF PubSend, HasTarget
  <2>4. ASSUME NEW k \in Closers, CallClose(k) \/ CloseLock(k) \/ CloseScan(k) \/ CloseDelete(k)
        PROVE  Frame
    BY <2>4, ThreadFacts, ThreadKinds DEF CallClose, CloseLock, CloseScan, CloseDelete
  <2> QED
    BY <2>1, <2>2, <2>3, <2>4 DEF PubStep
<1> QED
  BY <1>1 DEF Moves, Clearing, StopPCs, Own

LEMMA OwnInitInd == Init => OwnInv
<1> SUFFICES ASSUME Init PROVE OwnInv
  OBVIOUS
<1>1. \A s \in Subs : /\ pc[Client(s)] = "idle" /\ pc[Consumer(s)] = "idle"
                      /\ leftBy[s] \notin Own(s)
  BY ThreadFacts, NilFacts DEF Init, Own
<1> QED
  BY <1>1 DEF OwnInv, Placed, Consuming, Targets, LeftStopped, Own, Slotless, Unlisted,
     Clearing, StopPCs

(* Every step keeps the invariant.                                         *)
LEMMA OwnStepInd == SlotInv /\ OwnInv /\ [Next]_vars => OwnInv'
<1> SUFFICES ASSUME SlotInv, OwnInv, [Next]_vars PROVE OwnInv'
  OBVIOUS
<1>0. Consuming
  BY DEF OwnInv
<1>1. ASSUME NEW th \in Thread, Stop(th) PROVE OwnInv'
  BY <1>1, StopMoves, MovesKeep
<1>2. ASSUME NEW s \in Subs, NEW th \in Own(s), Unsub(th, s) PROVE OwnInv'
  BY <1>0, <1>2, UnsubMoves, UnsubFinds, UnsubClears, MovesKeep DEF Unsub
<1>3. ASSUME NEW s \in Subs, CallSub(s) \/ CallCancel(s) \/ ClientStep(s) \/ ConsumerStep(s) PROVE OwnInv'
  <2>1. Client(s) \in Own(s) \cap Thread /\ Consumer(s) \in Own(s) \cap Thread
    BY ThreadFacts DEF Own
  <2> QED
    BY <1>0, <1>1, <1>2, <1>3, <2>1, SubMoves, InsertOwns, ActivateOwns, MovesKeep
       DEF ClientStep, ConsumerStep
<1>4. ASSUME NEW s \in Subs, NEW p \in Pubs, SenderStep(s, p) PROVE OwnInv'
  BY <1>1, <1>4, OtherMoves, MovesKeep, ThreadFacts DEF SenderStep
<1>5. ASSUME NEW p \in Pubs, CallPub(p) \/ PubStep(p) PROVE OwnInv'
  BY <1>5, OtherMoves, MovesKeep
<1>6. ASSUME NEW k \in Closers, CallClose(k) \/ CloseStep(k) PROVE OwnInv'
  BY <1>1, <1>6, OtherMoves, MovesKeep, ThreadFacts DEF CloseStep
<1>7. CASE UNCHANGED vars
  BY <1>7 DEF vars, OwnInv, Placed, Consuming, Targets, LeftStopped
<1> QED
  BY <1>3, <1>4, <1>5, <1>6, <1>7 DEF Next

LEMMA OwnInvariance == Spec => [](SlotInv /\ OwnInv)
<1>1. Init => SlotInv /\ OwnInv
  BY SlotInitInd, OwnInitInd
<1>2. SlotInv /\ OwnInv /\ [Next]_vars => (SlotInv /\ OwnInv)'
  BY SlotStepInd, OwnStepInd
<1> QED
  BY <1>1, <1>2, PTL DEF Spec

(* An Unsub (pubsub.go:157) uses the index its Sub was given.  Whoever      *)
(* takes and leaves slots meanwhile, it stops the channel of another        *)
(* subscription only if an earlier Unsub took its own out of the slot, or   *)
(* if its own is in another topic object than the one it found.             *)
THEOREM UnsubsOwn == Spec => []OwnSlot
<1>1. SlotInv /\ OwnInv => OwnSlot
  <2> SUFFICES ASSUME OwnInv, NEW s \in Subs, NEW th \in {Client(s), Consumer(s)},
                      SlotInv, pc[th] \in StopPCs, target[th] # s, leftBy[s] = Nil
               PROVE  \E t \in Topics \ {topicOf[th]} : slots[t][index[s]] = s
    BY DEF OwnSlot
  <2>1. pc[Client(s)] \notin Slotless
    BY DEF OwnInv, Consuming, StopPCs, Slotless, Unlisted
  <2>2. PICK t \in Topics : slots[t][index[s]] = s
    BY <2>1 DEF OwnInv, Placed
  <2>3. target[th] = slots[topicOf[th]][index[s]]
    BY DEF OwnInv, Targets, Own, Clearing
  <2> QED
    BY <2>2, <2>3
<1> QED
  BY <1>1, OwnInvariance, PTL

(* A subscription that is active when its Sub has returned (pubsub.go:99)   *)
(* is in its slot of the topic that Pub finds, unless that topic object has *)
(* been deleted or replaced, or the late Unsub of another subscription took *)
(* it out of its slot.                                                      *)
THEOREM ActiveIsReachable == Spec => []SubscriptionReachable
<1>1. SlotInv /\ OwnInv => SubscriptionReachable
  <2> SUFFICES ASSUME OwnInv, SlotInv, NEW s \in Subs, pc[Client(s)] = "subscribed", active[s],
                      leftBy[s] \in {Nil, Client(s), Consumer(s)}
               PROVE  \/ registry # Nil /\ slots[registry][index[s]] = s
                      \/ Unregistered(s)
    BY DEF SubscriptionReachable
  <2>1. leftBy[s] = Nil
    BY DEF OwnInv, LeftStopped, Own
  <2>2. PICK t \in Topics : slots[t][index[s]] = s
    BY <2>1 DEF OwnInv, Placed, Slotless, Unlisted
  <2> QED
    BY <2>2, NilFacts DEF Unregistered
<1> QED
  BY <1>1, OwnInvariance, PTL
=============================================================================
