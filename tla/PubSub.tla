------------------------------- MODULE PubSub -------------------------------
(***************************************************************************)
(* The publish/subscribe core of booster (pubsub/pubsub.go and             *)
(* pubsub/channel.go) at the level of its goroutines, for one topic name.  *)
(*                                                                         *)
(* A subscription s is one call of Sub together with everything it starts: *)
(* the caller (which may later call the returned CancelFunc), the channel  *)
(* object with its loop goroutine, and the consumer goroutine which calls  *)
(* Run and finally PostRun.  A publication p is one call of Pub; for every *)
(* channel that takes its message the loop starts a goroutine of its own,  *)
(* the sender of p to s.  A closer is one call of Close.                   *)
(*                                                                         *)
(* Each step of a thread is one critical section of the code (the registry *)
(* mutex and a channel's mutex protect only straight-line code and are     *)
(* folded into the steps) or one rendezvous on an unbuffered Go channel.   *)
(* The mutex of a topic is held across blocking calls, so it is a variable.*)
(* A panic on a closed Go channel is recovered where the code recovers it. *)
(***************************************************************************)
EXTENDS Integers, FiniteSets

CONSTANTS
    Subs,           \* calls of Sub
    Pubs,           \* calls of Pub
    Closers,        \* calls of Close
    MaxSubs,        \* PubSub.MaxSubs, the number of slots of a topic
    FirstTopic,     \* the topic object present at the start, if Registered
    Registered,     \* whether the topic exists before the first Sub
    Failing,        \* subscriptions whose Run may return an error
    Cancelling,     \* subscriptions whose CancelFunc is called
    MaxCancels,     \* bound: how many times each of those calls it
    SlowConsumers,  \* whether a Run may outlast the one second of a sender
    Nil             \* Go's nil

(* A topic object is named by the subscription that created it. *)
Topics == Subs \cup {FirstTopic}
Slots == 1..MaxSubs

Client(s) == <<"client", s>>
Consumer(s) == <<"consumer", s>>
Sender(s, p) == <<"sender", s, p>>
Publisher(p) == <<"pub", p>>
Closer(k) == <<"closer", k>>

Clients == {Client(s) : s \in Subs}
Consumers == {Consumer(s) : s \in Subs}
Senders == {Sender(s, p) : s \in Subs, p \in Pubs}
Publishers == {Publisher(p) : p \in Pubs}
ClosersT == {Closer(k) : k \in Closers}
Thread == Clients \cup Consumers \cup Senders \cup Publishers \cup ClosersT

ASSUME ConstantsAssumption ==
    /\ MaxSubs \in Nat \ {0}
    /\ MaxCancels \in Nat
    /\ Failing \subseteq Subs
    /\ Cancelling \subseteq Subs
    /\ Registered \in BOOLEAN
    /\ SlowConsumers \in BOOLEAN
    /\ FirstTopic \notin Subs
    /\ Nil \notin Subs \cup {FirstTopic} \cup Thread

VARIABLES
    registry,   \* PubSub.registry at the topic's hash: a topic object or Nil
    slots,      \* topic.chs, of every topic object
    lock,       \* topic.Mutex: the thread that holds it, or Nil
    active,     \* channel.active
    out,        \* channel.ch: not made, open, or closed (the field is then nil)
    loop,       \* the goroutine of channel.run that serves sendc and stopc
    pc,         \* where each thread is
    topicOf,    \* the local variable t of Sub, Unsub, Pub and Close
    target,     \* the channel a thread is stopping or sending to
    cursor,     \* the loop index of Pub and Close
    index,      \* the local variable index of Sub
    err,        \* the consumer's local variable err (TRUE: not nil)
    cancels,    \* how many times the CancelFunc was called
    audience,   \* history: channels active in the topic when Pub locked it
    leftBy      \* history: the thread whose Unsub took a channel out of its slot

vars == <<registry, slots, lock, active, out, loop, pc, topicOf, target,
          cursor, index, err, cancels, audience, leftBy>>

chanVars == <<active, out, loop>>

UnsubPCs == {"unsub_lookup", "unsub_lock", "unsub_slot", "unsub_clear"}
StopPCs == {"stop_check", "stop_send", "stop_deactivate", "stop_close"}

(* The states a thread of each kind can be in. *)
ClientPCs == {"idle", "sub_lookup", "sub_create", "sub_insert", "run_activate",
              "run_loop", "run_out", "subscribed", "refused"}
                 \cup UnsubPCs \cup StopPCs
ConsumerPCs == {"idle", "recv", "recv_nil", "run", "post_run"}
                 \cup UnsubPCs \cup StopPCs
SenderPCs == {"idle", "send_eval", "send_wait", "send_nil", "delivered",
              "dropped"} \cup StopPCs
PublisherPCs == {"idle", "pub_lock", "pub_scan", "pub_send", "done"}
CloserPCs == {"idle", "close_lock", "close_scan", "close_delete", "done"}
                 \cup StopPCs

TypeOK ==
    /\ registry \in Topics \cup {Nil}
    /\ slots \in [Topics -> [Slots -> Subs \cup {Nil}]]
    /\ lock \in [Topics -> Thread \cup {Nil}]
    /\ active \in [Subs -> BOOLEAN]
    /\ out \in [Subs -> {"unmade", "open", "closed"}]
    /\ loop \in [Subs -> {"unborn", "running", "exited"}]
    /\ pc \in [Thread -> ClientPCs \cup ConsumerPCs \cup SenderPCs
                            \cup PublisherPCs \cup CloserPCs]
    /\ topicOf \in [Thread -> Topics \cup {Nil}]
    /\ target \in [Thread -> Subs \cup {Nil}]
    /\ cursor \in [Thread -> 1..(MaxSubs + 1)]
    /\ index \in [Subs -> Slots]
    /\ err \in [Subs -> BOOLEAN]
    /\ cancels \in [Subs -> 0..MaxCancels]
    /\ audience \in [Pubs -> SUBSET Subs]
    /\ leftBy \in [Subs -> Thread \cup {Nil}]

Init ==
    /\ registry = IF Registered THEN FirstTopic ELSE Nil
    /\ slots = [t \in Topics |-> [i \in Slots |-> Nil]]
    /\ lock = [t \in Topics |-> Nil]
    /\ active = [s \in Subs |-> FALSE]
    /\ out = [s \in Subs |-> "unmade"]
    /\ loop = [s \in Subs |-> "unborn"]
    /\ pc = [t \in Thread |-> "idle"]
    /\ topicOf = [t \in Thread |-> Nil]
    /\ target = [t \in Thread |-> Nil]
    /\ cursor = [t \in Thread |-> 1]
    /\ index = [s \in Subs |-> 1]
    /\ err = [s \in Subs |-> FALSE]
    /\ cancels = [s \in Subs |-> 0]
    /\ audience = [p \in Pubs |-> {}]
    /\ leftBy = [s \in Subs |-> Nil]

Goto(t, label) == pc' = [pc EXCEPT ![t] = label]

-----------------------------------------------------------------------------
(* channel.stop, run by the thread th on the channel target[th].           *)

(* Where a thread goes when channel.stop returns to it. *)
AfterStop(th) ==
    IF th \in Senders THEN "dropped"
    ELSE IF th \in ClosersT THEN "close_scan"
    ELSE "unsub_clear"

(* The isActive test at the top of stop. *)
StopCheck(th) ==
    /\ pc[th] = "stop_check"
    /\ Goto(th, IF active[target[th]] THEN "stop_send" ELSE AfterStop(th))
    /\ UNCHANGED <<registry, slots, lock, chanVars, topicOf, target, cursor,
                   index, err, cancels, audience, leftBy>>

(* Mutant: the loop does not return after taking the stop message. *)
StopSendLoopStays(th) ==
    /\ pc[th] = "stop_send"
    /\ loop[target[th]] = "running"
    /\ Goto(th, "stop_deactivate")
    /\ UNCHANGED <<registry, slots, lock, chanVars, topicOf, target, cursor,
                   index, err, cancels, audience, leftBy>>

(* c.stopc <- struct{}{}: blocks until the loop takes it, and the loop exits. *)
StopSend(th) ==
    LET c == target[th] IN
    /\ pc[th] = "stop_send"
    /\ loop[c] = "running"
    /\ loop' = [loop EXCEPT ![c] = "exited"]
    /\ Goto(th, "stop_deactivate")
    /\ UNCHANGED <<registry, slots, lock, active, out, topicOf, target, cursor,
                   index, err, cancels, audience, leftBy>>

StopDeactivate(th) ==
    /\ pc[th] = "stop_deactivate"
    /\ active' = [active EXCEPT ![target[th]] = FALSE]
    /\ Goto(th, "stop_close")
    /\ UNCHANGED <<registry, slots, lock, out, loop, topicOf, target, cursor,
                   index, err, cancels, audience, leftBy>>

(* Close the output channel (recovering if it is closed already) and drop it. *)
StopClose(th) ==
    /\ pc[th] = "stop_close"
    /\ out' = [out EXCEPT ![target[th]] = "closed"]
    /\ Goto(th, AfterStop(th))
    /\ UNCHANGED <<registry, slots, lock, active, loop, topicOf, target, cursor,
                   index, err, cancels, audience, leftBy>>

Stop(th) ==
    StopCheck(th) \/ StopSend(th) \/ StopDeactivate(th) \/ StopClose(th)

-----------------------------------------------------------------------------
(* Unsub, called by the CancelFunc and by a consumer whose Run failed.     *)

(* Mutant: the consumer returns after Unsub, without PostRun. *)
AfterUnsubReturns(th) == IF th \in Consumers THEN "gone" ELSE "subscribed"

(* Where a thread goes when Unsub returns to it. *)
AfterUnsub(th) == IF th \in Consumers THEN "recv" ELSE "subscribed"

(* The registry no longer has the topic: Unsub returns an error. *)
UnsubLookup(th) ==
    /\ pc[th] = "unsub_lookup"
    /\ topicOf' = [topicOf EXCEPT ![th] = registry]
    /\ Goto(th, IF registry = Nil THEN AfterUnsub(th) ELSE "unsub_lock")
    /\ UNCHANGED <<registry, slots, lock, chanVars, target, cursor, index, err,
                   cancels, audience, leftBy>>

UnsubLock(th) ==
    /\ pc[th] = "unsub_lock"
    /\ lock[topicOf[th]] = Nil
    /\ lock' = [lock EXCEPT ![topicOf[th]] = th]
    /\ Goto(th, "unsub_slot")
    /\ UNCHANGED <<registry, slots, chanVars, topicOf, target, cursor, index,
                   err, cancels, audience, leftBy>>

(* Mutant: the slot is cleared without stopping its channel. *)
UnsubSlotNoStop(th, s) ==
    /\ pc[th] = "unsub_slot"
    /\ Goto(th, "unsub_clear")
    /\ UNCHANGED <<registry, slots, lock, chanVars, topicOf, target, cursor,
                   index, err, cancels, audience, leftBy>>

(* A nil slot is an error; whatever channel the slot holds now is stopped. *)
UnsubSlot(th, s) ==
    LET t == topicOf[th]
        c == slots[t][index[s]] IN
    /\ pc[th] = "unsub_slot"
    /\ \/ /\ c = Nil
          /\ lock' = [lock EXCEPT ![t] = Nil]
          /\ Goto(th, AfterUnsub(th))
          /\ UNCHANGED target
       \/ /\ c # Nil
          /\ target' = [target EXCEPT ![th] = c]
          /\ Goto(th, "stop_check")
          /\ UNCHANGED lock
    /\ UNCHANGED <<registry, slots, chanVars, topicOf, cursor, index, err,
                   cancels, audience, leftBy>>

UnsubClear(th, s) ==
    LET t == topicOf[th]
        c == slots[t][index[s]] IN
    /\ pc[th] = "unsub_clear"
    /\ slots' = [slots EXCEPT ![t][index[s]] = Nil]
    /\ leftBy' = [leftBy EXCEPT ![c] = th]
    /\ lock' = [lock EXCEPT ![t] = Nil]
    /\ Goto(th, AfterUnsub(th))
    /\ UNCHANGED <<registry, chanVars, topicOf, target, cursor, index, err,
                   cancels, audience>>

Unsub(th, s) ==
    UnsubLookup(th) \/ UnsubLock(th) \/ UnsubSlot(th, s) \/ UnsubClear(th, s)

-----------------------------------------------------------------------------
(* Sub, and the calls of the CancelFunc it returned.                       *)

CallSub(s) ==
    /\ pc[Client(s)] = "idle"
    /\ Goto(Client(s), "sub_lookup")
    /\ UNCHANGED <<registry, slots, lock, chanVars, topicOf, target, cursor,
                   index, err, cancels, audience, leftBy>>

(* A missing topic is created, as a new object, in a later critical section. *)
SubLookup(s) ==
    /\ pc[Client(s)] = "sub_lookup"
    /\ topicOf' = [topicOf EXCEPT ![Client(s)] =
                     IF registry = Nil THEN s ELSE registry]
    /\ Goto(Client(s), IF registry = Nil THEN "sub_create" ELSE "sub_insert")
    /\ UNCHANGED <<registry, slots, lock, chanVars, target, cursor, index, err,
                   cancels, audience, leftBy>>

SubCreate(s) ==
    /\ pc[Client(s)] = "sub_create"
    /\ registry' = s
    /\ Goto(Client(s), "sub_insert")
    /\ UNCHANGED <<slots, lock, chanVars, topicOf, target, cursor, index, err,
                   cancels, audience, leftBy>>

(* Mutant: the first slot is taken without looking whether it is free. *)
SubInsertTakesFirst(s) ==
    LET t == topicOf[Client(s)] IN
    /\ pc[Client(s)] = "sub_insert"
    /\ lock[t] = Nil
    /\ slots' = [slots EXCEPT ![t][1] = s]
    /\ Goto(Client(s), "run_activate")
    /\ UNCHANGED <<registry, lock, chanVars, topicOf, target, cursor, index,
                   err, cancels, audience, leftBy>>

(* Under the topic's lock: take the first free slot, or give up. *)
SubInsert(s) ==
    LET t == topicOf[Client(s)]
        free == {i \in Slots : slots[t][i] = Nil} IN
    /\ pc[Client(s)] = "sub_insert"
    /\ lock[t] = Nil
    /\ \/ /\ free = {}
          /\ Goto(Client(s), "refused")
          /\ UNCHANGED <<slots, index>>
       \/ \E i \in free :
          /\ \A j \in free : i <= j
          /\ slots' = [slots EXCEPT ![t][i] = s]
          /\ index' = [index EXCEPT ![s] = i]
          /\ Goto(Client(s), "run_activate")
    /\ UNCHANGED <<registry, lock, chanVars, topicOf, target, cursor, err,
                   cancels, audience, leftBy>>

(* channel.run: the channel is new, so its isActive test passes. *)
RunActivate(s) ==
    /\ pc[Client(s)] = "run_activate"
    /\ ~active[s]
    /\ out' = [out EXCEPT ![s] = "open"]
    /\ active' = [active EXCEPT ![s] = TRUE]
    /\ Goto(Client(s), "run_loop")
    /\ UNCHANGED <<registry, slots, lock, loop, topicOf, target, cursor, index,
                   err, cancels, audience, leftBy>>

RunLoop(s) ==
    /\ pc[Client(s)] = "run_loop"
    /\ loop' = [loop EXCEPT ![s] = "running"]
    /\ Goto(Client(s), "run_out")
    /\ UNCHANGED <<registry, slots, lock, active, out, topicOf, target, cursor,
                   index, err, cancels, audience, leftBy>>

(* return c.out(), nil: the field is nil again if the channel was stopped in *)
(* the meantime, and the consumer then ranges over a nil channel.            *)
RunOut(s) ==
    /\ pc[Client(s)] = "run_out"
    /\ pc' = [pc EXCEPT ![Client(s)] = "subscribed",
                        ![Consumer(s)] =
                           IF out[s] = "open" THEN "recv" ELSE "recv_nil"]
    /\ UNCHANGED <<registry, slots, lock, chanVars, topicOf, target, cursor,
                   index, err, cancels, audience, leftBy>>

CallCancel(s) ==
    /\ pc[Client(s)] = "subscribed"
    /\ s \in Cancelling
    /\ cancels[s] < MaxCancels
    /\ cancels' = [cancels EXCEPT ![s] = @ + 1]
    /\ Goto(Client(s), "unsub_lookup")
    /\ UNCHANGED <<registry, slots, lock, chanVars, topicOf, target, cursor,
                   index, err, audience, leftBy>>

ClientStep(s) ==
    \/ SubLookup(s) \/ SubCreate(s) \/ SubInsert(s)
    \/ RunActivate(s) \/ RunLoop(s) \/ RunOut(s)
    \/ Unsub(Client(s), s) \/ Stop(Client(s))

-----------------------------------------------------------------------------
(* The consumer goroutine of a subscription.                               *)

(* Mutant: an error of Run breaks out of the range without Unsub. *)
ConsumerRunBreaks(s) ==
    /\ pc[Consumer(s)] = "run"
    /\ \E failed \in {FALSE, (s \in Failing)} :
          /\ err' = [err EXCEPT ![s] = failed]
          /\ Goto(Consumer(s), IF failed THEN "post_run" ELSE "recv")
    /\ UNCHANGED <<registry, slots, lock, chanVars, topicOf, target, cursor,
                   index, cancels, audience, leftBy>>

(* Run returns; an error unsubscribes, and the range loop goes on. *)
ConsumerRun(s) ==
    /\ pc[Consumer(s)] = "run"
    /\ \/ /\ err' = [err EXCEPT ![s] = FALSE]
          /\ Goto(Consumer(s), "recv")
       \/ /\ s \in Failing
          /\ err' = [err EXCEPT ![s] = TRUE]
          /\ Goto(Consumer(s), "unsub_lookup")
    /\ UNCHANGED <<registry, slots, lock, chanVars, topicOf, target, cursor,
                   index, cancels, audience, leftBy>>

(* The range ends on a closed channel, and PostRun(err) is called. *)
ConsumerPost(s) ==
    /\ pc[Consumer(s)] = "recv"
    /\ out[s] = "closed"
    /\ Goto(Consumer(s), "post_run")
    /\ UNCHANGED <<registry, slots, lock, chanVars, topicOf, target, cursor,
                   index, err, cancels, audience, leftBy>>

ConsumerStep(s) ==
    \/ ConsumerRun(s) \/ ConsumerPost(s)
    \/ Unsub(Consumer(s), s) \/ Stop(Consumer(s))

-----------------------------------------------------------------------------
(* The goroutine "go send(m)" that carries the message of p to s.          *)

(* Evaluate c.out() once: on a nil channel the send can only time out. *)
SendEval(s, p) ==
    /\ pc[Sender(s, p)] = "send_eval"
    /\ Goto(Sender(s, p), IF out[s] = "open" THEN "send_wait" ELSE "send_nil")
    /\ UNCHANGED <<registry, slots, lock, chanVars, topicOf, target, cursor,
                   index, err, cancels, audience, leftBy>>

(* c.out() <- m meets the consumer's range. *)
Deliver(s, p) ==
    /\ pc[Sender(s, p)] = "send_wait"
    /\ pc[Consumer(s)] = "recv"
    /\ out[s] = "open"
    /\ pc' = [pc EXCEPT ![Sender(s, p)] = "delivered", ![Consumer(s)] = "run"]
    /\ UNCHANGED <<registry, slots, lock, chanVars, topicOf, target, cursor,
                   index, err, cancels, audience, leftBy>>

(* The channel was closed under the sender: panic, recover, stop. *)
SendPanic(s, p) ==
    /\ pc[Sender(s, p)] = "send_wait"
    /\ out[s] = "closed"
    /\ target' = [target EXCEPT ![Sender(s, p)] = s]
    /\ Goto(Sender(s, p), "stop_check")
    /\ UNCHANGED <<registry, slots, lock, chanVars, topicOf, cursor, index, err,
                   cancels, audience, leftBy>>

(* Mutant: a timed-out sender gives up without stopping the channel. *)
SendTimeoutNoStop(s, p) ==
    /\ \/ pc[Sender(s, p)] = "send_nil"
       \/ SlowConsumers /\ pc[Sender(s, p)] = "send_wait"
    /\ Goto(Sender(s, p), "dropped")
    /\ UNCHANGED <<registry, slots, lock, chanVars, topicOf, target, cursor,
                   index, err, cancels, audience, leftBy>>

(* time.After(time.Second) fires. *)
SendTimeout(s, p) ==
    /\ \/ pc[Sender(s, p)] = "send_nil"
       \/ SlowConsumers /\ pc[Sender(s, p)] = "send_wait"
    /\ target' = [target EXCEPT ![Sender(s, p)] = s]
    /\ Goto(Sender(s, p), "stop_check")
    /\ UNCHANGED <<registry, slots, lock, chanVars, topicOf, cursor, index, err,
                   cancels, audience, leftBy>>

SenderStep(s, p) ==
    \/ SendEval(s, p) \/ Deliver(s, p) \/ SendPanic(s, p) \/ SendTimeout(s, p)
    \/ Stop(Sender(s, p))

-----------------------------------------------------------------------------
(* Pub.                                                                    *)

(* The lookup of the topic; without one, Pub returns. *)
CallPub(p) ==
    /\ pc[Publisher(p)] = "idle"
    /\ topicOf' = [topicOf EXCEPT ![Publisher(p)] = registry]
    /\ Goto(Publisher(p), IF registry = Nil THEN "done" ELSE "pub_lock")
    /\ UNCHANGED <<registry, slots, lock, chanVars, target, cursor, index, err,
                   cancels, audience, leftBy>>

PubLock(p) ==
    LET t == topicOf[Publisher(p)] IN
    /\ pc[Publisher(p)] = "pub_lock"
    /\ lock[t] = Nil
    /\ lock' = [lock EXCEPT ![t] = Publisher(p)]
    /\ audience' = [audience EXCEPT ![p] =
                      {c \in Subs : active[c] /\ \E i \in Slots : slots[t][i] = c}]
    /\ Goto(Publisher(p), "pub_scan")
    /\ UNCHANGED <<registry, slots, chanVars, topicOf, target, cursor, index,
                   err, cancels, leftBy>>

(* Mutant: without "defer t.Unlock()". *)
PubScanKeepsLock(p) ==
    LET th == Publisher(p)
        t == topicOf[th]
        i == cursor[th] IN
    /\ pc[th] = "pub_scan"
    /\ \/ /\ i > MaxSubs
          /\ Goto(th, "done")
          /\ UNCHANGED <<cursor, target>>
       \/ /\ i <= MaxSubs
          /\ IF slots[t][i] # Nil /\ active[slots[t][i]]
               THEN /\ target' = [target EXCEPT ![th] = slots[t][i]]
                    /\ Goto(th, "pub_send")
                    /\ UNCHANGED cursor
               ELSE /\ cursor' = [cursor EXCEPT ![th] = i + 1]
                    /\ UNCHANGED <<pc, target>>
    /\ UNCHANGED <<registry, slots, lock, chanVars, topicOf, index, err,
                   cancels, audience, leftBy>>

(* One turn of the range over t.chs; at the end, the deferred Unlock. *)
PubScan(p) ==
    LET th == Publisher(p)
        t == topicOf[th]
        i == cursor[th] IN
    /\ pc[th] = "pub_scan"
    /\ \/ /\ i > MaxSubs
          /\ lock' = [lock EXCEPT ![t] = Nil]
          /\ Goto(th, "done")
          /\ UNCHANGED <<cursor, target>>
       \/ /\ i <= MaxSubs
          /\ IF slots[t][i] # Nil /\ active[slots[t][i]]
               THEN /\ target' = [target EXCEPT ![th] = slots[t][i]]
                    /\ Goto(th, "pub_send")
                    /\ UNCHANGED cursor
               ELSE /\ cursor' = [cursor EXCEPT ![th] = i + 1]
                    /\ UNCHANGED <<pc, target>>
          /\ UNCHANGED lock
    /\ UNCHANGED <<registry, slots, chanVars, topicOf, index, err, cancels,
                   audience, leftBy>>

(* Mutant: the index advances twice, past the next slot. *)
PubSendSkips(p) ==
    LET th == Publisher(p)
        c == target[th] IN
    /\ pc[th] = "pub_send"
    /\ loop[c] = "running"
    /\ cursor' = [cursor EXCEPT ![th] = @ + 2]
    /\ pc' = [pc EXCEPT ![th] = "pub_scan", ![Sender(c, p)] = "send_eval"]
    /\ UNCHANGED <<registry, slots, lock, chanVars, topicOf, target, index, err,
                   cancels, audience, leftBy>>

(* c.sendc <- m: the loop takes the message and starts its sender. *)
PubSend(p) ==
    LET th == Publisher(p)
        c == target[th] IN
    /\ pc[th] = "pub_send"
    /\ loop[c] = "running"
    /\ cursor' = [cursor EXCEPT ![th] = @ + 1]
    /\ pc' = [pc EXCEPT ![th] = "pub_scan", ![Sender(c, p)] = "send_eval"]
    /\ UNCHANGED <<registry, slots, lock, chanVars, topicOf, target, index, err,
                   cancels, audience, leftBy>>

PubStep(p) == PubLock(p) \/ PubScan(p) \/ PubSend(p)

-----------------------------------------------------------------------------
(* Close.                                                                  *)

CallClose(k) ==
    /\ pc[Closer(k)] = "idle"
    /\ topicOf' = [topicOf EXCEPT ![Closer(k)] = registry]
    /\ Goto(Closer(k), IF registry = Nil THEN "done" ELSE "close_lock")
    /\ UNCHANGED <<registry, slots, lock, chanVars, target, cursor, index, err,
                   cancels, audience, leftBy>>

CloseLock(k) ==
    LET t == topicOf[Closer(k)] IN
    /\ pc[Closer(k)] = "close_lock"
    /\ lock[t] = Nil
    /\ lock' = [lock EXCEPT ![t] = Closer(k)]
    /\ Goto(Closer(k), "close_scan")
    /\ UNCHANGED <<registry, slots, chanVars, topicOf, target, cursor, index,
                   err, cancels, audience, leftBy>>

(* Stop the channel of every slot in turn; the slots keep their channels. *)
CloseScan(k) ==
    LET th == Closer(k)
        t == topicOf[th]
        i == cursor[th] IN
    /\ pc[th] = "close_scan"
    /\ \/ /\ i > MaxSubs
          /\ lock' = [lock EXCEPT ![t] = Nil]
          /\ Goto(th, "close_delete")
          /\ UNCHANGED <<cursor, target>>
       \/ /\ i <= MaxSubs
          /\ cursor' = [cursor EXCEPT ![th] = i + 1]
          /\ IF slots[t][i] # Nil
               THEN /\ target' = [target EXCEPT ![th] = slots[t][i]]
                    /\ Goto(th, "stop_check")
               ELSE UNCHANGED <<pc, target>>
          /\ UNCHANGED lock
    /\ UNCHANGED <<registry, slots, chanVars, topicOf, index, err, cancels,
                   audience, leftBy>>

(* delete(ps.registry, ...): whatever topic object is registered by now. *)
CloseDelete(k) ==
    /\ pc[Closer(k)] = "close_delete"
    /\ registry' = Nil
    /\ Goto(Closer(k), "done")
    /\ UNCHANGED <<slots, lock, chanVars, topicOf, target, cursor, index, err,
                   cancels, audience, leftBy>>

CloseStep(k) == CloseLock(k) \/ CloseScan(k) \/ CloseDelete(k) \/ Stop(Closer(k))

-----------------------------------------------------------------------------
Next ==
    \/ \E s \in Subs : CallSub(s) \/ CallCancel(s) \/ ClientStep(s) \/ ConsumerStep(s)
    \/ \E s \in Subs, p \in Pubs : SenderStep(s, p)
    \/ \E p \in Pubs : CallPub(p) \/ PubStep(p)
    \/ \E k \in Closers : CallClose(k) \/ CloseStep(k)

(* The Go scheduler runs every goroutine that can proceed, and timers fire. *)
(* Nothing forces a caller to call Sub, Pub, Close or the CancelFunc.       *)
Fairness ==
    /\ \A s \in Subs : WF_vars(ClientStep(s)) /\ WF_vars(ConsumerStep(s))
    /\ \A s \in Subs, p \in Pubs : WF_vars(SenderStep(s, p))
    /\ \A p \in Pubs : WF_vars(PubStep(p))
    /\ \A k \in Closers : WF_vars(CloseStep(k))

Spec == Init /\ [][Next]_vars
FairSpec == Spec /\ Fairness
-----------------------------------------------------------------------------
(* Safety.                                                                 *)

(* Between taking the loop's stop message and closing the output, a thread *)
(* is the only one to stop its channel: setIsActive(false) and the close   *)
(* of channel.stop are never run twice for one channel, whoever else (a    *)
(* cancel, a failed Run, a timed-out or panicking sender, Close) tries.    *)
SoleStopper ==
    \A t, u \in Thread :
       /\ pc[t] \in {"stop_deactivate", "stop_close"}
       /\ pc[u] \in {"stop_deactivate", "stop_close"}
       /\ target[t] = target[u]
       => t = u

(* The recover of closeChanSafe never fires: stop closes an output channel  *)
(* that is still open, never a closed one and never the nil of a channel    *)
(* that did not run yet.                                                    *)
ClosesOpen == \A t \in Thread : pc[t] = "stop_close" => out[target[t]] = "open"

(* When Pub has returned, every subscriber that was active when it locked   *)
(* the topic has been handed the message, unless it was stopped meanwhile.  *)
AudienceServed ==
    \A p \in Pubs : pc[Publisher(p)] = "done" =>
       \A c \in audience[p] : active[c] => pc[Sender(c, p)] # "idle"

(* The subscription has its slot in a topic object that Pub does not find:  *)
(* Close has deleted it, or another first Sub has replaced it.              *)
Unregistered(s) == \E t \in Topics \ {registry} : slots[t][index[s]] = s

(* A successful, active subscription is in the topic that Pub finds, at the *)
(* index its CancelFunc uses ("Sub subscribes cmd to cmd.Topic"), unless    *)
(* the topic itself is gone or the late Unsub of another subscription took  *)
(* it out of its slot.  Its own Unsub never leaves it active.               *)
SubscriptionReachable ==
    \A s \in Subs : pc[Client(s)] = "subscribed" /\ active[s] =>
       \/ registry # Nil /\ slots[registry][index[s]] = s
       \/ Unregistered(s)
       \/ leftBy[s] \notin {Nil, Client(s), Consumer(s)}

(* An Unsub stops the subscription it was called for.  It stops another one *)
(* only if its own has left the slot by an earlier Unsub, or is in a topic  *)
(* object that this Unsub did not find.                                     *)
OwnSlot ==
    \A s \in Subs : \A th \in {Client(s), Consumer(s)} :
       pc[th] \in StopPCs /\ target[th] # s =>
          \/ leftBy[s] # Nil
          \/ \E t \in Topics \ {topicOf[th]} : slots[t][index[s]] = s

(* Liveness.                                                               *)

(* The CancelFunc returns. *)
CancelReturns ==
    \A s \in Subs : pc[Client(s)] \in UnsubPCs \cup StopPCs
                       ~> pc[Client(s)] = "subscribed"

(* Closing a subscription's channel leads to its PostRun. *)
PostRunCalled ==
    \A s \in Subs : out[s] = "closed" ~> pc[Consumer(s)] = "post_run"

-----------------------------------------------------------------------------
(* PubSub implements Broadcast.                                            *)

PhaseOf(s) ==
    CASE out[s] = "unmade" -> "none"
      [] out[s] = "open" -> IF active[s] THEN "open" ELSE "closing"
      [] out[s] = "closed" -> "ended"

MailOf(s, p) ==
    CASE pc[Sender(s, p)] = "idle" -> "unsent"
      [] pc[Sender(s, p)] = "delivered" -> "delivered"
      [] pc[Sender(s, p)] = "dropped" -> "lost"
      [] OTHER -> "held"

B == INSTANCE Broadcast WITH
        phase <- [s \in Subs |-> PhaseOf(s)],
        mail <- [s \in Subs |-> [p \in Pubs |-> MailOf(s, p)]]

(* Every step of the goroutines is a step of Broadcast or changes nothing   *)
(* of it: no message is given twice, after the end, or lost by a            *)
(* subscription that is still active.                                       *)
ImplementsBroadcast == B!BSpec

(* With consumers that keep up, an accepted message is given to Run unless  *)
(* its subscription is stopped.                                             *)
ImplementsFairBroadcast == B!BFairSpec
=============================================================================
