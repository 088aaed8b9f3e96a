----------------------------- MODULE Inspection -----------------------------
(***************************************************************************)
(* The streams that a node serves from its topics, and who reads them:     *)
(* ServeStatus sends tunnel events to a peer, ServeMonitor (serveNet and   *)
(* serveNode) bandwidths and nodes to a monitoring client, and UpdateRoot, *)
(* once per run of the node, moves tunnel events from the proxy's topic to *)
(* the network's.  Each waits for its context, or for the error that the   *)
(* PostRun of its subscription reports on an unbuffered channel.  The      *)
(* client is the monitor command, or the monitor gateway: Monitor, under a *)
(* websocket handler, each handler in a process of its own.                *)
(*                                                                         *)
(* Of the pubsub this is what module Broadcast promises, with the slots by *)
(* which a cancel function finds its subscription, and the channels that   *)
(* end with their slot kept as a Run is too slow.                          *)
(***************************************************************************)
EXTENDS Integers, Sequences, FiniteSets, FiniteSetsExt

CONSTANTS
    Streams,
    Kind,      \* of a stream: status, net, node, root
    RunOf,     \* the run of the node, 1 or 2, whose context it has
    Stops,     \* the runs that may end
    Gateways,  \* the monitoring streams that a gateway reads, and not the monitor command
    Casts,     \* which streams are started together
    MaxSubs,   \* slots of each topic
    SlowStreams    \* those whose Run may take too long

TopicsOf == [status |-> <<"proxyTunnels">>, net |-> <<"usage">>,
             node |-> <<"network", "tunnels">>, root |-> <<"proxyTunnels">>]
Topics == {"proxyTunnels", "usage", "network", "tunnels"}
Of(kinds) == {s \in Streams : Kind[s] \in kinds}
Subs == UNION {{s} \X {TopicsOf[Kind[s]][i] : i \in DOMAIN TopicsOf[Kind[s]]} : s \in Streams}

ASSUME InspectionAssumption ==
    /\ Kind \in [Streams -> DOMAIN TopicsOf] /\ RunOf \in [Streams -> 1..2] /\ Stops \subseteq 1..2
    /\ Gateways \subseteq Of({"net", "node"})
    /\ Casts \subseteq SUBSET Streams /\ MaxSubs \in [Topics -> Nat \ {0}]

VARIABLES
    ctxDone,   \* the runs whose context has ended
    pc,        \* of a stream: absent, idle, snapshot, sub, refused, wait, drain, cancel, cancelAgain, done
    slots,     \* per topic: who has each slot
    phase,     \* of a subscription: none, open, closing, reporting, ended
    index,     \* its slot, as its cancel function knows it
    mail,      \* a message waits for its Run
    err,       \* what its last Run returned: an error
    killer,    \* history: the stream that took the slot of another's subscription
    slow,      \* history: the subscriptions whose Run took more than a second
    sOpen, cOpen,  \* streams whose connection is open at the node's end, and at the client's
    reset,     \* streams whose next write fails
    gateway    \* per monitoring stream: ws, cancelled, monitor, wg, handler, tick, up; history: lost, pings

vars == <<ctxDone, pc, slots, phase, index, mail, err, killer, slow, sOpen, cOpen, reset, gateway>>
SubVars == <<slots, phase, index, mail, err, killer, slow>>
ConnVars == <<sOpen, cOpen, reset>>

Nobody == "nobody"
ASSUME NobodyAssumption == Nobody \notin Streams

Mine(s) == {k \in Subs : k[1] = s}

Init ==
    /\ ctxDone = {}
    /\ \E cast \in Casts : pc = [s \in Streams |-> IF s \in cast THEN "idle" ELSE "absent"]
    /\ slots = [t \in Topics |-> [i \in 1..MaxSubs[t] |-> <<Nobody>>]]
    /\ phase = [k \in Subs |-> "none"] /\ index = [k \in Subs |-> 0]
    /\ mail = {} /\ err = {} /\ slow = {} /\ killer = [k \in Subs |-> Nobody]
    /\ sOpen = {} /\ cOpen = {} /\ reset = {}
    /\ gateway = [s \in Gateways |->
                    [ws |-> TRUE, cancelled |-> FALSE, monitor |-> "call", wg |-> 1,
                     handler |-> "monitor", tick |-> FALSE, up |-> TRUE,
                     lost |-> FALSE, pings |-> "fine"]]

-----------------------------------------------------------------------------
(* Starting a stream, and ending one.                                      *)

Goto(s, at) == pc' = [pc EXCEPT ![s] = at]

(* Its deferred calls close the connection. *)
Return(s) == Goto(s, "done") /\ sOpen' = sOpen \ {s}

(* The root of the second run starts when that of the first has returned;  *)
(* handlers of the first may still be about.                               *)
Begin(s) ==
    /\ pc[s] = "idle"
    /\ RunOf[s] = 2 => \A r \in Of({"root"}) : RunOf[r] = 1 => pc[r] = "done"
    /\ Goto(s, IF Kind[s] = "node" THEN "snapshot" ELSE "sub")
    /\ IF Kind[s] = "root" THEN UNCHANGED <<sOpen, cOpen>>
       ELSE sOpen' = sOpen \cup {s} /\ cOpen' = cOpen \cup {s}
    /\ gateway' = IF s \in Gateways
                   THEN [gateway EXCEPT ![s].monitor = "select", ![s].handler = "wait"]
                   ELSE gateway
    /\ UNCHANGED <<ctxDone, SubVars, reset>>

EndContext(r) ==
    /\ r \in Stops \ ctxDone
    /\ \E s \in Of({"root"}) : RunOf[s] = r /\ pc[s] = "wait"
    /\ ctxDone' = ctxDone \cup {r}
    /\ UNCHANGED <<pc, SubVars, ConnVars, gateway>>

(* A write fails on a connection that is closed or that broke; after the   *)
(* peer has closed it, the first write still succeeds.                     *)
Fails(s) == s \notin sOpen \/ s \in reset
Written(s) == reset' = IF s \in cOpen THEN reset ELSE reset \cup {s}

(* serveNode sends the nodes as they are first: several writes, the later  *)
(* of which may fail.                                                      *)
Snapshot(s) ==
    /\ pc[s] = "snapshot"
    /\ \/ ~Fails(s) /\ Written(s) /\ Goto(s, "sub") /\ UNCHANGED sOpen
       \/ s \notin cOpen /\ Return(s) /\ UNCHANGED reset
    /\ UNCHANGED <<ctxDone, SubVars, cOpen, gateway>>

(* Sub takes the first free slot, and fails when there is none: ServeStatus *)
(* then blocks on its own channel, the others return.                      *)
Subscribe(s) ==
    LET topics == TopicsOf[Kind[s]]
        made == Cardinality({k \in Mine(s) : phase[k] # "none"})
        t == topics[made + 1]
        k == <<s, t>>
        free == {i \in 1..MaxSubs[t] : slots[t][i] = <<Nobody>>}
    IN  /\ pc[s] = "sub"
        /\ IF free = {}
             THEN /\ IF Kind[s] = "status" THEN Goto(s, "refused") /\ UNCHANGED sOpen ELSE Return(s)
                  /\ UNCHANGED SubVars
             ELSE /\ slots' = [slots EXCEPT ![t][Min(free)] = k]
                  /\ index' = [index EXCEPT ![k] = Min(free)]
                  /\ phase' = [phase EXCEPT ![k] = "open"]
                  /\ Goto(s, IF made + 1 = Len(topics) THEN "wait" ELSE "sub")
                  /\ UNCHANGED <<mail, err, killer, slow, sOpen>>
        /\ UNCHANGED <<ctxDone, cOpen, reset, gateway>>

-----------------------------------------------------------------------------
(* Subscriptions.                                                          *)

(* Unsub of the slots that these subscriptions once took, called by s:     *)
(* whoever has them now is stopped, if it was not, and loses its slot.     *)
UnsubFrom(s, ks, ph) ==
    LET hit == {k \in Subs : \E j \in ks :
                  j[2] = k[2] /\ index[j] # 0 /\ slots[k[2]][index[j]] = k}
    IN  /\ slots' = [t \in Topics |-> [i \in 1..MaxSubs[t] |->
                       IF slots[t][i] \in hit THEN <<Nobody>> ELSE slots[t][i]]]
        /\ phase' = [k \in Subs |-> IF k \in hit /\ ph[k] = "open" THEN "closing" ELSE ph[k]]
        /\ killer' = [k \in Subs |-> IF k \in hit /\ k[1] # s THEN s ELSE killer[k]]
Unsub(s, ks) == UnsubFrom(s, ks, phase)

Heard(t) == mail \cup {k \in Subs : k[2] = t /\ phase[k] = "open"}

Publish(t) ==
    /\ mail' = Heard(t) /\ mail' # mail
    /\ UNCHANGED <<ctxDone, pc, slots, phase, index, err, killer, slow, ConnVars, gateway>>

(* Mutant: an error of Run does not end the subscription. *)
RunFailsKeeps(k) == UNCHANGED <<slots, phase, killer>>

RunFails(k) == Unsub(k[1], {k})

(* Run of UpdateRoot publishes for the network; the others write to their  *)
(* connection, and an error unsubscribes them.                             *)
Run(k) ==
    LET s == k[1] IN
    /\ k \in mail /\ phase[k] \in {"open", "closing"}
    /\ CASE Kind[s] = "root" ->
              mail' = Heard("tunnels") \ {k} /\ UNCHANGED <<slots, phase, err, killer, reset>>
         [] Kind[s] # "root" /\ Fails(s) ->
              mail' = mail \ {k} /\ err' = err \cup {k} /\ RunFails(k) /\ UNCHANGED reset
         [] OTHER ->
              mail' = mail \ {k} /\ err' = err \ {k} /\ Written(s) /\ UNCHANGED <<slots, phase, killer>>
    /\ UNCHANGED <<ctxDone, pc, index, slow, sOpen, cOpen, gateway>>

(* A Run takes more than a second while a message waits: the sender stops  *)
(* the channel, and the subscription keeps its slot.                       *)
Deactivate(k) ==
    /\ k \in mail /\ phase[k] = "open" /\ k[1] \in SlowStreams
    /\ phase' = [phase EXCEPT ![k] = "closing"] /\ slow' = slow \cup {k}
    /\ UNCHANGED <<ctxDone, pc, slots, index, mail, err, killer, ConnVars, gateway>>

(* Its channel has ended, with the messages it still had; PostRun reports  *)
(* an error and blocks until it is received, or does nothing.              *)
EndSub(k) ==
    /\ phase[k] = "closing"
    /\ phase' = [phase EXCEPT ![k] = IF k \in err THEN "reporting" ELSE "ended"]
    /\ mail' = mail \ {k} /\ err' = err \ {k}
    /\ UNCHANGED <<ctxDone, pc, slots, index, killer, slow, ConnVars, gateway>>

(* Mutant: every error path cancels too, as a deferred cancel would. *)
OnErrorCancel(k) == UnsubFrom(k[1], Mine(k[1]), [phase EXCEPT ![k] = "ended"])

OnError(k) == phase' = [phase EXCEPT ![k] = "ended"] /\ UNCHANGED <<slots, killer>>

(* The stream receives the error: it returns, or goes on with its end. *)
Report(k) ==
    LET s == k[1] IN
    /\ phase[k] = "reporting" /\ pc[s] \in {"wait", "drain"}
    /\ IF pc[s] = "drain" /\ Kind[s] = "status" THEN Goto(s, "cancel") /\ UNCHANGED sOpen
       ELSE Return(s)
    /\ OnError(k)
    /\ UNCHANGED <<ctxDone, index, mail, err, slow, cOpen, reset, gateway>>

(* The context ends: ServeStatus waits for an error before it cancels, the *)
(* others cancel before they wait for one; UpdateRoot does not wait, and   *)
(* has deferred its cancel as well.                                        *)
ContextEnds(s) ==
    /\ pc[s] = "wait" /\ RunOf[s] \in ctxDone
    /\ IF Kind[s] = "status" THEN UNCHANGED <<slots, phase, killer>> ELSE Unsub(s, Mine(s))
    /\ Goto(s, IF Kind[s] = "root" THEN "cancelAgain" ELSE "drain")
    /\ UNCHANGED <<ctxDone, index, mail, err, slow, ConnVars, gateway>>

CancelLate(s) ==
    /\ pc[s] \in {"cancel", "cancelAgain"}
    /\ Unsub(s, Mine(s))
    /\ Return(s)
    /\ UNCHANGED <<ctxDone, index, mail, err, slow, cOpen, reset, gateway>>

-----------------------------------------------------------------------------
(* The clients: a peer or the monitor command, which just leave, and the   *)
(* gateway's handler with Monitor.                                         *)

(* Such a client leaves, or its connection breaks. *)
PeerLeaves(s) ==
    /\ s \in (cOpen \cap sOpen) \ Gateways
    /\ cOpen' = cOpen \ {s} /\ reset' \in {reset, reset \cup {s}}
    /\ UNCHANGED <<ctxDone, pc, SubVars, sOpen, gateway>>

Started(s) == pc[s] \notin {"absent", "idle"}
Serving(s) == gateway[s].up /\ pc[s] # "absent"

(* A panic ends the process: only its history remains. *)
Panic(g) == [ws |-> FALSE, cancelled |-> TRUE, monitor |-> "done", wg |-> 0, handler |-> "returned",
             tick |-> FALSE, up |-> FALSE, lost |-> g.lost, pings |-> g.pings]

(* wg.Done: once too often, it panics. *)
Done(g) == IF g.wg = 0 THEN Panic(g) ELSE [g EXCEPT !.wg = @ - 1]
Fail(g) == [g EXCEPT !.ws = FALSE, !.cancelled = TRUE]

(* The gateway goes on as g; its process's connections end with it. *)
GatewayStep(s, g, closes) ==
    /\ gateway' = [gateway EXCEPT ![s] = g]
    /\ cOpen' = IF closes \/ ~g.up THEN cOpen \ {s} ELSE cOpen
    /\ UNCHANGED <<ctxDone, pc, SubVars, sOpen, reset>>

BrowserLeaves(s) ==
    Serving(s) /\ gateway[s].ws /\ GatewayStep(s, [gateway[s] EXCEPT !.ws = FALSE], FALSE)

(* The connection to the node breaks. *)
LinkBreaks(s) ==
    /\ s \in cOpen \cap sOpen
    /\ cOpen' = cOpen \ {s} /\ reset' = reset \cup {s}
    /\ gateway' = [gateway EXCEPT ![s].lost = TRUE]
    /\ UNCHANGED <<ctxDone, pc, SubVars, sOpen>>

(* Mutant: the reader releases the handler as well. *)
ReadFailsDone(g) == Done(Fail(g))

ReadFails(g) == Fail(g)

(* The goroutine that reads pongs. *)
Reader(s) ==
    /\ Serving(s) /\ ~gateway[s].ws /\ ~gateway[s].cancelled
    /\ GatewayStep(s, ReadFails(gateway[s]), FALSE)

(* Monitor returns an error, and no stream begins: its target cannot be    *)
(* dialled, which is always so of the feature that start.go:60 takes for   *)
(* the target, or the request cannot be sent.                              *)
MonitorFails(s) ==
    /\ pc[s] = "idle" /\ gateway[s].up
    /\ gateway' = [gateway EXCEPT ![s] =
                     [Done(Fail(gateway[s])) EXCEPT !.monitor = "done", !.handler = "wait"]]
    /\ Goto(s, "done")
    /\ UNCHANGED <<ctxDone, SubVars, ConnVars>>

(* The ticker's pings go on until the handler has returned, and with a     *)
(* tick that waited then.  One that succeeds changes nothing; one that     *)
(* comes while send writes may panic.                                      *)
Ping(s) ==
    LET g == [gateway[s] EXCEPT !.tick = FALSE]
    IN  /\ Serving(s) /\ (g.handler = "wait" \/ gateway[s].tick)
        /\ \/ GatewayStep(s, [Done(Fail(g)) EXCEPT !.pings = "failed"], FALSE)
           \/ /\ g.monitor = "send"
              /\ GatewayStep(s, Panic([g EXCEPT !.pings = "clashed"]), FALSE)

(* Monitor passes a packet to send, which writes it to the browser and     *)
(* never fails; there may always be one.                                   *)
Send(s) ==
    /\ Serving(s) /\ gateway[s].monitor = "select"
    /\ GatewayStep(s, [gateway[s] EXCEPT !.monitor = "send"], FALSE)

Sent(s) ==
    /\ Serving(s) /\ gateway[s].monitor = "send"
    /\ GatewayStep(s, [gateway[s] EXCEPT !.monitor = "select"], FALSE)

MonitorEnds(s) ==
    /\ Serving(s) /\ gateway[s].monitor = "select" /\ gateway[s].cancelled
    /\ GatewayStep(s, [Done(Fail(gateway[s])) EXCEPT !.monitor = "done"], TRUE)

(* The connection has ended: pkts is closed and gives a nil packet. *)
NilPacket(s) ==
    /\ Serving(s) /\ gateway[s].monitor = "select" /\ (s \notin sOpen \/ gateway[s].lost)
    /\ GatewayStep(s, Panic(gateway[s]), TRUE)

(* The deferred calls stop the ticker, and close. *)
HandlerReturns(s) ==
    /\ Serving(s) /\ gateway[s].wg = 0 /\ gateway[s].handler = "wait"
    /\ \E t \in BOOLEAN :
         GatewayStep(s, [Fail(gateway[s]) EXCEPT !.handler = "returned", !.tick = t], FALSE)

Stream(s) == Snapshot(s) \/ Subscribe(s) \/ ContextEnds(s) \/ CancelLate(s)
Sub(k) == Run(k) \/ EndSub(k) \/ Report(k)
MonitorNext(s) == Sent(s) \/ NilPacket(s)
GatewayNext(s) == Reader(s) \/ HandlerReturns(s)
Next ==
    \/ \E s \in Streams : Begin(s) \/ Stream(s) \/ PeerLeaves(s)
    \/ \E r \in 1..2 : EndContext(r)
    \/ \E t \in Topics : Publish(t)
    \/ \E k \in Subs : Sub(k) \/ Deactivate(k)
    \/ \E s \in Gateways : \/ BrowserLeaves(s) \/ LinkBreaks(s) \/ MonitorFails(s) \/ Ping(s)
                           \/ Send(s) \/ MonitorEnds(s) \/ MonitorNext(s) \/ GatewayNext(s)

Spec == Init /\ [][Next]_vars

(* Goroutines go on, and events keep coming on every topic; nobody has to  *)
(* connect, leave or stop the node.  Among packets and the end of its      *)
(* context Monitor's select chooses at random.                             *)
FairSpec ==
    /\ Spec
    /\ \A s \in Streams : WF_vars(Stream(s))
    /\ \A t \in Topics : WF_vars(Publish(t))
    /\ \A k \in Subs : WF_vars(Sub(k))
    /\ \A s \in Gateways :
         WF_vars(GatewayNext(s)) /\ WF_vars(MonitorNext(s)) /\ SF_vars(MonitorEnds(s))

-----------------------------------------------------------------------------
(* Properties.                                                             *)

(* A stream stops another's subscription only by a cancel that comes after *)
(* its context has ended (handlers.go:354, booster.go:402), or, when it    *)
(* was stopped in this way itself, by the error of a Run under way         *)
(* (pubsub.go:129); so never because of its client alone, and never before *)
(* a context has ended.                                                    *)
StopsOwn ==
    \A k \in Subs : killer[k] # Nobody =>
       /\ \/ RunOf[killer[k]] \in ctxDone
          \/ \E j \in Mine(killer[k]) : killer[j] # Nobody
       /\ ctxDone # {}

(* The gateway crashes only because the node has ended the stream or its   *)
(* connection broke (senders.go:219), a ping has failed, even one that     *)
(* comes after the handler has returned (start.go:160), or has met a send  *)
(* (start.go:157, 188): never because the browser leaves or Monitor fails. *)
CrashCauses ==
    \A s \in Gateways :
       gateway[s].up \/ s \notin sOpen \/ gateway[s].lost \/ gateway[s].pings # "fine"

(* When its browser or its client leaves, a stream ends and gives its slots*)
(* back, unless it was refused (handlers.go:341), or unsubscribed by       *)
(* another, or its context has ended (handlers.go:353), or one of its Runs *)
(* was too slow, whose channel ends without an error (channel.go:57).      *)
Gone(s) == Started(s) /\ (s \in cOpen => s \in Gateways /\ ~gateway[s].ws)
Freed ==
    \A s \in Of({"status", "net", "node"}) :
      Gone(s) ~>
        \/ pc[s] = "done" /\ \A k \in Mine(s) : phase[k] # "open"
        \/ pc[s] = "refused" \/ RunOf[s] \in ctxDone
        \/ \E k \in Mine(s) : killer[k] # Nobody \/ k \in slow

=============================================================================
