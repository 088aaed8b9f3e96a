----------------------------- MODULE Connections ----------------------------
(***************************************************************************)
(* The connections of a booster node to one remote node: how they are made *)
(* (Wire, AddConn), watched (the packet loop and the heartbeat timer),     *)
(* closed (Conn.Close, by whoever gets to it) and made again (the tracer). *)
(* The entries of Network.Outgoing for different nodes do not interact, so *)
(* one remote node is enough.                                              *)
(*                                                                         *)
(* A connection c is one call of Wire.  It is worked on by three threads:  *)
(* the caller of Wire, the packet loop (Handle) and the callback of the    *)
(* heartbeat timer; besides them there are Disconnect requests (the        *)
(* closing of all connections by Networks.Close takes the same steps) and  *)
(* the consumer of the tracer's ping results.  Conn.Close and Conn.Send    *)
(* take no lock, so each of their statements is a step of its own.         *)
(*                                                                         *)
(* The network may lose a link at any time, and whether a packet written   *)
(* to a lost link is reported as an error, times out or seems to succeed   *)
(* is open.  Publishing an event is one step (see PubSub and Broadcast),   *)
(* and the tracer's own goroutine always takes a refresh.                  *)
(***************************************************************************)
EXTENDS Integers, FiniteSets

CONSTANTS
    Conns,          \* calls of Wire
    OperatorConns,  \* those made by a Connect request of an operator
    Requests,       \* Disconnect requests
    Duplicates,     \* whether operators connect a node more than once
    DialFails,      \* whether a dial may fail
    LoopFails,      \* whether packets can be undecodable and the nodes' clocks differ
    EarlyTimer,     \* whether the timer may expire while the link is up
    Tunnels,        \* whether the remote node sends tunnel events
    SlowTracer,     \* whether a reconnection may outlast a pubsub send
    MaxLosses,      \* bound: how many links the network loses
    MaxPings,       \* bound: successful ping results not consumed yet
    Nil

Wirer(c) == <<"wire", c>>
Loop(c) == <<"loop", c>>
Timer(c) == <<"timer", c>>
Request(d) == <<"request", d>>
Tracer == <<"tracer", "tracer">>

Wirers == {Wirer(c) : c \in Conns}
Loops == {Loop(c) : c \in Conns}
Timers == {Timer(c) : c \in Conns}
Requesters == {Request(d) : d \in Requests}
Thread == Wirers \cup Loops \cup Timers \cup Requesters \cup {Tracer}

ASSUME ConstantsAssumption ==
    /\ OperatorConns \subseteq Conns
    /\ Nil \notin Conns
    /\ {Duplicates, DialFails, LoopFails, EarlyTimer, Tunnels, SlowTracer} \subseteq BOOLEAN
    /\ MaxLosses \in Nat
    /\ MaxPings \in Nat

VARIABLES
    outgoing,   \* Network.Outgoing at the node's identifier
    open,       \* Conn.Conn is not nil
    link,       \* the TCP connection: none, up, lost (by the network), closed
    active,     \* RemoteNode.active
    traced,     \* RemoteNode.ToBeTraced
    armed,      \* the heartbeat timer is running
    held,       \* a decoded packet waits in the channel of Conn.Consume
    pc,         \* where each thread is
    cont,       \* where a thread continues after Conn.Close
    target,     \* the connection a Disconnect request found
    tracing,    \* Tracer.conns at the node's identifier: its Conn
    pings,      \* successful ping results on their way to TraceNodes
    listening,  \* the subscription of TraceNodes is alive
    attempt,    \* the call of Wire the tracer's consumer is busy with
    crashed,    \* a nil pointer was dereferenced: the process is gone
    losses,     \* links lost so far
    removals,   \* history: NodeRemoved events published for a connection
    seen,       \* history: the last event published about the node
    about       \* history: and the connection it was published for

connVars == <<open, link, active, traced>>
loopVars == <<armed, held>>
traceVars == <<tracing, pings, listening, attempt>>
ghostVars == <<removals, seen, about>>
vars == <<outgoing, connVars, loopVars, pc, cont, target, traceVars, crashed,
          losses, ghostVars>>

ClosePCs == {"close_check", "close_socket", "close_nil", "close_inactive",
             "close_pub", "close_trace"}
SendPCs == {"send_check", "send_write"}
WirerPCs == {"idle", "dial", "add", "fail", "arm", "activate", "mark", "wired",
             "failed"} \cup ClosePCs \cup SendPCs
LoopPCs == {"idle", "consume", "consume_run", "loop", "hb_wait", "hb_fail",
            "tunnel", "ended"} \cup ClosePCs \cup SendPCs
TimerPCs == {"idle", "expired"} \cup ClosePCs
RequestPCs == {"idle", "untrace", "done"} \cup ClosePCs
TracerPCs == {"idle", "wait", "drop"}
PCs == WirerPCs \cup LoopPCs \cup TimerPCs \cup RequestPCs \cup TracerPCs

TypeOK ==
    /\ outgoing \in Conns \cup {Nil}
    /\ open \in [Conns -> BOOLEAN]
    /\ link \in [Conns -> {"none", "up", "lost", "closed"}]
    /\ active \in [Conns -> BOOLEAN]
    /\ traced \in [Conns -> BOOLEAN]
    /\ armed \in [Conns -> BOOLEAN]
    /\ held \in [Conns -> BOOLEAN]
    /\ pc \in [Thread -> PCs]
    /\ cont \in [Thread -> PCs]
    /\ target \in [Requests -> Conns \cup {Nil}]
    /\ \A d \in Requests : target[d] = Nil => pc[Request(d)] \in {"idle", "done"}
    /\ tracing \in Conns \cup {Nil}
    /\ pings \in 0..MaxPings
    /\ listening \in BOOLEAN
    /\ attempt \in Conns \cup {Nil}
    /\ crashed \in BOOLEAN
    /\ losses \in 0..MaxLosses
    /\ removals \in [Conns -> Nat]
    /\ seen \in {"nothing", "added", "removed"}
    /\ about \in Conns \cup {Nil}

Init ==
    /\ outgoing = Nil
    /\ open = [c \in Conns |-> FALSE]
    /\ link = [c \in Conns |-> "none"]
    /\ active = [c \in Conns |-> FALSE]
    /\ traced = [c \in Conns |-> FALSE]
    /\ armed = [c \in Conns |-> FALSE]
    /\ held = [c \in Conns |-> FALSE]
    /\ pc = [th \in Thread |-> "idle"]
    /\ cont = [th \in Thread |-> "idle"]
    /\ target = [d \in Requests |-> Nil]
    /\ tracing = Nil
    /\ pings = 0
    /\ listening = TRUE
    /\ attempt = Nil
    /\ crashed = FALSE
    /\ losses = 0
    /\ removals = [c \in Conns |-> 0]
    /\ seen = "nothing"
    /\ about = Nil

Goto(th, label) == pc' = [pc EXCEPT ![th] = label]

(* Call Conn.Close and go on at label when it has returned. *)
CallClose(th, label) ==
    /\ Goto(th, "close_check")
    /\ cont' = [cont EXCEPT ![th] = label]

(* Conn.Close returns. *)
Return(th) == Goto(th, cont[th]) /\ cont' = [cont EXCEPT ![th] = "idle"]

-----------------------------------------------------------------------------
(* Conn.Close, run by the thread th on the connection c.                   *)

(* if c.Conn == nil: the connection is closed already. *)
CloseCheck(th, c) ==
    /\ pc[th] = "close_check"
    /\ IF open[c] THEN Goto(th, "close_socket") /\ UNCHANGED cont ELSE Return(th)
    /\ UNCHANGED <<outgoing, connVars, loopVars, target, traceVars, crashed,
                   losses, ghostVars>>

(* Mutant: the error of a second close of the socket is not returned. *)
CloseSocketGoesOn(th, c) ==
    /\ pc[th] = "close_socket"
    /\ \/ ~open[c] /\ crashed' = TRUE /\ UNCHANGED <<pc, link>>
       \/ /\ open[c]
          /\ link' = [link EXCEPT ![c] = "closed"]
          /\ Goto(th, "close_nil")
          /\ UNCHANGED crashed
    /\ UNCHANGED <<outgoing, open, active, traced, loopVars, cont, target,
                   traceVars, losses, ghostVars>>

(* c.Conn.Close(): a nil dereference if another thread just reset c.Conn, an *)
(* error (and a return) if another thread closed the socket already.         *)
CloseSocket(th, c) ==
    /\ pc[th] = "close_socket"
    /\ \/ /\ ~open[c]
          /\ crashed' = TRUE
          /\ UNCHANGED <<pc, cont, link>>
       \/ /\ open[c] /\ link[c] = "closed"
          /\ Return(th)
          /\ UNCHANGED <<link, crashed>>
       \/ /\ open[c] /\ link[c] # "closed"
          /\ link' = [link EXCEPT ![c] = "closed"]
          /\ Goto(th, "close_nil")
          /\ UNCHANGED <<cont, crashed>>
    /\ UNCHANGED <<outgoing, open, active, traced, loopVars, target,
                   traceVars, losses, ghostVars>>

(* Mutant: without "c.Conn = nil". *)
CloseNilKeeps(th, c) ==
    /\ pc[th] = "close_nil"
    /\ Goto(th, "close_inactive")
    /\ UNCHANGED <<outgoing, connVars, loopVars, cont, target, traceVars,
                   crashed, losses, ghostVars>>

CloseNil(th, c) ==
    /\ pc[th] = "close_nil"
    /\ open' = [open EXCEPT ![c] = FALSE]
    /\ Goto(th, "close_inactive")
    /\ UNCHANGED <<outgoing, link, active, traced, loopVars, cont, target,
                   traceVars, crashed, losses, ghostVars>>

CloseInactive(th, c) ==
    /\ pc[th] = "close_inactive"
    /\ active' = [active EXCEPT ![c] = FALSE]
    /\ Goto(th, "close_pub")
    /\ UNCHANGED <<outgoing, open, link, traced, loopVars, cont, target,
                   traceVars, crashed, losses, ghostVars>>

(* Mutant: the event is published for nodes that are traced only. *)
ClosePubTraced(th, c) ==
    /\ pc[th] = "close_pub"
    /\ removals' = [removals EXCEPT ![c] = @ + 1]
    /\ seen' = IF traced[c] THEN "removed" ELSE seen
    /\ about' = IF traced[c] THEN c ELSE about
    /\ Goto(th, "close_trace")
    /\ UNCHANGED <<outgoing, connVars, loopVars, cont, target, traceVars,
                   crashed, losses>>

(* Publish NodeRemoved. *)
ClosePub(th, c) ==
    /\ pc[th] = "close_pub"
    /\ removals' = [removals EXCEPT ![c] = @ + 1]
    /\ seen' = "removed"
    /\ about' = c
    /\ Goto(th, "close_trace")
    /\ UNCHANGED <<outgoing, connVars, loopVars, cont, target, traceVars,
                   crashed, losses>>

(* Mutant: the test of ToBeTraced is reversed. *)
CloseTraceReversed(th, c) ==
    /\ pc[th] = "close_trace"
    /\ tracing' = IF traced[c] THEN tracing ELSE c
    /\ Return(th)
    /\ UNCHANGED <<outgoing, connVars, loopVars, target, pings, listening,
                   attempt, crashed, losses, ghostVars>>

(* Give the node to the tracer if it is to be traced. *)
CloseTrace(th, c) ==
    /\ pc[th] = "close_trace"
    /\ tracing' = IF traced[c] THEN c ELSE tracing
    /\ Return(th)
    /\ UNCHANGED <<outgoing, connVars, loopVars, target, pings, listening,
                   attempt, crashed, losses, ghostVars>>

Close(th, c) ==
    \/ CloseCheck(th, c) \/ CloseSocket(th, c) \/ CloseNil(th, c)
    \/ CloseInactive(th, c) \/ ClosePub(th, c) \/ CloseTrace(th, c)

-----------------------------------------------------------------------------
(* Conn.Send, run by the caller of Wire and by the packet loop of c.       *)

AfterSend(th) == IF th \in Wirers THEN "arm" ELSE "loop"
SendFailed(th) == IF th \in Wirers THEN "fail" ELSE "hb_fail"

SendCheck(th, c) ==
    /\ pc[th] = "send_check"
    /\ Goto(th, IF open[c] THEN "send_write" ELSE SendFailed(th))
    /\ UNCHANGED <<outgoing, connVars, loopVars, cont, target, traceVars,
                   crashed, losses, ghostVars>>

(* The write goes out (or into a buffer), fails, or times out; in the last  *)
(* case Send closes the connection itself before it reports the error.      *)
SendWrite(th, c) ==
    /\ pc[th] = "send_write"
    /\ \/ /\ ~open[c]
          /\ crashed' = TRUE
          /\ UNCHANGED <<pc, cont>>
       \/ /\ open[c] /\ link[c] \in {"up", "lost"}
          /\ Goto(th, AfterSend(th))
          /\ UNCHANGED <<cont, crashed>>
       \/ /\ open[c] /\ link[c] \in {"lost", "closed"}
          /\ Goto(th, SendFailed(th))
          /\ UNCHANGED <<cont, crashed>>
       \/ /\ open[c] /\ link[c] = "lost"
          /\ CallClose(th, SendFailed(th))
          /\ UNCHANGED crashed
    /\ UNCHANGED <<outgoing, connVars, loopVars, target, traceVars, losses,
                   ghostVars>>

Send(th, c) == SendCheck(th, c) \/ SendWrite(th, c)

-----------------------------------------------------------------------------
(* Wire.                                                                   *)

(* HandleConnect, for an operator. *)
CallWire(c) ==
    /\ c \in OperatorConns
    /\ pc[Wirer(c)] = "idle"
    /\ Duplicates \/ \A x \in Conns : pc[Wirer(x)] = "idle"
    /\ Goto(Wirer(c), "dial")
    /\ UNCHANGED <<outgoing, connVars, loopVars, cont, target, traceVars,
                   crashed, losses, ghostVars>>

(* DialContext, up to the hello packet of the remote node. *)
Dial(c) ==
    /\ pc[Wirer(c)] = "dial"
    /\ \/ /\ open' = [open EXCEPT ![c] = TRUE]
          /\ link' = [link EXCEPT ![c] = "up"]
          /\ Goto(Wirer(c), "add")
       \/ /\ DialFails
          /\ Goto(Wirer(c), "failed")
          /\ UNCHANGED <<open, link>>
    /\ UNCHANGED <<outgoing, active, traced, loopVars, cont, target,
                   traceVars, crashed, losses, ghostVars>>

(* Mutant: without the test of cc.Conn, every entry is replaced. *)
AddConnReplaces(c) ==
    /\ pc[Wirer(c)] = "add"
    /\ outgoing' = c
    /\ seen' = "added"
    /\ about' = c
    /\ Goto(Wirer(c), "send_check")
    /\ UNCHANGED <<connVars, loopVars, cont, target, traceVars, crashed,
                   losses, removals>>

(* AddConn, under the network's mutex: an entry whose Conn is not nil stays. *)
AddConn(c) ==
    /\ pc[Wirer(c)] = "add"
    /\ \/ /\ outgoing # Nil /\ open[outgoing]
          /\ CallClose(Wirer(c), "failed")
          /\ UNCHANGED <<outgoing, seen, about>>
       \/ /\ outgoing # Nil => ~open[outgoing]
          /\ outgoing' = c
          /\ seen' = "added"
          /\ about' = c
          /\ Goto(Wirer(c), "send_check")
          /\ UNCHANGED cont
    /\ UNCHANGED <<connVars, loopVars, target, traceVars, crashed, losses,
                   removals>>

(* The failure path of Wire. *)
WireFails(c) ==
    /\ pc[Wirer(c)] = "fail"
    /\ CallClose(Wirer(c), "failed")
    /\ UNCHANGED <<outgoing, connVars, loopVars, target, traceVars, crashed,
                   losses, ghostVars>>

(* The notify and heartbeat packets are out: start the heartbeat timer. *)
StartTimer(c) ==
    /\ pc[Wirer(c)] = "arm"
    /\ armed' = [armed EXCEPT ![c] = TRUE]
    /\ Goto(Wirer(c), "activate")
    /\ UNCHANGED <<outgoing, connVars, held, cont, target, traceVars, crashed,
                   losses, ghostVars>>

WireActivates(c) ==
    /\ pc[Wirer(c)] = "activate"
    /\ active' = [active EXCEPT ![c] = TRUE]
    /\ Goto(Wirer(c), "mark")
    /\ UNCHANGED <<outgoing, open, link, traced, loopVars, cont, target,
                   traceVars, crashed, losses, ghostVars>>

(* Set ToBeTraced, start the packet loop and return. *)
WireDone(c) ==
    /\ pc[Wirer(c)] = "mark"
    /\ traced' = [traced EXCEPT ![c] = TRUE]
    /\ pc' = [pc EXCEPT ![Wirer(c)] = "wired", ![Loop(c)] = "consume"]
    /\ UNCHANGED <<outgoing, open, link, active, loopVars, cont, target,
                   traceVars, crashed, losses, ghostVars>>

WirerStep(c) ==
    /\ ~crashed
    /\ \/ Dial(c) \/ AddConn(c) \/ WireFails(c) \/ StartTimer(c)
       \/ WireActivates(c) \/ WireDone(c)
       \/ Send(Wirer(c), c) \/ Close(Wirer(c), c)

-----------------------------------------------------------------------------
(* The packet loop: Handle, HandleHeartbeat and HandleTunnel.              *)

(* Conn.Consume tests c.Conn and then uses it. *)
ConsumeCheck(c) ==
    /\ pc[Loop(c)] = "consume"
    /\ \/ /\ open[c]
          /\ Goto(Loop(c), "consume_run")
          /\ UNCHANGED cont
       \/ /\ ~open[c]
          /\ CallClose(Loop(c), "ended")
    /\ UNCHANGED <<outgoing, connVars, loopVars, target, traceVars, crashed,
                   losses, ghostVars>>

ConsumeRun(c) ==
    /\ pc[Loop(c)] = "consume_run"
    /\ \/ /\ open[c]
          /\ Goto(Loop(c), "loop")
          /\ UNCHANGED crashed
       \/ /\ ~open[c]
          /\ crashed' = TRUE
          /\ UNCHANGED pc
    /\ UNCHANGED <<outgoing, connVars, loopVars, cont, target, traceVars,
                   losses, ghostVars>>

(* The decoder's goroutine has read a packet, and waits until the loop     *)
(* takes it.                                                               *)
Decode(c) ==
    /\ pc[Loop(c)] \notin {"idle", "consume", "consume_run", "ended"}
    /\ link[c] = "up"
    /\ ~held[c]
    /\ held' = [held EXCEPT ![c] = TRUE]
    /\ UNCHANGED <<outgoing, connVars, armed, pc, cont, target, traceVars,
                   crashed, losses, ghostVars>>

(* The loop takes the packet. *)
Take(c) ==
    /\ pc[Loop(c)] = "loop"
    /\ held[c]
    /\ held' = [held EXCEPT ![c] = FALSE]

(* A heartbeat in time: stop the timer and wait until its TTL ends. *)
Heartbeat(c) ==
    /\ Take(c)
    /\ armed' = [armed EXCEPT ![c] = FALSE]
    /\ Goto(Loop(c), "hb_wait")
    /\ UNCHANGED <<outgoing, connVars, cont, target, traceVars, crashed,
                   losses, ghostVars>>

(* Mutant: without HeartbeatTimer.Reset. *)
HeartbeatWaitedNoReset(c) ==
    /\ pc[Loop(c)] = "hb_wait"
    /\ attempt # c \/ LoopFails
    /\ Goto(Loop(c), "send_check")
    /\ UNCHANGED <<outgoing, connVars, loopVars, cont, target, traceVars,
                   crashed, losses, ghostVars>>

(* Reset the timer and send a heartbeat back.  The TTL is 8 s; unless the   *)
(* clocks of the nodes differ, a Connect request is answered before.        *)
HeartbeatWaited(c) ==
    /\ pc[Loop(c)] = "hb_wait"
    /\ attempt # c \/ LoopFails
    /\ armed' = [armed EXCEPT ![c] = TRUE]
    /\ Goto(Loop(c), "send_check")
    /\ UNCHANGED <<outgoing, connVars, held, cont, target, traceVars, crashed,
                   losses, ghostVars>>

(* The heartbeat could not be sent back: close the connection and go on.    *)
HeartbeatFails(c) ==
    /\ pc[Loop(c)] = "hb_fail"
    /\ CallClose(Loop(c), "loop")
    /\ UNCHANGED <<outgoing, connVars, loopVars, target, traceVars, crashed,
                   losses, ghostVars>>

(* A heartbeat whose TTL is over closes the connection, and the loop goes   *)
(* on; a packet that cannot be handled closes it and ends the loop.         *)
PacketFails(c) ==
    /\ LoopFails
    /\ Take(c)
    /\ \E label \in {"loop", "ended"} : CallClose(Loop(c), label)
    /\ UNCHANGED <<outgoing, connVars, armed, target, traceVars, crashed,
                   losses, ghostVars>>

(* A tunnel event. *)
TunnelRead(c) ==
    /\ Tunnels
    /\ Take(c)
    /\ Goto(Loop(c), "tunnel")
    /\ UNCHANGED <<outgoing, connVars, armed, cont, target, traceVars,
                   crashed, losses, ghostVars>>

(* Node.AddTunnel sets the node active. *)
TunnelAdded(c) ==
    /\ pc[Loop(c)] = "tunnel"
    /\ active' = [active EXCEPT ![c] = TRUE]
    /\ Goto(Loop(c), "loop")
    /\ UNCHANGED <<outgoing, open, link, traced, loopVars, cont, target,
                   traceVars, crashed, losses, ghostVars>>

(* The decoder fails on a dead link, and Handle returns without a Close. *)
LoopEnds(c) ==
    /\ pc[Loop(c)] = "loop"
    /\ ~held[c] /\ link[c] # "up"
    /\ Goto(Loop(c), "ended")
    /\ UNCHANGED <<outgoing, connVars, loopVars, cont, target, traceVars,
                   crashed, losses, ghostVars>>

LoopStep(c) ==
    /\ ~crashed
    /\ \/ ConsumeCheck(c) \/ ConsumeRun(c) \/ Heartbeat(c) \/ HeartbeatWaited(c)
       \/ HeartbeatFails(c) \/ PacketFails(c) \/ TunnelRead(c) \/ TunnelAdded(c)
       \/ LoopEnds(c)
       \/ Send(Loop(c), c) \/ Close(Loop(c), c)

-----------------------------------------------------------------------------
(* The heartbeat timer.                                                    *)

(* It runs for twice the TTL (16 s), and so does not expire in the few      *)
(* statements of Wire, the two seconds of a Send, or the answer to a        *)
(* Connect request that follow its start.                                   *)
JustStarted(c) ==
    \/ pc[Loop(c)] \in {"idle", "consume", "consume_run", "hb_fail"} \cup SendPCs
    \/ attempt = c

TimerFires(c) ==
    /\ armed[c]
    /\ ~JustStarted(c)
    /\ pc[Timer(c)] = "idle"
    /\ EarlyTimer \/ link[c] # "up"
    /\ armed' = [armed EXCEPT ![c] = FALSE]
    /\ Goto(Timer(c), "expired")
    /\ UNCHANGED <<outgoing, connVars, held, cont, target, traceVars, crashed,
                   losses, ghostVars>>

TimerCallback(c) ==
    /\ pc[Timer(c)] = "expired"
    /\ \/ /\ open[c]
          /\ CallClose(Timer(c), "idle")
       \/ /\ ~open[c]
          /\ Goto(Timer(c), "idle")
          /\ UNCHANGED cont
    /\ UNCHANGED <<outgoing, connVars, loopVars, target, traceVars, crashed,
                   losses, ghostVars>>

TimerStep(c) ==
    ~crashed /\ (TimerFires(c) \/ TimerCallback(c) \/ Close(Timer(c), c))

-----------------------------------------------------------------------------
(* HandleDisconnect, and Networks.Close.                                   *)

CallDisconnect(d) ==
    /\ pc[Request(d)] = "idle"
    /\ target' = [target EXCEPT ![d] = outgoing]
    /\ Goto(Request(d), IF outgoing = Nil THEN "done" ELSE "untrace")
    /\ UNCHANGED <<outgoing, connVars, loopVars, cont, traceVars, crashed,
                   losses, ghostVars>>

Disconnect(d) ==
    /\ pc[Request(d)] = "untrace"
    /\ traced' = [traced EXCEPT ![target[d]] = FALSE]
    /\ CallClose(Request(d), "done")
    /\ UNCHANGED <<outgoing, open, link, active, loopVars, target, traceVars,
                   crashed, losses, ghostVars>>

RequestStep(d) ==
    ~crashed /\ (Disconnect(d) \/ Close(Request(d), target[d]))

-----------------------------------------------------------------------------
(* The tracer and TraceNodes.                                              *)

(* Ping succeeds: it fails at once if the node is active. *)
Ping ==
    /\ tracing # Nil
    /\ ~active[tracing]
    /\ pings < MaxPings
    /\ pings' = pings + 1
    /\ UNCHANGED <<outgoing, connVars, loopVars, pc, cont, target, tracing,
                   listening, attempt, crashed, losses, ghostVars>>

(* Run gets a result and has the node connected, through a Connect request *)
(* to this node itself, which may fail.                                    *)
Reconnect ==
    /\ pc[Tracer] = "idle"
    /\ listening
    /\ pings > 0
    /\ pings' = pings - 1
    /\ \/ \E c \in Conns \ OperatorConns :
          /\ pc[Wirer(c)] = "idle"
          /\ attempt' = c
          /\ pc' = [pc EXCEPT ![Wirer(c)] = "dial", ![Tracer] = "wait"]
       \/ /\ DialFails
          /\ UNCHANGED <<attempt, pc>>
    /\ UNCHANGED <<outgoing, connVars, loopVars, cont, target, tracing,
                   listening, crashed, losses, ghostVars>>

(* The answer to the Connect request. *)
Reconnected ==
    /\ pc[Tracer] = "wait"
    /\ \/ /\ pc[Wirer(attempt)] = "wired"
          /\ Goto(Tracer, "drop")
          /\ UNCHANGED attempt
       \/ /\ pc[Wirer(attempt)] = "failed"
          /\ Goto(Tracer, "idle")
          /\ attempt' = Nil
    /\ UNCHANGED <<outgoing, connVars, loopVars, cont, target, tracing, pings,
                   listening, crashed, losses, ghostVars>>

(* Untrace: whatever Conn of the node the tracer has by now. *)
Untrace ==
    /\ pc[Tracer] = "drop"
    /\ tracing' = Nil
    /\ attempt' = Nil
    /\ Goto(Tracer, "idle")
    /\ UNCHANGED <<outgoing, connVars, loopVars, cont, target, pings,
                   listening, crashed, losses, ghostVars>>

(* Run takes more than a second while another result arrives: the pubsub    *)
(* drops the result and stops the subscription.                             *)
TracerTimesOut ==
    /\ SlowTracer
    /\ pc[Tracer] # "idle"
    /\ pings > 0
    /\ pings' = pings - 1
    /\ listening' = FALSE
    /\ UNCHANGED <<outgoing, connVars, loopVars, pc, cont, target, tracing,
                   attempt, crashed, losses, ghostVars>>

TracerStep == ~crashed /\ (Reconnect \/ Reconnected \/ Untrace)

-----------------------------------------------------------------------------
(* The network. *)
LoseLink(c) ==
    /\ ~crashed
    /\ link[c] = "up"
    /\ losses < MaxLosses
    /\ link' = [link EXCEPT ![c] = "lost"]
    /\ losses' = losses + 1
    /\ UNCHANGED <<outgoing, open, active, traced, loopVars, pc, cont, target,
                   traceVars, crashed, ghostVars>>

Next ==
    \/ \E c \in Conns :
          \/ (~crashed /\ (CallWire(c) \/ Decode(c)))
          \/ WirerStep(c) \/ LoopStep(c) \/ TimerStep(c) \/ LoseLink(c)
    \/ \E d \in Requests : (~crashed /\ CallDisconnect(d)) \/ RequestStep(d)
    \/ TracerStep
    \/ ~crashed /\ (Ping \/ TracerTimesOut)

(* Goroutines and timers run, and pings of a node that is back succeed. *)
Fairness ==
    /\ \A c \in Conns :
          WF_vars(WirerStep(c)) /\ WF_vars(LoopStep(c)) /\ WF_vars(TimerStep(c))
    /\ \A d \in Requests : WF_vars(RequestStep(d))
    /\ WF_vars(TracerStep)
    /\ WF_vars(~crashed /\ Ping)

Spec == Init /\ [][Next]_vars
FairSpec == Spec /\ Fairness
-----------------------------------------------------------------------------
(* NodeRemoved is published at most once for a connection, whoever closes   *)
(* it (Conn.Close: "close and remove the connection, so we can also check   *)
(* if c.Conn == nil").                                                      *)
OneRemoval == \A c \in Conns : removals[c] <= 1

(* A connection that AddConn accepted and that is not closed is the one the *)
(* network holds: it is never replaced, so Disconnect and Networks.Close    *)
(* find every live connection.                                              *)
Accepted(c) ==
    pc[Wirer(c)] \in {"arm", "activate", "mark", "wired"} \cup SendPCs

NoOrphan == \A c \in Conns : Accepted(c) /\ open[c] => outgoing = c

(* The tracer only holds nodes whose connection is closed. *)
TracedIsClosed == tracing # Nil => ~open[tracing]

(* Nothing is under way. *)
Quiet ==
    /\ \A c \in Conns :
          /\ pc[Wirer(c)] \in {"idle", "wired", "failed"}
          /\ pc[Loop(c)] \in {"idle", "loop", "ended"}
          /\ pc[Timer(c)] = "idle"
    /\ \A d \in Requests : pc[Request(d)] \in {"idle", "done"}
    /\ ~crashed

Connected == outgoing # Nil /\ open[outgoing]

(* What the events NodeAdded and NodeRemoved tell once nothing is under     *)
(* way: a node that was added last is connected, through the connection     *)
(* added.  The converse is false: Conn.Close also publishes for connections *)
(* AddConn refused, and after another one was added.  But only the removal  *)
(* of another connection hides the one that is listed, never its own.       *)
ViewRight ==
    Quiet =>
       /\ seen = "added" => Connected /\ about = outgoing
       /\ Connected /\ seen # "added" => seen = "removed" /\ about # outgoing

(* A connection whose link is lost is closed, although Handle only returns. *)
LostIsClosed == \A c \in Conns : link[c] = "lost" ~> ~open[c] \/ crashed

(* "When a node get's traced is added back to the connection as soon as it  *)
(* online again" (unless the model has no more calls of Wire to make).      *)
Exhausted == \A c \in Conns \ OperatorConns : pc[Wirer(c)] \in {"wired", "failed"}

Recovers ==
    \A c \in Conns :
       outgoing = c /\ traced[c] /\ ~open[c] ~> Connected \/ Exhausted \/ crashed
=============================================================================
