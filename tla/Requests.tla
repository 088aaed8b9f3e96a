------------------------------ MODULE Requests ------------------------------
(***************************************************************************)
(* What operators ask of a node, and what they learn: the accept loop that *)
(* greets every client, Handle on the node's side, and the senders         *)
(* Connect, Disconnect, Ctrl and Monitor on the other, over connections    *)
(* whose packets are made by module Messages.  A target of Connect may be  *)
(* reachable, refuse, or accept and say nothing.                           *)
(***************************************************************************)
EXTENDS Messages, FiniteSets, SequencesExt

CONSTANTS
    Clients,
    Samples,   \* payloads of every message, with the message
    Asks,                         \* what each may ask: pairs of a message and its payload
    Reachable, Silent, Refusing   \* the targets of Connect; numbers, not 0

Targets == Reachable \cup Silent \cup Refusing
ASSUME RequestsAssumption ==
    /\ Targets \subseteq Nat \ {0}
    /\ \A m \in Samples : m[1] \in DOMAIN Payloads /\ m[2] \in Payloads[m[1]]
    /\ \A c \in Clients : \A a \in Asks[c] :
         /\ a = <<a[1], a[2]>> /\ a[2] \in Payloads[a[1]]
         /\ a[1] \in {"Connect", "Disconnect", "Ctrl", "Monitor", "Heartbeat"}
         /\ a[1] = "Connect" => a[2].Target \in Targets
         /\ a[1] = "Ctrl" => a[2].Operation \in 0..1   \* nothing, or stop: see Lifecycle for restart

VARIABLES
    accept,    \* the accept loop: accept, hello, failed, ended
    greeted,   \* whom it sends its hello to
    backlog,   \* connections that nobody has accepted
    listening, \* the listener is open
    serve,     \* ListenAndServe: wait, closing, returned
    ctxDone,   \* the context of Run
    refused,   \* an error of ln.Accept on the open listener
    client,    \* idle, hello, ok, failed, dead
    ask,       \* what the client asks: a message, its payload
    up, down,  \* packets on their way to the node, and to the client
    cOpen, sOpen,  \* each end of the connection
    handler,   \* the goroutine of Handle: none, read, dial, add, notify, activate, reply, stuck, done
    wired,     \* the connection that a request opens: none, open, closed; and whether its node is active
    outgoing   \* Network.Outgoing: by whose request, per target

vars == <<accept, greeted, backlog, listening, serve, refused, ctxDone, client, ask,
          up, down, cOpen, sOpen, handler, wired, outgoing>>
LoopVars == <<accept, greeted, backlog, listening, serve, refused>>
ClientVars == <<client, ask>>
NetVars == <<wired, outgoing>>

Nobody == "nobody"
ASSUME NobodyAssumption == Nobody \notin Clients

Init ==
    /\ accept = "accept" /\ greeted = Nobody /\ backlog = <<>> /\ listening = TRUE
    /\ serve = "wait" /\ refused = FALSE /\ ctxDone = FALSE
    /\ client = [c \in Clients |-> "idle"] /\ ask = [c \in Clients |-> <<"none", NoMessages>>]
    /\ up = [c \in Clients |-> <<>>] /\ down = [c \in Clients |-> <<>>]
    /\ cOpen = [c \in Clients |-> FALSE] /\ sOpen = [c \in Clients |-> FALSE]
    /\ handler = [c \in Clients |-> "none"]
    /\ wired = [c \in Clients |-> [conn |-> "none", active |-> 0]]
    /\ outgoing = [t \in Targets |-> Nobody]

-----------------------------------------------------------------------------
(* The clients: senders.go.                                                *)

Finish(c, result) ==
    /\ client' = [client EXCEPT ![c] = result]
    /\ cOpen' = [cOpen EXCEPT ![c] = FALSE]

Dial(c) ==
    /\ client[c] = "idle"
    /\ \E a \in Asks[c] : ask' = [ask EXCEPT ![c] = a]
    /\ IF listening
         THEN /\ client' = [client EXCEPT ![c] = "hello"]
              /\ cOpen' = [cOpen EXCEPT ![c] = TRUE] /\ sOpen' = [sOpen EXCEPT ![c] = TRUE]
              /\ backlog' = Append(backlog, c)
         ELSE Finish(c, "failed") /\ UNCHANGED <<sOpen, backlog>>
    /\ UNCHANGED <<accept, greeted, listening, serve, refused, ctxDone, up, down, handler, NetVars>>

(* RecvHello waits without a deadline; then the request is encoded and     *)
(* sent.  Ctrl does not wait for an answer, nor does Monitor, which leaves *)
(* its connection to a goroutine.                                          *)
RecvHello(c) ==
    LET h == Decode(Head(down[c]), "PayloadHello")
        e == EncodeDefault(<<PayloadType[ask[c][1]], ask[c][2]>>, ask[c][1])
    IN  /\ client[c] = "hello" /\ down[c] # <<>>
        /\ down' = [down EXCEPT ![c] = Tail(@)]
        /\ IF h.err # "" \/ e.err # "" THEN Finish(c, "failed") /\ UNCHANGED up
           ELSE /\ up' = [up EXCEPT ![c] = Append(@, e.val)]
                /\ CASE ask[c][1] = "Ctrl" -> Finish(c, "ok")
                     [] ask[c][1] = "Monitor" -> client' = [client EXCEPT ![c] = "ok"] /\ UNCHANGED cOpen
                     [] OTHER -> client' = [client EXCEPT ![c] = "answer"] /\ UNCHANGED cOpen
        /\ UNCHANGED <<LoopVars, ctxDone, ask, sOpen, handler, NetVars>>

RecvAnswer(c) ==
    LET type == IF ask[c][1] = "Heartbeat" THEN "PayloadHeartbeat" ELSE "PayloadNode"
        d == Decode(Head(down[c]), type)
    IN  /\ client[c] = "answer" /\ down[c] # <<>>
        /\ down' = [down EXCEPT ![c] = Tail(@)]
        /\ Finish(c, IF d.err = "" THEN "ok" ELSE "failed")
        /\ UNCHANGED <<LoopVars, ctxDone, ask, up, sOpen, handler, NetVars>>

(* Recv fails at the end of the stream. *)
RecvFails(c) ==
    /\ client[c] \in {"hello", "answer"} /\ down[c] = <<>> /\ ~sOpen[c]
    /\ Finish(c, "failed")
    /\ UNCHANGED <<LoopVars, ctxDone, ask, up, down, sOpen, handler, NetVars>>

(* The client's program, or its link, dies. *)
Die(c) ==
    /\ client[c] \in {"hello", "answer"}
    /\ Finish(c, "dead")
    /\ UNCHANGED <<LoopVars, ctxDone, ask, up, down, sOpen, handler, NetVars>>

-----------------------------------------------------------------------------
(* The accept loop and ListenAndServe.                                     *)

Accept ==
    /\ accept = "accept" /\ listening /\ backlog # <<>>
    /\ accept' = "hello" /\ greeted' = Head(backlog) /\ backlog' = Tail(backlog)
    /\ UNCHANGED <<listening, serve, refused, ctxDone, ClientVars, up, down, cOpen, sOpen, handler, NetVars>>

AcceptFails ==
    /\ accept = "accept" /\ accept' = "failed"
    /\ UNCHANGED <<greeted, backlog, listening, serve, ctxDone, ClientVars, up, down, cOpen, sOpen,
                   handler, NetVars>>

(* ln.Accept fails once the listener is closed, and may fail while it is   *)
(* open, as when the process has no file descriptor left.                  *)
AcceptClosed == ~listening /\ AcceptFails /\ UNCHANGED refused
AcceptRefused == listening /\ AcceptFails /\ refused' = TRUE

(* Mutant: the loop returns after every hello. *)
AfterHelloReturns(sent) == accept' = "failed"

AfterHello(sent) == accept' = IF sent THEN "accept" ELSE "failed"

(* The hello of a dead client may still go to a buffer.  A connection whose *)
(* hello failed is not closed.                                             *)
SendHello ==
    /\ accept = "hello"
    /\ \E sent \in IF cOpen[greeted] THEN {TRUE} ELSE BOOLEAN :
         /\ AfterHello(sent)
         /\ IF sent
              THEN /\ down' = [down EXCEPT ![greeted] = Append(@,
                               EncodeDefault(<<"PayloadHello", [PPort |-> 1, BPort |-> 2]>>, "Hello").val)]
                   /\ handler' = [handler EXCEPT ![greeted] = "read"]
              ELSE UNCHANGED <<down, handler>>
    /\ greeted' = Nobody
    /\ UNCHANGED <<backlog, listening, serve, refused, ctxDone, ClientVars, up, cOpen, sOpen, NetVars>>

(* Closing the listener resets the connections that nobody accepted. *)
CloseListener ==
    /\ listening' = FALSE
    /\ sOpen' = [c \in Clients |-> sOpen[c] /\ ~Contains(backlog, c)]
    /\ backlog' = <<>>

(* A failed accept loop returns its error from ListenAndServe, and run     *)
(* closes the node: the context ends.                                      *)
ServeFails ==
    /\ serve = "wait" /\ accept = "failed"
    /\ CloseListener
    /\ serve' = "returned" /\ accept' = "ended" /\ ctxDone' = TRUE
    /\ UNCHANGED <<greeted, refused, ClientVars, up, down, cOpen, handler, NetVars>>

ServeStops ==
    /\ serve = "wait" /\ ctxDone
    /\ CloseListener
    /\ serve' = "closing"
    /\ UNCHANGED <<accept, greeted, refused, ctxDone, ClientVars, up, down, cOpen, handler, NetVars>>

ServeReturns ==
    /\ serve = "closing" /\ accept = "failed"
    /\ serve' = "returned" /\ accept' = "ended"
    /\ UNCHANGED <<greeted, backlog, listening, refused, ctxDone, ClientVars, up, down, cOpen, sOpen,
                   handler, NetVars>>

-----------------------------------------------------------------------------
(* Handle.                                                                 *)

(* Mutant: a handler that returns without its deferred Close. *)
CloseConnNot(c) == handler' = [handler EXCEPT ![c] = "done"] /\ UNCHANGED sOpen

(* A handler that is through with its connection goes back to its loop,    *)
(* which finds it closed.                                                  *)
CloseConn(c) ==
    /\ sOpen' = [sOpen EXCEPT ![c] = FALSE]
    /\ handler' = [handler EXCEPT ![c] = "done"]

Reply(c, pl, msg) ==
    down' = IF sOpen[c] THEN [down EXCEPT ![c] = Append(@, EncodeDefault(pl, msg).val)] ELSE down

(* The end of the packets. *)
HandleEnd(c) ==
    /\ handler[c] = "read" /\ up[c] = <<>> /\ ~cOpen[c]
    /\ handler' = [handler EXCEPT ![c] = "done"]
    /\ UNCHANGED <<LoopVars, ctxDone, ClientVars, up, down, cOpen, sOpen, NetVars>>

Received(c, msg) ==
    /\ handler[c] = "read" /\ up[c] # <<>>
    /\ DecodeHead(Head(up[c])).val.ID = msg
    /\ up' = [up EXCEPT ![c] = Tail(@)]
Payload(c, type) == Decode(Head(up[c]), type).val

(* Close stops the node: the context ends.  When it is ending already,     *)
(* nobody receives from stop and the handler waits for ever.               *)
HandleCtrl(c) ==
    /\ Received(c, "Ctrl")
    /\ Payload(c, "PayloadCtrl").Operation = 1
    /\ ctxDone' = TRUE
    /\ handler' = [handler EXCEPT ![c] = IF ctxDone THEN "stuck" ELSE "read"]
    /\ UNCHANGED <<LoopVars, ClientVars, down, cOpen, sOpen, NetVars>>

(* ServeMonitor runs in a goroutine, and closes the connection if it does  *)
(* not know the feature; the stream is the subject of module Inspection.   *)
HandleMonitor(c) ==
    /\ Received(c, "Monitor")
    /\ sOpen' = [sOpen EXCEPT ![c] = Payload(c, "PayloadMonitor").Feature \in 1..2]
    /\ UNCHANGED <<LoopVars, ctxDone, ClientVars, down, cOpen, handler, NetVars>>

(* A peer's heartbeat is answered; on this side there is no timer. *)
HandleHeartbeat(c) ==
    LET pl == Payload(c, "PayloadHeartbeat")
    IN  /\ Received(c, "Heartbeat")
        /\ Reply(c, <<"PayloadHeartbeat", [pl EXCEPT !.Hops = @ + 1, !.TTL = 2]>>, "Heartbeat")
        /\ UNCHANGED <<LoopVars, ctxDone, ClientVars, cOpen, sOpen, handler, NetVars>>

(* composeNode: a node's tunnels do not matter to the answer. *)
ReplyNode(c, w, t) ==
    Reply(c, <<"PayloadNode", [ID |-> t, BAddr |-> t, PAddr |-> t, Active |-> w.active,
                               Tunnels |-> <<>>]>>, "NodeStatus")
Closed(w) == IF w.conn = "open" THEN [conn |-> "closed", active |-> 0] ELSE w

HandleDisconnect(c) ==
    LET id == Payload(c, "PayloadDisconnect").ID
        o == outgoing[id]
    IN  /\ Received(c, "Disconnect")
        /\ IF id \in Targets /\ o # Nobody
             THEN /\ wired' = [wired EXCEPT ![o] = Closed(@)]
                  /\ ReplyNode(c, wired'[o], id)
             ELSE UNCHANGED <<wired, down>>
        /\ CloseConn(c)
        /\ UNCHANGED <<LoopVars, ctxDone, ClientVars, cOpen, outgoing>>

(* HandleConnect, and Wire: it dials the target and waits for its hello. *)
HandleConnect(c) ==
    /\ Received(c, "Connect")
    /\ handler' = [handler EXCEPT ![c] = "dial"]
    /\ UNCHANGED <<LoopVars, ctxDone, ClientVars, down, cOpen, sOpen, NetVars>>

Target(c) == ask[c][2].Target

WireDial(c) ==
    /\ handler[c] = "dial"
    /\ CASE Target(c) \in Reachable ->
              handler' = [handler EXCEPT ![c] = "add"] /\ UNCHANGED sOpen
         [] Target(c) \in Refusing -> CloseConn(c)
         [] OTHER -> handler' = [handler EXCEPT ![c] = "stuck"] /\ UNCHANGED sOpen
    /\ UNCHANGED <<LoopVars, ctxDone, ClientVars, up, down, cOpen, NetVars>>

(* Mutant: without the look at the connection that is there. *)
AlreadyNever(t) == FALSE

Already(t) == outgoing[t] # Nobody /\ wired[outgoing[t]].conn = "open"

AddConn(c) ==
    /\ handler[c] = "add"
    /\ IF Already(Target(c)) THEN CloseConn(c) /\ UNCHANGED NetVars
       ELSE /\ outgoing' = [outgoing EXCEPT ![Target(c)] = c]
            /\ wired' = [wired EXCEPT ![c].conn = "open"]
            /\ handler' = [handler EXCEPT ![c] = "notify"] /\ UNCHANGED sOpen
    /\ UNCHANGED <<LoopVars, ctxDone, ClientVars, up, down, cOpen>>

(* The notify and heartbeat packets: they fail on a closed connection, or  *)
(* on one that breaks.                                                     *)
WireSend(c) ==
    /\ handler[c] = "notify"
    /\ \/ wired[c].conn = "open"
          /\ handler' = [handler EXCEPT ![c] = "activate"] /\ UNCHANGED <<sOpen, wired>>
       \/ wired' = [wired EXCEPT ![c] = Closed(@)] /\ CloseConn(c)
    /\ UNCHANGED <<LoopVars, ctxDone, ClientVars, up, down, cOpen, outgoing>>

Activate(c) ==
    /\ handler[c] = "activate"
    /\ wired' = [wired EXCEPT ![c].active = 1]
    /\ handler' = [handler EXCEPT ![c] = "reply"]
    /\ UNCHANGED <<LoopVars, ctxDone, ClientVars, up, down, cOpen, sOpen, outgoing>>

ReplyConnect(c) ==
    /\ handler[c] = "reply"
    /\ ReplyNode(c, wired[c], Target(c))
    /\ CloseConn(c)
    /\ UNCHANGED <<LoopVars, ctxDone, ClientVars, up, cOpen, NetVars>>

(* The connection to the target ends: Handle's, or the heartbeat timer's.  *)
LinkLost(c) ==
    /\ wired[c].conn = "open" /\ handler[c] \in {"reply", "done"}
    /\ wired' = [wired EXCEPT ![c] = Closed(@)]
    /\ UNCHANGED <<LoopVars, ctxDone, ClientVars, up, down, cOpen, sOpen, handler, outgoing>>

Work(c) ==
    \/ RecvHello(c) \/ RecvAnswer(c) \/ RecvFails(c)
    \/ HandleEnd(c) \/ HandleCtrl(c) \/ HandleMonitor(c) \/ HandleHeartbeat(c)
    \/ HandleConnect(c) \/ HandleDisconnect(c)
    \/ WireDial(c) \/ AddConn(c) \/ WireSend(c) \/ Activate(c) \/ ReplyConnect(c)
Loop == Accept \/ SendHello \/ AcceptClosed \/ ServeFails \/ ServeStops \/ ServeReturns
Next == Loop \/ AcceptRefused \/ \E c \in Clients : Dial(c) \/ Die(c) \/ Work(c) \/ LinkLost(c)

Spec == Init /\ [][Next]_vars

(* Some goroutine of the node or of a client goes on when one can, which   *)
(* is enough as each ends after a few steps; nobody has to ask or to die, nor   *)
(* does an open listener have to fail.                                     *)
FairSpec == Spec /\ WF_vars(Loop \/ \E c \in Clients : Work(c))

-----------------------------------------------------------------------------
(* Properties.                                                             *)

(* Every packet under way decodes into the type its reader asks for (a     *)
(* wrong one is an error, one without a decoder a panic: network.go:199),  *)
(* and a request into what was asked.  No message, whatever fields are     *)
(* zero, loses a field or takes one for another, but for the numbers of    *)
(* hops and copies that no int32 holds: checked once, where nobody has     *)
(* asked yet.                                                              *)
Expected(c) ==
    IF client[c] = "hello" THEN "PayloadHello"
    ELSE IF ask[c][1] = "Heartbeat" THEN "PayloadHeartbeat" ELSE "PayloadNode"
Understood ==
    /\ (\A c \in Clients : client[c] = "idle") => \A m \in Samples : RoundTrips(m[1], m[2])
    /\ \A c \in Clients :
         /\ down[c] # <<>> /\ client[c] \in {"hello", "answer"} =>
              Decode(Head(down[c]), Expected(c)).err = ""
         /\ up[c] # <<>> =>
              Decode(Head(up[c]), PayloadType[ask[c][1]]) = Good(Carried(ask[c][1], ask[c][2]))

(* A target never has two connections at once, whoever asked for them. *)
OneConnection ==
    \A c, d \in Clients :
      c # d /\ wired[c].conn = "open" /\ wired[d].conn = "open" => Target(c) # Target(d)

(* The accept loop ends, the listener is closed or the context of Run is   *)
(* over only through a client that died before its hello                   *)
(* (booster.go:268), a request to stop, or an error of ln.Accept on the    *)
(* open listener (booster.go:262): no other client, whatever it asks and   *)
(* wherever it leaves, ends the node.                                      *)
LoopEndCauses ==
    accept \in {"failed", "ended"} \/ ~listening \/ ctxDone =>
      \/ refused
      \/ \E c \in Clients : client[c] = "dead" /\ handler[c] = "none"
      \/ \E c \in Clients : client[c] = "ok" /\ ask[c][1] = "Ctrl"

(* Whoever dials or asks gets an answer or an error in the end, unless the *)
(* target of its Connect says no hello (booster.go:299).                   *)
Answered ==
    <>[](\A c \in Clients : client[c] \in {"hello", "answer"} =>
           ask[c][1] = "Connect" /\ Target(c) \in Silent)

=============================================================================
