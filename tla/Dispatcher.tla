----------------------------- MODULE Dispatcher -----------------------------
(***************************************************************************)
(* How connections are spread over the nodes: the tunnels a node is known  *)
(* to have (node.Node, fed by tunnel events), Dispatcher.GetNodeBalanced,   *)
(* which compares them, and Dispatcher.DialContext, which goes from node to *)
(* node until one connects or the request's deadline has passed.            *)
(*                                                                         *)
(* A dial is one SOCKS5 request to the local proxy: Socks5.Connect calls    *)
(* DialContext, Handle publishes the tunnel when it opens and when it       *)
(* closes.  A tunnel that goes through a remote node is a session of that   *)
(* node's proxy as well, which publishes its own events.  Each event        *)
(* travels in goroutines of its own: they arrive in any order.              *)
(***************************************************************************)
EXTENDS Integers, FiniteSets, Functions, TLC

CONSTANTS
    Remotes,   \* the remote nodes of the network
    Root,      \* the local node
    Dials,     \* SOCKS5 requests
    MaxFlaps,  \* bound: how often a remote node is lost
    Nil

ASSUME ConstantsAssumption ==
    /\ Root \notin Remotes /\ Nil \notin Remotes \cup {Root}
    /\ IsFiniteSet(Remotes) /\ IsFiniteSet(Dials) /\ MaxFlaps \in Nat

Nodes == Remotes \cup {Root}

(* A tunnel is named by the address it leads to: a remote node's proxy, or *)
(* the destination of the request, for which Root stands.                  *)
Targets == Nodes
Target(at, via) == IF at = Root THEN via ELSE Root

VARIABLES
    tunnels,  \* Node.tunnels: the copies of each target, 0 if it is not there
    up,       \* the remote nodes that are connected and active
    events,   \* tunnel events on their way
    dial,     \* per request: where DialContext is, and its locals
    helper,   \* per request and remote, the goroutine of socks5Dialer
    far       \* the sessions that proxies of remote nodes serve for us

vars == <<tunnels, up, events, dial, helper, far>>

DialPCs == {"idle", "scan", "dial", "wait", "open", "done"}
Results == {"none", "conn", "nil", "error"}
HelperPCs == {"none", "dialing", "refused", "dialled"}

(* Of a dial, expired tells that its context is done; history are calm     *)
(* (nothing has changed since its scan began) and steady (the remote nodes *)
(* that were up all along).                                                *)
TypeOK ==
    /\ tunnels \in [Nodes -> [Targets -> Nat]]
    /\ up \subseteq Remotes
    /\ events \subseteq [q : Dials, at : Nodes, t : Targets, op : {"added", "removed"}]
    /\ dial \in [Dials ->
         [pc : DialPCs, tried : SUBSET Nodes, left : SUBSET Remotes, tr : Int,
          twl : Int, cand : Remotes \cup {Nil}, via : Nodes \cup {Nil},
          result : Results, expired : BOOLEAN, calm : BOOLEAN, steady : SUBSET Remotes]]
    /\ helper \in [Dials -> [Remotes -> HelperPCs]]
    /\ far \subseteq Dials \X Remotes

Idle == [pc |-> "idle", tried |-> {}, left |-> {}, tr |-> 0, twl |-> 0,
         cand |-> Nil, via |-> Nil, result |-> "none",
         expired |-> FALSE, calm |-> FALSE, steady |-> {}]

(* A remote node may have a tunnel of its own. *)
Init ==
    /\ \E busy \in SUBSET Remotes :
         tunnels = [n \in Nodes |->
           [t \in Targets |-> IF n \in busy /\ t = Root THEN 1 ELSE 0]]
    /\ up = Remotes
    /\ events = {}
    /\ dial = [q \in Dials |-> Idle]
    /\ helper = [q \in Dials |-> [n \in Remotes |-> "none"]]
    /\ far = {}

Workload(n) == SumFunction(tunnels[n])

-----------------------------------------------------------------------------
(* Tunnel events and the nodes of the network.                             *)

(* What is published reaches those who listen; a node that is not          *)
(* connected sends its events to nobody.                                   *)
Published(q, at, op) ==
    IF at \in up \cup {Root}
      THEN {[q |-> q, at |-> at, t |-> Target(at, dial[q].via), op |-> op]} ELSE {}

(* What the scans have read may be out of date. *)
Disturb == dial' = [q \in Dials |-> [dial[q] EXCEPT !.calm = FALSE]]

AddTunnel(n, t) == tunnels' = [tunnels EXCEPT ![n][t] = @ + 1]

(* Mutant: a tunnel is deleted with all its copies. *)
RemoveTunnelAll(n, t) == tunnels' = [tunnels EXCEPT ![n][t] = 0]

(* It fails when there is no such tunnel. *)
RemoveTunnel(n, t) ==
    tunnels' = [tunnels EXCEPT ![n][t] = IF @ = 0 THEN 0 ELSE @ - 1]

(* UpdateNode, called by UpdateRoot and by HandleTunnel. *)
UpdateNode(e) ==
    /\ e \in events
    /\ events' = events \ {e}
    /\ IF e.op = "added" THEN AddTunnel(e.at, e.t) ELSE RemoveTunnel(e.at, e.t)
    /\ Disturb
    /\ UNCHANGED <<up, helper, far>>

(* The connection to a node ends, and what it had sent is lost. *)
NodeLost(n) ==
    /\ n \in up
    /\ up' = up \ {n}
    /\ events' = {e \in events : e.at # n}
    /\ dial' = [q \in Dials |-> [dial[q] EXCEPT !.calm = FALSE, !.steady = @ \ {n}]]
    /\ UNCHANGED <<tunnels, helper, far>>

(* It is connected again: AddConn gives it the tunnels it had. *)
NodeBack(n) ==
    /\ n \notin up
    /\ up' = up \cup {n}
    /\ Disturb
    /\ UNCHANGED <<tunnels, events, helper, far>>

-----------------------------------------------------------------------------
(* GetNodeBalanced, node by node as Nodes returns them.                    *)

(* A scan begins: the nodes of the network and the root's workload. *)
Scanning(d) ==
    [Idle EXCEPT !.pc = "scan", !.left = up, !.tr = Workload(Root), !.calm = TRUE,
                 !.tried = d.tried, !.expired = d.expired, !.steady = d.steady]

Call(q) ==
    /\ dial[q].pc = "idle"
    /\ dial' = [dial EXCEPT ![q] = [Scanning(@) EXCEPT !.steady = up]]
    /\ UNCHANGED <<tunnels, up, events, helper, far>>

(* Mutant: the load of nodes that were tried is not summed up. *)
WeighedSkips(d, n) ==
    IF n \notin up \/ n \in d.tried THEN d
    ELSE [d EXCEPT !.twl = @ + Workload(n),
                   !.cand = IF @ = Nil \/ Workload(n) < Workload(@) THEN n ELSE @]

(* One round of the loop. *)
Weighed(d, n) ==
    IF n \notin up THEN d
    ELSE [d EXCEPT !.twl = @ + Workload(n),
                   !.cand = IF n \in d.tried THEN @
                            ELSE IF @ = Nil \/ Workload(n) < Workload(@) THEN n ELSE @]

Weigh(q, n) ==
    /\ dial[q].pc = "scan"
    /\ n \in dial[q].left
    /\ dial' = [dial EXCEPT ![q] = [Weighed(dial[q], n) EXCEPT !.left = @ \ {n}]]
    /\ UNCHANGED <<tunnels, up, events, helper, far>>

(* Mutant: no way back to a candidate that is busier than the root. *)
ChosenGivesUp(d) ==
    IF d.cand # Nil /\ Workload(d.cand) <= d.tr - d.twl THEN d.cand
    ELSE IF Root \notin d.tried THEN Root ELSE Nil

(* The node it returns, Nil if it returns an error. *)
Chosen(d) ==
    IF d.cand = Nil THEN (IF Root \in d.tried THEN Nil ELSE Root)
    ELSE IF Workload(d.cand) > d.tr - d.twl /\ Root \notin d.tried THEN Root
    ELSE d.cand

(* nodeFinderFunc excludes the node from the next scan; without a node     *)
(* DialContext returns the last connection error.                          *)
Choose(q) ==
    /\ dial[q].pc = "scan" /\ dial[q].left = {}
    /\ LET d == dial[q]
           n == Chosen(d)
       IN  dial' = [dial EXCEPT ![q] =
             IF n = Nil THEN [d EXCEPT !.pc = "done", !.result = "error"]
             ELSE [d EXCEPT !.pc = "dial", !.via = n, !.tried = @ \cup {n},
                            !.tr = 0, !.twl = 0, !.cand = Nil, !.calm = FALSE]]
    /\ UNCHANGED <<tunnels, up, events, helper, far>>

-----------------------------------------------------------------------------
(* DialContext.                                                            *)

(* A connection error: the next scan begins. *)
Fails(q) ==
    /\ dial' = [dial EXCEPT ![q] = Scanning(@)]
    /\ UNCHANGED events

(* It returns a connection, and Handle publishes the tunnel. *)
Connected(q) ==
    /\ dial' = [dial EXCEPT ![q] =
         [Idle EXCEPT !.pc = "open", !.via = dial[q].via, !.result = "conn"]]
    /\ events' = events \cup Published(q, Root, "added")

(* The local dialer, whose errors are never the bare error of a context. *)
DialLocal(q) ==
    /\ dial[q].pc = "dial" /\ dial[q].via = Root
    /\ \/ ~dial[q].expired /\ Connected(q)
       \/ Fails(q)
    /\ UNCHANGED <<tunnels, up, helper, far>>

(* A remote node's proxy is dialled by a goroutine. *)
DialRemote(q) ==
    /\ dial[q].pc = "dial" /\ dial[q].via \in Remotes
    /\ dial' = [dial EXCEPT ![q].pc = "wait"]
    /\ helper' = [helper EXCEPT ![q][dial[q].via] = "dialing"]
    /\ UNCHANGED <<tunnels, up, events, far>>

(* Its Dial returns, and it sends on one of two unbuffered channels. *)
HelperDial(q, n) ==
    /\ helper[q][n] = "dialing"
    /\ \/ /\ helper' = [helper EXCEPT ![q][n] = "dialled"]
          /\ far' = far \cup {<<q, n>>}
          /\ events' = events \cup Published(q, n, "added")
       \/ /\ helper' = [helper EXCEPT ![q][n] = "refused"]
          /\ UNCHANGED <<far, events>>
    /\ UNCHANGED <<tunnels, up, dial>>

(* The select of socks5Dialer.DialContext receives from it... *)
Receive(q) ==
    LET n == dial[q].via IN
    /\ dial[q].pc = "wait"
    /\ \/ helper[q][n] = "dialled" /\ Connected(q)
       \/ helper[q][n] = "refused" /\ Fails(q)
    /\ helper' = [helper EXCEPT ![q][n] = "none"]
    /\ UNCHANGED <<tunnels, up, far>>

(* Mutant: an ended context is taken for a connection error. *)
AbandonedTriesOn(d) == Scanning(d)

(* DialContext returns err, which is the nil error of dialerForNode. *)
Abandoned(d) == [Idle EXCEPT !.pc = "done", !.via = d.via, !.result = "nil"]

(* ... or finds the context done, and leaves the goroutine behind. *)
ContextDone(q) ==
    /\ dial[q].pc = "wait" /\ dial[q].expired
    /\ dial' = [dial EXCEPT ![q] = Abandoned(@)]
    /\ UNCHANGED <<tunnels, up, events, helper, far>>

(* The ten seconds of the request are over.  Nothing looks at its context  *)
(* during a scan, so a deadline then is one just after it.                 *)
Expire(q) ==
    /\ dial[q].pc \in {"dial", "wait"}
    /\ dial' = [dial EXCEPT ![q].expired = TRUE]
    /\ UNCHANGED <<tunnels, up, events, helper, far>>

(* The session ends, and Handle publishes that. *)
Hangup(q) ==
    /\ dial[q].pc = "open"
    /\ dial' = [dial EXCEPT ![q] = [Idle EXCEPT !.pc = "done", !.result = "conn"]]
    /\ events' = events \cup Published(q, Root, "removed")
    /\ UNCHANGED <<tunnels, up, helper, far>>

(* The proxy of the remote node ends its session: its client has gone, or  *)
(* never used it and the two minutes are over.                             *)
FarEnd(q, n) ==
    /\ <<q, n>> \in far /\ dial[q].pc = "done"
    /\ far' = far \ {<<q, n>>}
    /\ events' = events \cup Published(q, n, "removed")
    /\ UNCHANGED <<tunnels, up, dial, helper>>

DialStep(q) ==
    \/ Choose(q) \/ DialLocal(q) \/ DialRemote(q) \/ Receive(q) \/ ContextDone(q)
    \/ \E n \in Remotes : Weigh(q, n)

(* Bounded losses. *)
Next ==
    \/ \E q \in Dials :
         \/ Call(q) \/ DialStep(q) \/ Expire(q) \/ Hangup(q)
         \/ \E n \in Remotes : HelperDial(q, n) \/ FarEnd(q, n)
    \/ \E e \in events : UpdateNode(e)
    \/ \E n \in Remotes : (Cardinality(Remotes \ up) < MaxFlaps /\ NodeLost(n)) \/ NodeBack(n)

Spec == Init /\ [][Next]_vars

Symmetry == Permutations(Dials) \cup Permutations(Remotes)

-----------------------------------------------------------------------------
(* Properties.                                                             *)

(* A dial fails only after the local gateway and every remote node that    *)
(* was connected all the time have failed it, whatever the others did.     *)
(* DialContext (dispatcher.go:201): "try with another node if possible".   *)
TriesAll ==
    \A q \in Dials : dial[q].result = "error" => {Root} \cup dial[q].steady \subseteq dial[q].tried

(* When nothing changed during the scan, GetNodeBalanced returns the least *)
(* loaded node that was not tried: the root, if it has less of its own     *)
(* than every remote node (dispatcher.go:129, 141), or else one of these.  *)
(* This is the code.  Its comment (dispatcher.go:85) says that it "returns *)
(* an error if no candidate is found, either because none was provided or  *)
(* because no entry's workload was under the treshold": in both cases it   *)
(* returns the root without an error, unless the root was tried before;    *)
(* then a candidate above the threshold is returned, without an error too, *)
(* and only without a candidate is there one (dispatcher.go:126, 138).     *)
ChoosesLeast ==
    \A q \in Dials :
      LET d == dial[q]
          local == Workload(Root) - SumFunctionOnSet([n \in Nodes |-> Workload(n)], up)
          free == up \ d.tried
          least == {n \in free : \A m \in free : Workload(n) <= Workload(m)}
          rootWins == Root \notin d.tried /\ \A n \in free : local < Workload(n)
      IN  d.pc = "scan" /\ d.left = {} /\ d.calm
            => IF rootWins THEN Chosen(d) = Root
               ELSE IF free = {} THEN Chosen(d) = Nil
               ELSE Chosen(d) \in least

(* A goroutine that dials through a remote proxy outlives its DialContext  *)
(* (and holds a connection nobody closes) only when the deadline passed    *)
(* during that very dial, and then the caller gets nothing: it never opens *)
(* a tunnel elsewhere at the same time (dispatcher.go:197, 244).           *)
StrayIsAbandoned ==
    \A q \in Dials, n \in Remotes :
      helper[q][n] \in {"dialing", "refused", "dialled"}
        => dial[q].via = n /\ (dial[q].pc = "wait" \/ dial[q].result = "nil")

(* When its events have arrived, in whatever order, the root's tunnels     *)
(* (node.go:143, 173) count at least the sessions that are open.  It may   *)
(* count more, for ever: an addition that arrives after its removal is not *)
(* taken back, and the property allows for that.                           *)
RootCounts ==
    (\A e \in events : e.at # Root)
      => \A t \in Targets :
           tunnels[Root][t] >= Cardinality({q \in Dials : dial[q].pc = "open" /\ dial[q].via = t})

=============================================================================
