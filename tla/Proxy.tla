-------------------------------- MODULE Proxy --------------------------------
(***************************************************************************)
(* One session of the SOCKS5 proxy, from the accept loop to its end:       *)
(* Handle negotiates, reads the request, dials, and ProxyData copies bytes *)
(* both ways in chunks, with two goroutines that report to a channel and a *)
(* timer for idle connections, while the bandwidth of each direction is    *)
(* measured by a ticker.  Run may stop the proxy at any time.              *)
(***************************************************************************)
EXTENDS Integers, Sequences

CONSTANTS
    Chunk,      \* ChunkSize: bytes of a CopyN
    MaxBytes,   \* bytes that are sent at most, per direction
    Metered,    \* directions whose bandwidth is measured: both, in the code
    Addresses   \* destinations: kind, bytes and port

Base == 256
Directions == {"download", "upload"}
ASSUME ProxyAssumption ==
    Chunk \in Nat \ {0} /\ MaxBytes \in [Directions -> Nat] /\ Metered \subseteq Directions

(* What EncodeHostBinary and EncodePortBinary do not refuse.               *)
ASSUME AddressesAssumption ==
    \A a \in Addresses :
       /\ a = [kind |-> a.kind, bytes |-> a.bytes, port |-> a.port]
       /\ a.bytes \in Seq(Nat) /\ a.port \in 1..(Base * Base - 1)
       /\ \/ a.kind = "ip4" /\ Len(a.bytes) = 4
          \/ a.kind = "ip6" /\ Len(a.bytes) = 16
          \/ a.kind = "fqdn" /\ Len(a.bytes) < Base

(* The near ends of the two connections: src, the client's, and dst. *)
From == [download |-> "dst", upload |-> "src"]
To == [download |-> "src", upload |-> "dst"]

VARIABLES
    run,      \* ListenAndServe: serving, ended
    ticking,  \* the tickers run
    stage,    \* Handle: none, negotiate, request, dial, start, proxy, stop, closeDst, closeSrc, done
    asked,    \* the command of the request
    reply,    \* what Handle has last written to the client
    open,     \* near ends that are open
    ended,    \* far ends that send no more
    broken,   \* connections that broke: reset, timed out
    unread,   \* bytes that a near end can read, per direction
    sent, got,    \* bytes that the far ends sent, and were given
    copy,     \* per direction: off, copy, ok or failed (a result to report)
    n,        \* bytes of the CopyN that is running
    c,        \* the channel of results
    timer,    \* off, armed, fired
    cut,      \* history: the timer has closed the connections
    fresh,    \* history: bytes moved since the timer was set, while ProxyData runs
    events,   \* tunnel events that were published
    cause,    \* history: the result that ended ProxyData, until the tunnel is revoked
    meter     \* per direction: N, t, prev, the N that a tick has read; the sum and Tot it published

vars == <<run, ticking, stage, asked, reply, open, ended, broken, unread, sent, got,
          copy, n, c, timer, cut, fresh, events, cause, meter>>
ServeVars == <<run, ticking>>
AskVars == <<asked, reply>>
EndVars == <<ended, broken, sent>>
CopyVars == <<unread, got, copy, n>>
LoopVars == <<timer, cut, fresh, events, cause>>

None == "none"

-----------------------------------------------------------------------------
(* Addresses: the encoding of dialers, and what ReadAddress makes of it.   *)

EncodePort(p) == <<p \div Base, p % Base>>
EncodeHost(a) ==
    CASE a.kind = "ip4"  -> <<1>> \o a.bytes
      [] a.kind = "ip6"  -> <<4>> \o a.bytes
      [] a.kind = "fqdn" -> <<3, Len(a.bytes)>> \o a.bytes
EncodeAddress(a) == EncodeHost(a) \o EncodePort(a.port)

ReadHost(b) ==
    CASE b[1] = 1 -> [kind |-> "ip4", from |-> 2, len |-> 4]
      [] b[1] = 4 -> [kind |-> "ip6", from |-> 2, len |-> 16]
      [] b[1] = 3 -> [kind |-> "fqdn", from |-> 3, len |-> b[2]]
ReadPort(b, i) == b[i] * Base + b[i + 1]
ReadAddress(b) ==
    LET h == ReadHost(b)
    IN  [kind |-> h.kind, bytes |-> SubSeq(b, h.from, h.from + h.len - 1),
         port |-> ReadPort(b, h.from + h.len)]

-----------------------------------------------------------------------------
Zero == [d \in Directions |-> 0]

Init ==
    /\ run = "serving" /\ ticking = TRUE /\ stage = None
    /\ asked = None /\ reply = None
    /\ open = {} /\ ended = {} /\ broken = {}
    /\ unread = Zero /\ sent = Zero /\ got = Zero
    /\ copy = [d \in Directions |-> "off"] /\ n = Zero /\ c = <<>>
    /\ timer = "off" /\ cut = FALSE /\ fresh = Zero /\ events = <<>> /\ cause = <<>>
    /\ meter = [d \in Metered |-> [N |-> 0, t |-> 0, prev |-> 0, read |-> -1, sum |-> 0, tot |-> 0]]

(* ListenAndServe ends with its context, which closes the listener and so  *)
(* ends the accept loop, or by an error of ln.Accept; it does not wait for *)
(* sessions.  If it is Run that was stopped the tickers stop too; if it    *)
(* failed, or is a booster node's, they do not.                            *)
Stop ==
    /\ run = "serving"
    /\ run' = "ended" /\ ticking' \in BOOLEAN
    /\ UNCHANGED <<stage, AskVars, open, EndVars, CopyVars, c, LoopVars, meter>>

Accept ==
    /\ run = "serving" /\ stage = None
    /\ stage' = "negotiate" /\ open' = {"src"}
    /\ UNCHANGED <<ServeVars, AskVars, EndVars, CopyVars, c, LoopVars, meter>>

-----------------------------------------------------------------------------
(* Handle.                                                                 *)

(* It returns before there is a second connection: the deferred call       *)
(* closes the client's.                                                    *)
Return ==
    /\ stage' = "done"
    /\ open' = {}

(* A wrong version or a client that is gone ends Handle; a client without  *)
(* an acceptable method is told so, and its request is read all the same.  *)
Negotiate ==
    /\ stage = "negotiate"
    /\ \/ Return /\ UNCHANGED reply
       \/ \E m \in {"noAuth", "noAcceptableMethods"} : reply' = m
          /\ stage' = "request" /\ UNCHANGED open
    /\ UNCHANGED <<ServeVars, asked, EndVars, CopyVars, c, LoopVars, meter>>

(* It also ends on an unknown type of address, or an unknown command. *)
ReadRequest ==
    /\ stage = "request"
    /\ \/ Return /\ UNCHANGED asked
       \/ asked' \in {"connect", "bind", "associate"} /\ stage' = "dial" /\ UNCHANGED open
    /\ UNCHANGED <<ServeVars, reply, EndVars, CopyVars, c, LoopVars, meter>>

(* Connect: the dialer fails, or returns no connection and no error, which *)
(* ends the session without a word.                                        *)
Connect ==
    /\ stage = "dial" /\ asked = "connect"
    /\ \/ reply' = "success" /\ stage' = "start" /\ open' = {"src", "dst"}
       \/ reply' = "hostUnreachable" /\ Return
       \/ UNCHANGED reply /\ Return
    /\ UNCHANGED <<ServeVars, asked, EndVars, CopyVars, c, LoopVars, meter>>

BindOrAssociate ==
    /\ stage = "dial" /\ asked \in {"bind", "associate"}
    /\ reply' = "commandNotSupported" /\ Return
    /\ UNCHANGED <<ServeVars, asked, EndVars, CopyVars, c, LoopVars, meter>>

(* Mutant: a timer that only a chunk sets. *)
ArmNot == UNCHANGED timer

Arm == timer' = "armed"

ProxyStart ==
    /\ stage = "start"
    /\ events' = Append(events, "TunnelAdded")
    /\ Arm /\ copy' = [d \in Directions |-> "copy"]
    /\ stage' = "proxy"
    /\ UNCHANGED <<ServeVars, AskVars, open, EndVars, unread, got, n, c, cut, fresh, cause, meter>>

-----------------------------------------------------------------------------
(* The far ends, while ProxyData runs and the near end is open.            *)

Live(d) == stage = "proxy" /\ From[d] \in open

FarSend(d) ==
    /\ Live(d) /\ From[d] \notin ended /\ sent[d] < MaxBytes[d]
    /\ sent' = [sent EXCEPT ![d] = @ + 1]
    /\ unread' = [unread EXCEPT ![d] = @ + 1]
    /\ UNCHANGED <<ServeVars, stage, AskVars, open, ended, broken, got, copy, n, c, LoopVars, meter>>

FarEnd(d) ==
    /\ Live(d) /\ From[d] \notin ended
    /\ ended' = ended \cup {From[d]}
    /\ UNCHANGED <<ServeVars, stage, AskVars, open, broken, sent, CopyVars, c, LoopVars, meter>>

(* A connection breaks, whether its far end had ended or not. *)
FarBreaks(d) ==
    /\ Live(d) /\ From[d] \notin broken
    /\ broken' = broken \cup {From[d]} /\ ended' = ended \cup {From[d]}
    /\ UNCHANGED <<ServeVars, stage, AskVars, open, sent, CopyVars, c, LoopVars, meter>>

-----------------------------------------------------------------------------
(* The copying goroutines, which never end.                                *)

(* Mutant: CopyN counts whole chunks only. *)
CountChunks(d, k) ==
    meter' = IF k < Chunk THEN meter ELSE [meter EXCEPT ![d].N = @ + k, ![d].t = 1]

(* CopyN returns; t only tells whether it ever has. *)
Count(d, k) ==
    meter' = IF d \in Metered THEN [meter EXCEPT ![d].N = @ + k, ![d].t = 1] ELSE meter

CopyByte(d) ==
    /\ copy[d] = "copy" /\ unread[d] > 0 /\ {"src", "dst"} \subseteq open /\ To[d] \notin broken
    /\ unread' = [unread EXCEPT ![d] = @ - 1]
    /\ got' = [got EXCEPT ![d] = @ + 1]
    /\ fresh' = IF stage = "proxy" THEN [fresh EXCEPT ![d] = @ + 1] ELSE fresh
    /\ IF n[d] + 1 = Chunk
         THEN /\ copy' = [copy EXCEPT ![d] = "ok"] /\ n' = [n EXCEPT ![d] = 0]
              /\ Count(d, Chunk)
         ELSE n' = [n EXCEPT ![d] = @ + 1] /\ UNCHANGED <<copy, meter>>
    /\ UNCHANGED <<ServeVars, stage, AskVars, open, EndVars, c, timer, cut, events, cause>>

(* Mutant: the end of a far end is noticed before what it sent was read. *)
AtEndEarly(d) == From[d] \in ended \/ From[d] \notin open

(* A read fails at the end of the stream, and on a connection that is      *)
(* closed or that broke, even if there is more to read.                    *)
AtEnd(d) ==
    \/ From[d] \in ended /\ unread[d] = 0
    \/ From[d] \notin open
    \/ From[d] \in broken

CopyEnds(d) ==
    /\ copy' = [copy EXCEPT ![d] = "failed"] /\ n' = [n EXCEPT ![d] = 0]
    /\ Count(d, n[d])
    /\ UNCHANGED <<ServeVars, stage, AskVars, open, EndVars, got, c, LoopVars>>

ReadFails(d) ==
    /\ copy[d] = "copy" /\ AtEnd(d)
    /\ CopyEnds(d) /\ UNCHANGED unread

(* What was read and cannot be written is lost. *)
WriteFails(d) ==
    /\ copy[d] = "copy" /\ unread[d] > 0 /\ From[d] \in open
    /\ To[d] \notin open \/ To[d] \in broken
    /\ CopyEnds(d) /\ unread' = [unread EXCEPT ![d] = @ - 1]

(* c <- err: the channel holds two.  Then CopyN is called again. *)
Report(d) ==
    /\ copy[d] \in {"ok", "failed"} /\ Len(c) < 2
    /\ c' = Append(c, <<d, copy[d]>>)
    /\ copy' = [copy EXCEPT ![d] = "copy"]
    /\ UNCHANGED <<ServeVars, stage, AskVars, open, EndVars, unread, got, n, LoopVars, meter>>

-----------------------------------------------------------------------------
(* ProxyData.                                                              *)

(* Mutant: the timer is not set again. *)
ResetNot == UNCHANGED <<timer, fresh>>

(* timer.Reset sets it again even after it fired. *)
Reset == timer' = "armed" /\ fresh' = Zero

Receive ==
    /\ stage = "proxy" /\ c # <<>>
    /\ c' = Tail(c)
    /\ IF Head(c)[2] = "failed"
         THEN stage' = "stop" /\ cause' = Head(c) /\ fresh' = Zero /\ UNCHANGED timer
         ELSE Reset /\ UNCHANGED <<stage, cause>>
    /\ UNCHANGED <<ServeVars, AskVars, open, EndVars, CopyVars, cut, events, meter>>

(* The timer is not stopped when ProxyData returns. *)
TimerFires ==
    /\ timer = "armed"
    /\ timer' = "fired" /\ open' = {} /\ cut' = TRUE
    /\ UNCHANGED <<ServeVars, stage, AskVars, EndVars, CopyVars, c, fresh, events, cause, meter>>

(* Mutant: the connections are closed before the tunnel is revoked. *)
ProxyStopClosed ==
    /\ stage = "stop"
    /\ IF open # {} THEN open' = {} /\ UNCHANGED <<stage, events>>
       ELSE stage' = "closeDst" /\ events' = Append(events, "TunnelRemoved") /\ UNCHANGED open
    /\ UNCHANGED <<ServeVars, AskVars, EndVars, CopyVars, c, timer, cut, fresh, cause, meter>>

ProxyStop ==
    /\ stage = "stop"
    /\ events' = Append(events, "TunnelRemoved")
    /\ stage' = "closeDst" /\ cause' = <<>>
    /\ UNCHANGED <<ServeVars, AskVars, open, EndVars, CopyVars, c, timer, cut, fresh, meter>>

(* The deferred calls close the connections, the target's first. *)
CloseDst ==
    /\ stage = "closeDst"
    /\ open' = open \ {"dst"} /\ stage' = "closeSrc"
    /\ UNCHANGED <<ServeVars, AskVars, EndVars, CopyVars, c, LoopVars, meter>>

CloseSrc ==
    /\ stage = "closeSrc"
    /\ open' = open \ {"src"} /\ stage' = "done"
    /\ UNCHANGED <<ServeVars, AskVars, EndVars, CopyVars, c, LoopVars, meter>>

-----------------------------------------------------------------------------
(* The ticker of TickerFunc: it reads N, and then publishes the bandwidth; *)
(* the Tot it publishes is read again.                                     *)

TickRead(d) ==
    /\ ticking /\ meter[d].read = -1 /\ meter[d].t = 1
    /\ meter' = [meter EXCEPT ![d].read = meter[d].N]
    /\ UNCHANGED <<ServeVars, stage, AskVars, open, EndVars, CopyVars, c, LoopVars>>

TickPublish(d) ==
    /\ meter[d].read # -1
    /\ LET m == meter[d]
       IN  meter' = [meter EXCEPT ![d] = [m EXCEPT !.prev = m.read, !.sum = @ + m.read - m.prev,
                                                   !.tot = m.N, !.read = -1]]
    /\ UNCHANGED <<ServeVars, stage, AskVars, open, EndVars, CopyVars, c, LoopVars>>

Handle == Negotiate \/ ReadRequest \/ Connect \/ BindOrAssociate \/ ProxyStart \/ Receive
          \/ ProxyStop \/ CloseDst \/ CloseSrc
Copy(d) == CopyByte(d) \/ ReadFails(d) \/ WriteFails(d) \/ Report(d)
Next ==
    \/ Stop \/ Accept \/ Handle \/ TimerFires
    \/ \E d \in Directions :
         FarSend(d) \/ FarEnd(d) \/ FarBreaks(d) \/ Copy(d)
    \/ \E d \in Metered : TickRead(d) \/ TickPublish(d)

Spec == Init /\ [][Next]_vars

(* Goroutines go on and the timer fires in the end; nobody has to connect, *)
(* send or leave.                                                          *)
FairSpec ==
    Spec /\ WF_vars(Handle) /\ WF_vars(TimerFires) /\ \A d \in Directions : WF_vars(Copy(d))

-----------------------------------------------------------------------------
(* Properties.                                                             *)

(* The client has been told of its success and the tunnel announced when   *)
(* the first byte comes; and the tunnel is revoked once, before either     *)
(* connection is closed (socks5.go:312, 317), so that while it stands      *)
(* announced both are open, unless the idle timer closed them.  Of an      *)
(* address, ReadAddress makes what was encoded: checked once, before a     *)
(* session starts.                                                         *)
Announced == events = <<"TunnelAdded">>
Told ==
    /\ (\E d \in Directions : got[d] > 0) => reply = "success" /\ events # <<>>
    /\ events \in {<<>>, <<"TunnelAdded">>, <<"TunnelAdded", "TunnelRemoved">>}
    /\ Announced => open = {"src", "dst"} \/ cut
    /\ stage = "done" => ~Announced /\ open = {}
    /\ stage = None => \A a \in Addresses : ReadAddress(EncodeAddress(a)) = a

(* A session that moves bytes is cut by the timer only if neither          *)
(* direction has filled a chunk since it was set, but for results that     *)
(* wait to be received (socks5.go:361): bytes alone do not set it again.   *)
CutBelowChunk ==
    [][TimerFires /\ stage = "proxy" =>
         \/ c # <<>> \/ \E d \in Directions : copy[d] \in {"ok", "failed"}
         \/ \A d \in Directions : fresh[d] < Chunk]_vars

(* A session ends when the direction that ends it has given all it was     *)
(* sent, unless the timer has cut it, or one of its two connections broke  *)
(* (socks5.go:352, network.go:250).                                        *)
EndDelivers ==
    stage = "stop" => got[cause[1]] = sent[cause[1]] \/ cut \/ broken # {}

(* Every byte is counted once (network.go:253): by N, or as part of the    *)
(* chunk that is being copied; and the bandwidth that was published adds   *)
(* up to no more than the total published with it.                         *)
MeterRight ==
    \A d \in Metered :
      /\ got[d] = meter[d].N + n[d]
      /\ meter[d].sum = meter[d].prev /\ meter[d].sum <= meter[d].tot /\ meter[d].tot <= meter[d].N

(* A tunnel that was announced is revoked, and its connections are closed, *)
(* even if its two sides are silent for ever (socks5.go:326).              *)
Ended == events # <<>> ~> Len(events) = 2 /\ open = {}

=============================================================================
