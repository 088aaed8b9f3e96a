-------------------------- MODULE ConnectionsProofs -------------------------
(***************************************************************************)
(* Proofs about Connections, for any number of connections, Disconnect     *)
(* requests, losses and pings, and whichever of its switches are on: the   *)
(* types, that a connection is removed once, that the tracer holds closed  *)
(* connections only, that no live connection drops out of the table, and   *)
(* what the subscribers may conclude from the events.                      *)
(***************************************************************************)
EXTENDS Connections, TLAPS

(* The thread th may close the connection c. *)
WorksOn(th, c) ==
    \/ th \in {Wirer(c), Loop(c), Timer(c)}
    \/ \E d \in Requests : th = Request(d) /\ target[d] = c

(* Conn.Close past the close of the socket; past its test of c.Conn; and   *)
(* before it publishes.                                                    *)
Closing == {"close_nil", "close_inactive", "close_pub", "close_trace"}
Nilled == {"close_inactive", "close_pub", "close_trace"}
Unpublished == {"close_nil", "close_inactive", "close_pub"}

(* Nobody knows of a connection that Wire has not dialled yet. *)
Undialled ==
    \A c \in Conns : pc[Wirer(c)] \in {"idle", "dial"} =>
       /\ link[c] = "none" /\ ~open[c] /\ removals[c] = 0
       /\ outgoing # c /\ tracing # c
       /\ \A d \in Requests : target[d] # c

(* The packet loop starts when Wire is done, the timer a little earlier. *)
Started ==
    \A c \in Conns :
       /\ pc[Loop(c)] # "idle" => pc[Wirer(c)] = "wired"
       /\ armed[c] \/ pc[Timer(c)] # "idle" => pc[Wirer(c)] \in {"activate", "mark", "wired"}

(* Where a thread goes when Conn.Close has returned. *)
Returns ==
    /\ \A c \in Conns :
          /\ pc[Wirer(c)] \in ClosePCs => cont[Wirer(c)] \in {"fail", "failed"}
          /\ pc[Loop(c)] \in ClosePCs => cont[Loop(c)] \in {"hb_fail", "loop", "ended"}
          /\ pc[Timer(c)] \in ClosePCs => cont[Timer(c)] = "idle"
    /\ \A d \in Requests : pc[Request(d)] \in ClosePCs => cont[Request(d)] = "done"

(* The socket is closed by one thread only: the others get an error.  It   *)
(* resets c.Conn and publishes the removal, in this order.                 *)
OneCloser ==
    \A c \in Conns : \A s, t \in Thread :
       WorksOn(s, c) /\ WorksOn(t, c) /\ pc[s] \in Closing /\ pc[t] \in Closing => s = t

CloseOrder ==
    \A c \in Conns : \A th \in Thread : WorksOn(th, c) =>
       /\ pc[th] \in Closing => link[c] = "closed"
       /\ pc[th] \in Nilled => ~open[c]
       /\ pc[th] \in Unpublished => removals[c] = 0

Removed ==
    \A c \in Conns : removals[c] <= 1 /\ (removals[c] # 0 => link[c] = "closed")

(* The inductive invariant. *)
IInv ==
    /\ TypeOK
    /\ Undialled
    /\ Started
    /\ Returns
    /\ OneCloser
    /\ CloseOrder
    /\ Removed
    /\ TracedIsClosed
    /\ NoOrphan

-----------------------------------------------------------------------------
(* What the constants are, as far as the proofs need it. *)
LEMMA ConstantFacts == Nil \notin Conns /\ MaxLosses \in Nat /\ MaxPings \in Nat
BY ConstantsAssumption

(* The threads of the specification. *)
LEMMA ThreadFacts ==
    /\ \A c \in Conns : Wirer(c) \in Thread /\ Loop(c) \in Thread /\ Timer(c) \in Thread
    /\ \A d \in Requests : Request(d) \in Thread
    /\ Tracer \in Thread
BY DEF Thread, Wirers, Loops, Timers, Requesters

(* They are all different. *)
LEMMA ThreadsDiffer ==
    /\ \A c, x : /\ Wirer(c) = Wirer(x) => c = x
                 /\ Loop(c) = Loop(x) => c = x
                 /\ Timer(c) = Timer(x) => c = x
                 /\ Request(c) = Request(x) => c = x
                 /\ Wirer(c) # Loop(x) /\ Wirer(c) # Timer(x) /\ Wirer(c) # Request(x)
                 /\ Loop(c) # Timer(x) /\ Loop(c) # Request(x) /\ Timer(c) # Request(x)
    /\ \A c : Tracer \notin {Wirer(c), Loop(c), Timer(c), Request(c)}
BY DEF Wirer, Loop, Timer, Request, Tracer

(* The places of Conn.Close, and those its callers go to, are places. *)
LEMMA PCFacts ==
    {"idle", "close_check", "close_socket", "close_nil", "close_inactive", "close_pub", "close_trace",
     "send_check", "send_write", "dial", "add", "fail", "arm", "activate", "mark", "wired", "failed",
     "consume", "consume_run", "loop", "hb_wait", "hb_fail", "tunnel", "ended", "expired", "untrace",
     "done", "wait", "drop"} \subseteq PCs
BY DEF PCs, WirerPCs, LoopPCs, TimerPCs, RequestPCs, TracerPCs, ClosePCs, SendPCs

(* The initial state satisfies the invariant. *)
LEMMA InitInd == Init => IInv
<1> SUFFICES ASSUME Init PROVE IInv
  OBVIOUS
<1>1. pc \in [Thread -> PCs] /\ cont \in [Thread -> PCs]
  BY PCFacts DEF Init
<1>2. /\ target \in [Requests -> Conns \cup {Nil}]
      /\ \A d \in Requests : target[d] = Nil => pc[Request(d)] \in {"idle", "done"}
  BY ThreadFacts DEF Init
<1>3. pings \in 0..MaxPings /\ losses \in 0..MaxLosses
  BY ConstantFacts DEF Init
<1>4. TypeOK
  BY <1>1, <1>2, <1>3 DEF Init, TypeOK
<1>5. QED
  BY <1>4, ThreadFacts, ConstantFacts DEF Init, IInv, Undialled, Started, Returns,
     OneCloser,
     CloseOrder, Removed, TracedIsClosed, NoOrphan, Accepted, ClosePCs, SendPCs, Closing, Nilled,
     Unpublished

(* Whoever may close a connection does so when Wire has dialled it. *)
LEMMA WorkerDialled ==
    ASSUME TypeOK, Undialled, Started, NEW c \in Conns, NEW th \in Thread, WorksOn(th, c),
           pc[th] \notin {"idle", "dial"}
    PROVE  pc[Wirer(c)] \notin {"idle", "dial"}
BY ThreadFacts DEF Undialled, Started, WorksOn

(* A step that only moves threads, none of them into the middle of          *)
(* Conn.Close, back to a dial, or into the good path of Wire.              *)
LEMMA MoveInd ==
    ASSUME IInv, TypeOK', Started', Returns',
           UNCHANGED <<outgoing, open, link, target, tracing, removals>>,
           \A t \in Thread : pc'[t] = pc[t] \/ pc'[t] \notin Closing,
           \A c \in Conns : /\ pc'[Wirer(c)] \in {"idle", "dial"} => pc[Wirer(c)] \in {"idle", "dial"}
                            /\ Accepted(c)' => Accepted(c)
    PROVE  IInv'
<1>1. \A t \in Thread, c \in Conns : WorksOn(t, c)' <=> WorksOn(t, c)
  BY DEF WorksOn
<1>2. OneCloser' /\ CloseOrder' /\ Removed'
  BY <1>1 DEF IInv, OneCloser, CloseOrder, Removed, Closing, Nilled, Unpublished
<1>3. Undialled' /\ TracedIsClosed' /\ NoOrphan'
  BY DEF IInv, Undialled, TracedIsClosed, NoOrphan
<1>4. QED
  BY <1>2, <1>3 DEF IInv

(* Each step of Conn.Close keeps the invariant, whichever thread runs it. *)
LEMMA CloseInd ==
    ASSUME IInv, NEW c \in Conns, NEW th \in Thread, WorksOn(th, c), Close(th, c)
    PROVE  IInv'
<1> USE DEF IInv, Goto, CallClose, Return, connVars, loopVars, traceVars, ghostVars
<1>0. pc[Wirer(c)] \notin {"idle", "dial"}
  BY WorkerDialled DEF Close, CloseCheck, CloseSocket, CloseNil, CloseInactive, ClosePub,
     CloseTrace
<1>w. /\ \A x \in Conns : WorksOn(th, x) => x = c
      /\ \A t \in Thread, x \in Conns : WorksOn(t, x)' <=> WorksOn(t, x)
      /\ pc[th] \in ClosePCs => cont[th] \notin ClosePCs
  BY ThreadsDiffer, ThreadFacts DEF WorksOn, Returns, ClosePCs, Close, CloseCheck,
     CloseSocket, CloseNil, CloseInactive, ClosePub, CloseTrace
<1>1. CASE CloseCheck(th, c)
  <2>1. TypeOK'
    BY <1>1, <1>w, ThreadFacts, ThreadsDiffer, PCFacts, ConstantFacts DEF CloseCheck,
       TypeOK, WorksOn
  <2>2. Started' /\ Returns'
    BY <1>1, ThreadFacts, ThreadsDiffer DEF CloseCheck, TypeOK, Started, Returns, WorksOn,
       ClosePCs
  <2>3. QED
    BY <1>1, <2>1, <2>2, MoveInd, ThreadFacts, ThreadsDiffer DEF CloseCheck, TypeOK,
       Accepted, Returns, WorksOn, SendPCs, Closing, ClosePCs
<1>2. CASE CloseSocket(th, c)
  <2>1. TypeOK'
    <3>1. pc' \in [Thread -> PCs] /\ cont' \in [Thread -> PCs]
      BY <1>2, PCFacts DEF CloseSocket, TypeOK
    <3>2. \A d \in Requests : target'[d] = Nil => pc'[Request(d)] \in {"idle", "done"}
      BY <1>2, ThreadFacts, ThreadsDiffer, ConstantFacts DEF CloseSocket, TypeOK, WorksOn
    <3>3. link' \in [Conns -> {"none", "up", "lost", "closed"}] /\ crashed' \in BOOLEAN
      BY <1>2 DEF CloseSocket, TypeOK
    <3>4. QED
      BY <1>2, <3>1, <3>2, <3>3 DEF CloseSocket, TypeOK
  <2>2. Undialled' /\ Started'
    BY <1>2, <1>0, ThreadFacts, ThreadsDiffer DEF CloseSocket, TypeOK, Undialled, Started,
       Returns, WorksOn, ClosePCs
  <2>3. Returns'
    BY <1>2, ThreadFacts, ThreadsDiffer DEF CloseSocket, TypeOK, Returns, WorksOn, ClosePCs
  <2>4. OneCloser'
    BY <1>2, <1>w, ThreadFacts DEF CloseSocket, TypeOK, OneCloser, CloseOrder, Closing,
       ClosePCs
  <2>5. CloseOrder' /\ Removed'
    BY <1>2, <1>w, ThreadFacts DEF CloseSocket, TypeOK, OneCloser, CloseOrder, Removed,
       Closing, Nilled, Unpublished, ClosePCs
  <2>6. TracedIsClosed' /\ NoOrphan'
    BY <1>2, ThreadFacts, ThreadsDiffer DEF CloseSocket, TypeOK, TracedIsClosed, NoOrphan,
       Accepted, CloseOrder, Returns, WorksOn, Nilled, ClosePCs, SendPCs
  <2>7. QED
    BY <2>1, <2>2, <2>3, <2>4, <2>5, <2>6
<1>3. CASE CloseNil(th, c)
  <2>1. TypeOK'
    BY <1>3, ThreadFacts, ThreadsDiffer, PCFacts, ConstantFacts DEF CloseNil, TypeOK,
       WorksOn
  <2>2. Undialled' /\ Started'
    BY <1>3, <1>0, ThreadFacts, ThreadsDiffer DEF CloseNil, TypeOK, Undialled, Started,
       Returns, WorksOn, ClosePCs
  <2>3. Returns'
    BY <1>3, ThreadFacts, ThreadsDiffer DEF CloseNil, TypeOK, Returns, WorksOn, ClosePCs
  <2>4. OneCloser'
    BY <1>3, <1>w, ThreadFacts DEF CloseNil, TypeOK, OneCloser, CloseOrder, Closing,
       ClosePCs
  <2>5. CloseOrder' /\ Removed'
    BY <1>3, <1>w, ThreadFacts DEF CloseNil, TypeOK, OneCloser, CloseOrder, Removed,
       Closing, Nilled, Unpublished, ClosePCs
  <2>6. TracedIsClosed' /\ NoOrphan'
    BY <1>3, ThreadFacts, ThreadsDiffer DEF CloseNil, TypeOK, TracedIsClosed, NoOrphan,
       Accepted, CloseOrder, Returns, WorksOn, Nilled, ClosePCs, SendPCs
  <2>7. QED
    BY <2>1, <2>2, <2>3, <2>4, <2>5, <2>6
<1>4. CASE CloseInactive(th, c)
  <2>1. TypeOK'
    BY <1>4, ThreadFacts, ThreadsDiffer, PCFacts, ConstantFacts DEF CloseInactive, TypeOK,
       WorksOn
  <2>2. Undialled' /\ Started'
    BY <1>4, <1>0, ThreadFacts, ThreadsDiffer DEF CloseInactive, TypeOK, Undialled,
       Started, Returns, WorksOn, ClosePCs
  <2>3. Returns'
    BY <1>4, ThreadFacts, ThreadsDiffer DEF CloseInactive, TypeOK, Returns, WorksOn,
       ClosePCs
  <2>4. OneCloser'
    BY <1>4, <1>w, ThreadFacts DEF CloseInactive, TypeOK, OneCloser, CloseOrder, Closing,
       ClosePCs
  <2>5. CloseOrder' /\ Removed'
    BY <1>4, <1>w, ThreadFacts DEF CloseInactive, TypeOK, OneCloser, CloseOrder, Removed,
       Closing, Nilled, Unpublished, ClosePCs
  <2>6. TracedIsClosed' /\ NoOrphan'
    BY <1>4, ThreadFacts, ThreadsDiffer DEF CloseInactive, TypeOK, TracedIsClosed,
       NoOrphan, Accepted, CloseOrder, Returns, WorksOn, Nilled, ClosePCs, SendPCs
  <2>7. QED
    BY <2>1, <2>2, <2>3, <2>4, <2>5, <2>6
<1>5. CASE ClosePub(th, c)
  <2>1. TypeOK'
    BY <1>5, ThreadFacts, ThreadsDiffer, PCFacts, ConstantFacts DEF ClosePub, TypeOK,
       WorksOn
  <2>2. Undialled' /\ Started'
    BY <1>5, <1>0, ThreadFacts, ThreadsDiffer DEF ClosePub, TypeOK, Undialled, Started,
       Returns, WorksOn, ClosePCs
  <2>3. Returns'
    BY <1>5, ThreadFacts, ThreadsDiffer DEF ClosePub, TypeOK, Returns, WorksOn, ClosePCs
  <2>4. OneCloser'
    BY <1>5, <1>w, ThreadFacts DEF ClosePub, TypeOK, OneCloser, CloseOrder, Closing,
       ClosePCs
  <2>5. CloseOrder' /\ Removed'
    BY <1>5, <1>w, ThreadFacts DEF ClosePub, TypeOK, OneCloser, CloseOrder, Removed,
       Closing, Nilled, Unpublished, ClosePCs
  <2>6. TracedIsClosed' /\ NoOrphan'
    BY <1>5, ThreadFacts, ThreadsDiffer DEF ClosePub, TypeOK, TracedIsClosed, NoOrphan,
       Accepted, CloseOrder, Returns, WorksOn, Nilled, ClosePCs, SendPCs
  <2>7. QED
    BY <2>1, <2>2, <2>3, <2>4, <2>5, <2>6
<1>6. CASE CloseTrace(th, c)
  <2>1. TypeOK'
    BY <1>6, ThreadFacts, ThreadsDiffer, PCFacts, ConstantFacts DEF CloseTrace, TypeOK,
       WorksOn
  <2>2. Undialled' /\ Started'
    BY <1>6, <1>0, ThreadFacts, ThreadsDiffer DEF CloseTrace, TypeOK, Undialled, Started,
       Returns, WorksOn, ClosePCs
  <2>3. Returns'
    BY <1>6, ThreadFacts, ThreadsDiffer DEF CloseTrace, TypeOK, Returns, WorksOn, ClosePCs
  <2>4. OneCloser'
    BY <1>6, <1>w, ThreadFacts DEF CloseTrace, TypeOK, OneCloser, CloseOrder, Closing,
       ClosePCs
  <2>5. CloseOrder' /\ Removed'
    BY <1>6, <1>w, ThreadFacts DEF CloseTrace, TypeOK, OneCloser, CloseOrder, Removed,
       Closing, Nilled, Unpublished, ClosePCs
  <2>6. TracedIsClosed' /\ NoOrphan'
    BY <1>6, ThreadFacts, ThreadsDiffer DEF CloseTrace, TypeOK, TracedIsClosed, NoOrphan,
       Accepted, CloseOrder, Returns, WorksOn, Nilled, ClosePCs, SendPCs
  <2>7. QED
    BY <2>1, <2>2, <2>3, <2>4, <2>5, <2>6
<1>7. QED
  BY <1>1, <1>2, <1>3, <1>4, <1>5, <1>6 DEF Close

(* Conn.Send, for Wire and for the packet loop. *)
LEMMA SendInd ==
    ASSUME IInv, NEW c \in Conns, NEW th \in {Wirer(c), Loop(c)}, Send(th, c)
    PROVE  IInv'
<1> USE DEF IInv, Goto, CallClose, Return, connVars, loopVars, traceVars, ghostVars
<1> USE DEF AfterSend, SendFailed, Wirers
<1>1. CASE SendCheck(th, c)
  <2>1. TypeOK'
    BY <1>1, ThreadFacts, ThreadsDiffer, PCFacts DEF SendCheck, TypeOK
  <2>2. Started' /\ Returns'
    BY <1>1, ThreadFacts, ThreadsDiffer DEF SendCheck, TypeOK, Started, Returns, ClosePCs
  <2>3. QED
    BY <1>1, <2>1, <2>2, MoveInd, ThreadFacts, ThreadsDiffer DEF SendCheck, TypeOK,
       Accepted, Returns, SendPCs, Closing, ClosePCs
<1>2. CASE SendWrite(th, c)
  <2>1. TypeOK'
    <3>1. pc' \in [Thread -> PCs] /\ cont' \in [Thread -> PCs]
      BY <1>2, ThreadFacts, ThreadsDiffer, PCFacts, ConstantFacts DEF SendWrite, TypeOK
    <3>2. \A d \in Requests : target'[d] = Nil => pc'[Request(d)] \in {"idle", "done"}
      BY <1>2, ThreadFacts, ThreadsDiffer, PCFacts, ConstantFacts DEF SendWrite, TypeOK
    <3>3. crashed' \in BOOLEAN
      BY <1>2, ThreadFacts, ThreadsDiffer, PCFacts, ConstantFacts DEF SendWrite, TypeOK
    <3>4. QED
      BY <1>2, <3>1, <3>2, <3>3 DEF SendWrite, TypeOK
  <2>2. Started' /\ Returns'
    BY <1>2, ThreadFacts, ThreadsDiffer DEF SendWrite, TypeOK, Started, Returns, ClosePCs
  <2>3. QED
    BY <1>2, <2>1, <2>2, MoveInd, ThreadFacts, ThreadsDiffer DEF SendWrite, TypeOK,
       Accepted, Returns, SendPCs, Closing, ClosePCs
<1>3. QED
  BY <1>1, <1>2 DEF Send

(* Wire, with the operator's call of it. *)
LEMMA WirerInd ==
    ASSUME IInv, NEW c \in Conns, CallWire(c) \/ WirerStep(c)
    PROVE  IInv'
<1> USE DEF IInv, Goto, CallClose, Return, connVars, loopVars, traceVars, ghostVars
<1>1. CASE CallWire(c)
  <2>1. TypeOK'
    BY <1>1, ThreadFacts, ThreadsDiffer, PCFacts DEF CallWire, TypeOK
  <2>2. Started' /\ Returns'
    BY <1>1, ThreadFacts, ThreadsDiffer DEF CallWire, TypeOK, Started, Returns, ClosePCs
  <2>3. QED
    BY <1>1, <2>1, <2>2, MoveInd, ThreadFacts, ThreadsDiffer DEF CallWire, TypeOK,
       Accepted, Returns, SendPCs, Closing, ClosePCs
<1>2. CASE WireFails(c)
  <2>1. TypeOK'
    BY <1>2, ThreadFacts, ThreadsDiffer, PCFacts DEF WireFails, TypeOK
  <2>2. Started' /\ Returns'
    BY <1>2, ThreadFacts, ThreadsDiffer DEF WireFails, TypeOK, Started, Returns, ClosePCs
  <2>3. QED
    BY <1>2, <2>1, <2>2, MoveInd, ThreadFacts, ThreadsDiffer DEF WireFails, TypeOK,
       Accepted, Returns, SendPCs, Closing, ClosePCs
<1>3. CASE StartTimer(c)
  <2>1. TypeOK'
    BY <1>3, ThreadFacts, ThreadsDiffer, PCFacts DEF StartTimer, TypeOK
  <2>2. Started' /\ Returns'
    BY <1>3, ThreadFacts, ThreadsDiffer DEF StartTimer, TypeOK, Started, Returns, ClosePCs
  <2>3. QED
    BY <1>3, <2>1, <2>2, MoveInd, ThreadFacts, ThreadsDiffer DEF StartTimer, TypeOK,
       Accepted, Returns, SendPCs, Closing, ClosePCs
<1>4. CASE WireActivates(c)
  <2>1. TypeOK'
    BY <1>4, ThreadFacts, ThreadsDiffer, PCFacts DEF WireActivates, TypeOK
  <2>2. Started' /\ Returns'
    BY <1>4, ThreadFacts, ThreadsDiffer DEF WireActivates, TypeOK, Started, Returns,
       ClosePCs
  <2>3. QED
    BY <1>4, <2>1, <2>2, MoveInd, ThreadFacts, ThreadsDiffer DEF WireActivates, TypeOK,
       Accepted, Returns, SendPCs, Closing, ClosePCs
<1>5. CASE WireDone(c)
  <2>1. TypeOK'
    BY <1>5, ThreadFacts, ThreadsDiffer, PCFacts DEF WireDone, TypeOK
  <2>2. Started' /\ Returns'
    BY <1>5, ThreadFacts, ThreadsDiffer DEF WireDone, TypeOK, Started, Returns, ClosePCs
  <2>3. QED
    BY <1>5, <2>1, <2>2, MoveInd, ThreadFacts, ThreadsDiffer DEF WireDone, TypeOK,
       Accepted, Returns, SendPCs, Closing, ClosePCs
<1>w. \A t \in Thread, x \in Conns : target' = target => (WorksOn(t, x)' <=> WorksOn(t, x))
  BY DEF WorksOn
<1>6. CASE Dial(c)
  <2>1. TypeOK'
    <3>1. pc' \in [Thread -> PCs] /\ cont' \in [Thread -> PCs]
      BY <1>6, ThreadFacts, ThreadsDiffer, PCFacts, ConstantFacts DEF Dial, TypeOK
    <3>2. \A d \in Requests : target'[d] = Nil => pc'[Request(d)] \in {"idle", "done"}
      BY <1>6, ThreadFacts, ThreadsDiffer, PCFacts, ConstantFacts DEF Dial, TypeOK
    <3>3. open' \in [Conns -> BOOLEAN] /\ link' \in [Conns -> {"none", "up", "lost", "closed"}]
      BY <1>6, ThreadFacts, ThreadsDiffer, PCFacts, ConstantFacts DEF Dial, TypeOK
    <3>4. QED
      BY <1>6, <3>1, <3>2, <3>3 DEF Dial, TypeOK
  <2>2. Undialled'
    BY <1>6, ThreadFacts, ThreadsDiffer, ConstantFacts DEF Dial, TypeOK, Undialled
  <2>3. Started' /\ Returns'
    BY <1>6, ThreadFacts, ThreadsDiffer DEF Dial, TypeOK, Started, Returns, ClosePCs
  <2>4. OneCloser'
    BY <1>6, <1>w, ThreadFacts, ThreadsDiffer DEF Dial, TypeOK, OneCloser, Closing
  <2>5. CloseOrder' /\ Removed'
    BY <1>6, <1>w, ThreadFacts, ThreadsDiffer DEF Dial, TypeOK, Undialled, CloseOrder,
       Removed, Closing, Nilled, Unpublished
  <2>6. TracedIsClosed' /\ NoOrphan'
    BY <1>6, ThreadFacts, ThreadsDiffer DEF Dial, TypeOK, Undialled, TracedIsClosed,
       NoOrphan, Accepted, SendPCs, ClosePCs
  <2>7. QED
    BY <2>1, <2>2, <2>3, <2>4, <2>5, <2>6
<1>7. CASE AddConn(c)
  <2>1. TypeOK'
    BY <1>7, ThreadFacts, ThreadsDiffer, PCFacts, ConstantFacts DEF AddConn, TypeOK
  <2>2. Undialled'
    BY <1>7, ThreadFacts, ThreadsDiffer, ConstantFacts DEF AddConn, TypeOK, Undialled
  <2>3. Started' /\ Returns'
    BY <1>7, ThreadFacts, ThreadsDiffer DEF AddConn, TypeOK, Started, Returns, ClosePCs
  <2>4. OneCloser'
    BY <1>7, <1>w, ThreadFacts, ThreadsDiffer DEF AddConn, TypeOK, OneCloser, Closing
  <2>5. CloseOrder' /\ Removed'
    BY <1>7, <1>w, ThreadFacts, ThreadsDiffer DEF AddConn, TypeOK, Undialled, CloseOrder,
       Removed, Closing, Nilled, Unpublished
  <2>6. TracedIsClosed' /\ NoOrphan'
    <3>1. TracedIsClosed'
      BY <1>7 DEF AddConn, TracedIsClosed
    <3>2. ASSUME NEW x \in Conns, Accepted(x)', open'[x]
          PROVE  outgoing' = x
      <4>1. CASE x = c
        BY <1>7, <3>2, <4>1, ThreadFacts DEF AddConn, TypeOK, Accepted, SendPCs
      <4>2. CASE x # c
        BY <1>7, <3>2, <4>2, ThreadFacts, ThreadsDiffer, ConstantFacts DEF AddConn, TypeOK,
           NoOrphan, Accepted, SendPCs
      <4>3. QED
        BY <4>1, <4>2
    <3>3. QED
      BY <3>1, <3>2 DEF NoOrphan
  <2>7. QED
    BY <2>1, <2>2, <2>3, <2>4, <2>5, <2>6
<1>8. CASE Send(Wirer(c), c)
  BY <1>8, SendInd
<1>9. CASE Close(Wirer(c), c)
  BY <1>9, CloseInd, ThreadFacts DEF WorksOn
<1>10. QED
  BY <1>1, <1>2, <1>3, <1>4, <1>5, <1>6, <1>7, <1>8, <1>9 DEF WirerStep

(* The packet loop, with the goroutine that decodes for it. *)
LEMMA LoopInd ==
    ASSUME IInv, NEW c \in Conns, Decode(c) \/ LoopStep(c)
    PROVE  IInv'
<1> USE DEF IInv, Goto, CallClose, Return, connVars, loopVars, traceVars, ghostVars
<1>1. CASE ConsumeCheck(c)
  <2>1. TypeOK'
    <3>1. pc' \in [Thread -> PCs] /\ cont' \in [Thread -> PCs]
      BY <1>1, ThreadFacts, PCFacts DEF ConsumeCheck, TypeOK
    <3>2. \A d \in Requests : target'[d] = Nil => pc'[Request(d)] \in {"idle", "done"}
      BY <1>1, ThreadFacts, ThreadsDiffer DEF ConsumeCheck, TypeOK
    <3>3. QED
      BY <1>1, <3>1, <3>2 DEF ConsumeCheck, TypeOK
  <2>2. Started' /\ Returns'
    BY <1>1, ThreadFacts, ThreadsDiffer DEF ConsumeCheck, TypeOK, Started, Returns, ClosePCs
  <2>3. QED
    BY <1>1, <2>1, <2>2, MoveInd, ThreadFacts, ThreadsDiffer DEF ConsumeCheck, TypeOK,
       Accepted, Returns, SendPCs, Closing, ClosePCs
<1>2. CASE ConsumeRun(c)
  <2>1. TypeOK'
    <3>1. pc' \in [Thread -> PCs] /\ cont' \in [Thread -> PCs]
      BY <1>2, ThreadFacts, ThreadsDiffer, PCFacts, ConstantFacts DEF ConsumeRun, TypeOK
    <3>2. \A d \in Requests : target'[d] = Nil => pc'[Request(d)] \in {"idle", "done"}
      BY <1>2, ThreadFacts, ThreadsDiffer, PCFacts, ConstantFacts DEF ConsumeRun, TypeOK
    <3>3. crashed' \in BOOLEAN
      BY <1>2, ThreadFacts, ThreadsDiffer, PCFacts, ConstantFacts DEF ConsumeRun, TypeOK
    <3>4. QED
      BY <1>2, <3>1, <3>2, <3>3 DEF ConsumeRun, TypeOK
  <2>2. Started' /\ Returns'
    BY <1>2, ThreadFacts, ThreadsDiffer DEF ConsumeRun, TypeOK, Started, Returns, ClosePCs
  <2>3. QED
    BY <1>2, <2>1, <2>2, MoveInd, ThreadFacts, ThreadsDiffer DEF ConsumeRun, TypeOK,
       Accepted, Returns, SendPCs, Closing, ClosePCs
<1>3. CASE Decode(c)
  <2>1. TypeOK'
    BY <1>3, ThreadFacts, ThreadsDiffer, PCFacts DEF Decode, TypeOK
  <2>2. Started' /\ Returns'
    BY <1>3, ThreadFacts, ThreadsDiffer DEF Decode, TypeOK, Started, Returns, ClosePCs
  <2>3. QED
    BY <1>3, <2>1, <2>2, MoveInd, ThreadFacts, ThreadsDiffer DEF Decode, TypeOK, Accepted,
       Returns, SendPCs, Closing, ClosePCs
<1>4. CASE Heartbeat(c)
  <2>1. TypeOK'
    BY <1>4, ThreadFacts, ThreadsDiffer, PCFacts DEF Heartbeat, TypeOK, Take
  <2>2. Started' /\ Returns'
    BY <1>4, ThreadFacts, ThreadsDiffer DEF Heartbeat, TypeOK, Started, Returns, Take,
       ClosePCs
  <2>3. QED
    BY <1>4, <2>1, <2>2, MoveInd, ThreadFacts, ThreadsDiffer DEF Heartbeat, TypeOK,
       Accepted, Returns, Take, SendPCs, Closing, ClosePCs
<1>5. CASE HeartbeatWaited(c)
  <2>1. TypeOK'
    BY <1>5, ThreadFacts, ThreadsDiffer, PCFacts DEF HeartbeatWaited, TypeOK
  <2>2. Started' /\ Returns'
    BY <1>5, ThreadFacts, ThreadsDiffer DEF HeartbeatWaited, TypeOK, Started, Returns,
       ClosePCs
  <2>3. QED
    BY <1>5, <2>1, <2>2, MoveInd, ThreadFacts, ThreadsDiffer DEF HeartbeatWaited, TypeOK,
       Accepted, Returns, SendPCs, Closing, ClosePCs
<1>6. CASE HeartbeatFails(c)
  <2>1. TypeOK'
    BY <1>6, ThreadFacts, ThreadsDiffer, PCFacts DEF HeartbeatFails, TypeOK
  <2>2. Started' /\ Returns'
    BY <1>6, ThreadFacts, ThreadsDiffer DEF HeartbeatFails, TypeOK, Started, Returns,
       ClosePCs
  <2>3. QED
    BY <1>6, <2>1, <2>2, MoveInd, ThreadFacts, ThreadsDiffer DEF HeartbeatFails, TypeOK,
       Accepted, Returns, SendPCs, Closing, ClosePCs
<1>7. CASE PacketFails(c)
  <2>1. TypeOK'
    BY <1>7, ThreadFacts, ThreadsDiffer, PCFacts DEF PacketFails, TypeOK, Take
  <2>2. Started' /\ Returns'
    BY <1>7, ThreadFacts, ThreadsDiffer DEF PacketFails, TypeOK, Started, Returns, Take,
       ClosePCs
  <2>3. QED
    BY <1>7, <2>1, <2>2, MoveInd, ThreadFacts, ThreadsDiffer DEF PacketFails, TypeOK,
       Accepted, Returns, Take, SendPCs, Closing, ClosePCs
<1>8. CASE TunnelRead(c)
  <2>1. TypeOK'
    BY <1>8, ThreadFacts, ThreadsDiffer, PCFacts DEF TunnelRead, TypeOK, Take
  <2>2. Started' /\ Returns'
    BY <1>8, ThreadFacts, ThreadsDiffer DEF TunnelRead, TypeOK, Started, Returns, Take,
       ClosePCs
  <2>3. QED
    BY <1>8, <2>1, <2>2, MoveInd, ThreadFacts, ThreadsDiffer DEF TunnelRead, TypeOK,
       Accepted, Returns, Take, SendPCs, Closing, ClosePCs
<1>9. CASE TunnelAdded(c)
  <2>1. TypeOK'
    BY <1>9, ThreadFacts, ThreadsDiffer, PCFacts DEF TunnelAdded, TypeOK
  <2>2. Started' /\ Returns'
    BY <1>9, ThreadFacts, ThreadsDiffer DEF TunnelAdded, TypeOK, Started, Returns, ClosePCs
  <2>3. QED
    BY <1>9, <2>1, <2>2, MoveInd, ThreadFacts, ThreadsDiffer DEF TunnelAdded, TypeOK,
       Accepted, Returns, SendPCs, Closing, ClosePCs
<1>10. CASE LoopEnds(c)
  <2>1. TypeOK'
    BY <1>10, ThreadFacts, ThreadsDiffer, PCFacts DEF LoopEnds, TypeOK
  <2>2. Started' /\ Returns'
    BY <1>10, ThreadFacts, ThreadsDiffer DEF LoopEnds, TypeOK, Started, Returns, ClosePCs
  <2>3. QED
    BY <1>10, <2>1, <2>2, MoveInd, ThreadFacts, ThreadsDiffer DEF LoopEnds, TypeOK,
       Accepted, Returns, SendPCs, Closing, ClosePCs
<1>11. CASE Send(Loop(c), c)
  BY <1>11, SendInd
<1>12. CASE Close(Loop(c), c)
  BY <1>12, CloseInd, ThreadFacts DEF WorksOn
<1>13. QED
  BY <1>1, <1>2, <1>3, <1>4, <1>5, <1>6, <1>7, <1>8, <1>9, <1>10, <1>11, <1>12 DEF LoopStep

(* The heartbeat timer. *)
LEMMA TimerInd ==
    ASSUME IInv, NEW c \in Conns, TimerStep(c)
    PROVE  IInv'
<1> USE DEF IInv, Goto, CallClose, Return, connVars, loopVars, traceVars, ghostVars
<1>1. CASE TimerFires(c)
  <2>1. TypeOK'
    BY <1>1, ThreadFacts, ThreadsDiffer, PCFacts DEF TimerFires, TypeOK
  <2>2. Started' /\ Returns'
    BY <1>1, ThreadFacts, ThreadsDiffer DEF TimerFires, TypeOK, Started, Returns, ClosePCs
  <2>3. QED
    BY <1>1, <2>1, <2>2, MoveInd, ThreadFacts, ThreadsDiffer DEF TimerFires, TypeOK,
       Accepted, Returns, SendPCs, Closing, ClosePCs
<1>2. CASE TimerCallback(c)
  <2>1. TypeOK'
    <3>1. pc' \in [Thread -> PCs] /\ cont' \in [Thread -> PCs]
      BY <1>2, ThreadFacts, PCFacts DEF TimerCallback, TypeOK
    <3>2. \A d \in Requests : target'[d] = Nil => pc'[Request(d)] \in {"idle", "done"}
      BY <1>2, ThreadFacts, ThreadsDiffer DEF TimerCallback, TypeOK
    <3>3. QED
      BY <1>2, <3>1, <3>2 DEF TimerCallback, TypeOK
  <2>2. Started' /\ Returns'
    BY <1>2, ThreadFacts, ThreadsDiffer DEF TimerCallback, TypeOK, Started, Returns,
       ClosePCs
  <2>3. QED
    BY <1>2, <2>1, <2>2, MoveInd, ThreadFacts, ThreadsDiffer DEF TimerCallback, TypeOK,
       Accepted, Returns, SendPCs, Closing, ClosePCs
<1>3. CASE Close(Timer(c), c)
  BY <1>3, CloseInd, ThreadFacts DEF WorksOn
<1>4. QED
  BY <1>1, <1>2, <1>3 DEF TimerStep

(* Disconnect requests, whose target is in the table when they find it. *)
LEMMA RequestInd ==
    ASSUME IInv, NEW d \in Requests, CallDisconnect(d) \/ RequestStep(d)
    PROVE  IInv'
<1> USE DEF IInv, Goto, CallClose, Return, connVars, loopVars, traceVars, ghostVars
<1>1. CASE Disconnect(d)
  <2>1. TypeOK'
    BY <1>1, ThreadFacts, ThreadsDiffer, PCFacts DEF Disconnect, TypeOK
  <2>2. Started' /\ Returns'
    BY <1>1, ThreadFacts, ThreadsDiffer DEF Disconnect, TypeOK, Started, Returns, ClosePCs
  <2>3. QED
    BY <1>1, <2>1, <2>2, MoveInd, ThreadFacts, ThreadsDiffer DEF Disconnect, TypeOK,
       Accepted, Returns, SendPCs, Closing, ClosePCs
<1>w. CallDisconnect(d) =>
        \A t \in Thread, x \in Conns : WorksOn(t, x)' => WorksOn(t, x) \/ pc'[t] \notin ClosePCs
  BY ThreadFacts, ThreadsDiffer DEF CallDisconnect, TypeOK, WorksOn, ClosePCs
<1>2. CASE CallDisconnect(d)
  <2>1. TypeOK'
    BY <1>2, ThreadFacts, ThreadsDiffer, PCFacts, ConstantFacts DEF CallDisconnect, TypeOK,
       ClosePCs
  <2>2. Undialled'
    BY <1>2, ThreadFacts, ThreadsDiffer, ConstantFacts DEF CallDisconnect, TypeOK,
       Undialled, ClosePCs
  <2>3. Started' /\ Returns'
    BY <1>2, ThreadFacts, ThreadsDiffer DEF CallDisconnect, TypeOK, Started, Returns,
       ClosePCs
  <2>4. OneCloser'
    BY <1>2, <1>w, ThreadFacts, ThreadsDiffer DEF CallDisconnect, TypeOK, OneCloser,
       Closing, ClosePCs
  <2>5. CloseOrder' /\ Removed'
    BY <1>2, <1>w, ThreadFacts, ThreadsDiffer DEF CallDisconnect, TypeOK, Undialled,
       CloseOrder, Removed, Closing, Nilled, Unpublished, ClosePCs
  <2>6. TracedIsClosed' /\ NoOrphan'
    BY <1>2, ThreadFacts, ThreadsDiffer DEF CallDisconnect, TypeOK, Undialled,
       TracedIsClosed, NoOrphan, Accepted, SendPCs, ClosePCs
  <2>7. QED
    BY <2>1, <2>2, <2>3, <2>4, <2>5, <2>6
<1>3. CASE Close(Request(d), target[d])
  <2>1. target[d] \in Conns
    BY <1>3, ThreadFacts DEF TypeOK, Close, CloseCheck, CloseSocket, CloseNil,
       CloseInactive, ClosePub, CloseTrace
  <2>2. QED
    BY <1>3, <2>1, CloseInd, ThreadFacts DEF WorksOn
<1>4. QED
  BY <1>1, <1>2, <1>3 DEF RequestStep

(* The tracer and TraceNodes. *)
LEMMA TracerInd ==
    ASSUME IInv, TracerStep \/ Ping \/ TracerTimesOut
    PROVE  IInv'
<1> USE DEF IInv, Goto, CallClose, Return, connVars, loopVars, traceVars, ghostVars
<1>1. CASE Reconnect
  <2>1. TypeOK'
    <3>1. pc' \in [Thread -> PCs] /\ cont' \in [Thread -> PCs]
      BY <1>1, ThreadFacts, ThreadsDiffer, PCFacts, ConstantFacts DEF Reconnect, TypeOK
    <3>2. \A d \in Requests : target'[d] = Nil => pc'[Request(d)] \in {"idle", "done"}
      BY <1>1, ThreadFacts, ThreadsDiffer, PCFacts, ConstantFacts DEF Reconnect, TypeOK
    <3>3. pings' \in 0..MaxPings /\ attempt' \in Conns \cup {Nil}
      BY <1>1, ThreadFacts, ThreadsDiffer, PCFacts, ConstantFacts DEF Reconnect, TypeOK
    <3>4. QED
      BY <1>1, <3>1, <3>2, <3>3 DEF Reconnect, TypeOK
  <2>2. Started' /\ Returns'
    BY <1>1, ThreadFacts, ThreadsDiffer DEF Reconnect, TypeOK, Started, Returns, ClosePCs
  <2>3. QED
    BY <1>1, <2>1, <2>2, MoveInd, ThreadFacts, ThreadsDiffer DEF Reconnect, TypeOK,
       Accepted, Returns, SendPCs, Closing, ClosePCs
<1>2. CASE Reconnected
  <2>1. TypeOK'
    BY <1>2, ThreadFacts, ThreadsDiffer, PCFacts DEF Reconnected, TypeOK
  <2>2. Started' /\ Returns'
    BY <1>2, ThreadFacts, ThreadsDiffer DEF Reconnected, TypeOK, Started, Returns, ClosePCs
  <2>3. QED
    BY <1>2, <2>1, <2>2, MoveInd, ThreadFacts, ThreadsDiffer DEF Reconnected, TypeOK,
       Accepted, Returns, SendPCs, Closing, ClosePCs
<1>3. CASE Ping
  <2>1. TypeOK'
    <3>1. pc' \in [Thread -> PCs] /\ cont' \in [Thread -> PCs]
      BY <1>3, ThreadFacts, ThreadsDiffer, PCFacts, ConstantFacts DEF Ping, TypeOK
    <3>2. \A d \in Requests : target'[d] = Nil => pc'[Request(d)] \in {"idle", "done"}
      BY <1>3, ThreadFacts, ThreadsDiffer, PCFacts, ConstantFacts DEF Ping, TypeOK
    <3>3. pings' \in 0..MaxPings /\ attempt' \in Conns \cup {Nil}
      BY <1>3, ThreadFacts, ThreadsDiffer, PCFacts, ConstantFacts DEF Ping, TypeOK
    <3>4. QED
      BY <1>3, <3>1, <3>2, <3>3 DEF Ping, TypeOK
  <2>2. Started' /\ Returns'
    BY <1>3, ThreadFacts, ThreadsDiffer DEF Ping, TypeOK, Started, Returns, ClosePCs
  <2>3. QED
    BY <1>3, <2>1, <2>2, MoveInd, ThreadFacts, ThreadsDiffer DEF Ping, TypeOK, Accepted,
       Returns, SendPCs, Closing, ClosePCs
<1>4. CASE TracerTimesOut
  <2>1. TypeOK'
    <3>1. pc' \in [Thread -> PCs] /\ cont' \in [Thread -> PCs]
      BY <1>4, ThreadFacts, ThreadsDiffer, PCFacts, ConstantFacts DEF TracerTimesOut, TypeOK
    <3>2. \A d \in Requests : target'[d] = Nil => pc'[Request(d)] \in {"idle", "done"}
      BY <1>4, ThreadFacts, ThreadsDiffer, PCFacts, ConstantFacts DEF TracerTimesOut, TypeOK
    <3>3. pings' \in 0..MaxPings /\ attempt' \in Conns \cup {Nil}
      BY <1>4, ThreadFacts, ThreadsDiffer, PCFacts, ConstantFacts DEF TracerTimesOut, TypeOK
    <3>4. QED
      BY <1>4, <3>1, <3>2, <3>3 DEF TracerTimesOut, TypeOK
  <2>2. Started' /\ Returns'
    BY <1>4, ThreadFacts, ThreadsDiffer DEF TracerTimesOut, TypeOK, Started, Returns,
       ClosePCs
  <2>3. QED
    BY <1>4, <2>1, <2>2, MoveInd, ThreadFacts, ThreadsDiffer DEF TracerTimesOut, TypeOK,
       Accepted, Returns, SendPCs, Closing, ClosePCs
<1>w. \A t \in Thread, x \in Conns : target' = target => (WorksOn(t, x)' <=> WorksOn(t, x))
  BY DEF WorksOn
<1>5. CASE Untrace
  <2>1. TypeOK'
    BY <1>5, ThreadFacts, ThreadsDiffer, PCFacts, ConstantFacts DEF Untrace, TypeOK
  <2>2. Undialled'
    BY <1>5, ThreadFacts, ThreadsDiffer, ConstantFacts DEF Untrace, TypeOK, Undialled
  <2>3. Started' /\ Returns'
    BY <1>5, ThreadFacts, ThreadsDiffer DEF Untrace, TypeOK, Started, Returns, ClosePCs
  <2>4. OneCloser'
    BY <1>5, <1>w, ThreadFacts, ThreadsDiffer DEF Untrace, TypeOK, OneCloser, Closing
  <2>5. CloseOrder' /\ Removed'
    BY <1>5, <1>w, ThreadFacts, ThreadsDiffer DEF Untrace, TypeOK, Undialled, CloseOrder,
       Removed, Closing, Nilled, Unpublished
  <2>6. TracedIsClosed' /\ NoOrphan'
    BY <1>5, ThreadFacts, ThreadsDiffer DEF Untrace, TypeOK, Undialled, TracedIsClosed,
       NoOrphan, Accepted, SendPCs, ClosePCs
  <2>7. QED
    BY <2>1, <2>2, <2>3, <2>4, <2>5, <2>6
<1>6. QED
  BY <1>1, <1>2, <1>3, <1>4, <1>5 DEF TracerStep

(* The network loses a link that is up. *)
LEMMA LoseLinkInd ==
    ASSUME IInv, NEW c \in Conns, LoseLink(c)
    PROVE  IInv'
<1> USE DEF IInv, Goto, CallClose, Return, connVars, loopVars, traceVars, ghostVars
<1>w. \A t \in Thread, x \in Conns : WorksOn(t, x)' <=> WorksOn(t, x)
  BY DEF WorksOn, LoseLink
<1>1. CASE LoseLink(c)
  <2>1. TypeOK'
    BY <1>1, ThreadFacts, ThreadsDiffer, PCFacts, ConstantFacts DEF LoseLink, TypeOK
  <2>2. Undialled'
    BY <1>1, ThreadFacts, ThreadsDiffer, ConstantFacts DEF LoseLink, TypeOK, Undialled
  <2>3. Started' /\ Returns'
    BY <1>1, ThreadFacts, ThreadsDiffer DEF LoseLink, TypeOK, Started, Returns, ClosePCs
  <2>4. OneCloser'
    BY <1>1, <1>w, ThreadFacts, ThreadsDiffer DEF LoseLink, TypeOK, OneCloser, Closing
  <2>5. CloseOrder' /\ Removed'
    BY <1>1, <1>w, ThreadFacts, ThreadsDiffer DEF LoseLink, TypeOK, Undialled, CloseOrder,
       Removed, Closing, Nilled, Unpublished
  <2>6. TracedIsClosed' /\ NoOrphan'
    BY <1>1, ThreadFacts, ThreadsDiffer DEF LoseLink, TypeOK, Undialled, TracedIsClosed,
       NoOrphan, Accepted, SendPCs, ClosePCs
  <2>7. QED
    BY <2>1, <2>2, <2>3, <2>4, <2>5, <2>6
<1>2. QED
  BY <1>1

-----------------------------------------------------------------------------
(* Every step keeps the invariant. *)
LEMMA StepInd == IInv /\ [Next]_vars => IInv'
<1> SUFFICES ASSUME IInv, [Next]_vars PROVE IInv'
  OBVIOUS
<1>1. CASE UNCHANGED vars
  BY <1>1 DEF vars, connVars, loopVars, traceVars, ghostVars, IInv, TypeOK, Undialled,
     Started, Returns, OneCloser,
     CloseOrder, Removed, TracedIsClosed, NoOrphan, Accepted, WorksOn
<1>2. CASE Next
  BY <1>2, WirerInd, LoopInd, TimerInd, RequestInd, TracerInd, LoseLinkInd DEF Next
<1>3. QED
  BY <1>1, <1>2

LEMMA Invariance == Spec => []IInv
BY InitInd, StepInd, PTL DEF Spec

(* Every variable keeps its type, and a Disconnect request that is under   *)
(* way has found a connection.                                             *)
THEOREM TypeCorrect == Spec => []TypeOK
<1>1. IInv => TypeOK
  BY DEF IInv
<1>2. QED
  BY <1>1, Invariance, PTL

(* However many threads close a connection, and in whatever order their    *)
(* statements come, Conn.Close publishes one NodeRemoved for it at most.   *)
THEOREM RemovedOnce == Spec => []OneRemoval
<1>1. IInv => OneRemoval
  BY DEF IInv, Removed, OneRemoval
<1>2. QED
  BY <1>1, Invariance, PTL

(* Conn.Close hands a node to the tracer with its connection closed, and   *)
(* nothing opens that connection again.                                    *)
THEOREM TracerHoldsClosed == Spec => []TracedIsClosed
<1>1. IInv => TracedIsClosed
  BY DEF IInv
<1>2. QED
  BY <1>1, Invariance, PTL

(* AddConn never replaces a connection that is open: Disconnect and        *)
(* Networks.Close find every one of them.                                  *)
THEOREM LiveIsListed == Spec => []NoOrphan
<1>1. IInv => NoOrphan
  BY DEF IInv
<1>2. QED
  BY <1>1, Invariance, PTL

-----------------------------------------------------------------------------
(* The view of the subscribers: between "c.Conn = nil" and its NodeRemoved *)
(* a connection has a thread that will publish it.                         *)

(* A connection between its dial and AddConn is known to its caller only.  *)
NotAdded ==
    \A c \in Conns : pc[Wirer(c)] = "add" =>
       /\ removals[c] = 0 /\ link[c] # "none" /\ outgoing # c
       /\ \A d \in Requests : target[d] # c

(* A removal is published for connections that were dialled and are closed, *)
(* and what is open or listed was dialled.                                 *)
RemovedClosed == \A c \in Conns : removals[c] # 0 => ~open[c] /\ link[c] # "none"
Dialled == /\ \A c \in Conns : open[c] => link[c] # "none"
           /\ outgoing # Nil => link[outgoing] # "none"

(* Who has closed a connection publishes its removal next.                 *)
WillPublish ==
    \A c \in Conns : link[c] # "none" /\ ~open[c] /\ removals[c] = 0 =>
       \E th \in Thread : WorksOn(th, c) /\ pc[th] \in {"close_inactive", "close_pub"}

Events == NotAdded /\ RemovedClosed /\ Dialled /\ WillPublish

(* What the last event tells of the connection that is listed.             *)
View ==
    /\ seen = "added" => outgoing # Nil /\ about = outgoing /\ removals[outgoing] = 0
    /\ outgoing # Nil /\ removals[outgoing] = 0 /\ seen # "added" => seen = "removed" /\ about # outgoing

-----------------------------------------------------------------------------
(* A step that opens, adds and removes nothing, and takes no thread from   *)
(* or to the places that matter.                                           *)
Moves ==
    /\ UNCHANGED <<outgoing, open, target, removals, seen, about>>
    /\ \A c \in Conns : link'[c] = "none" <=> link[c] = "none"
    /\ \A th \in Thread :
          \/ pc'[th] = pc[th]
          \/ pc'[th] # "add" /\ pc[th] \notin {"close_inactive", "close_pub", "add"}

LEMMA MovesKeep ==
  ASSUME IInv, Events, Moves
  PROVE  Events' /\ (View => View')
<1> USE DEF Moves, Events
<1>1. \A t \in Thread, c \in Conns : WorksOn(t, c)' <=> WorksOn(t, c)
  BY DEF WorksOn
<1>2. NotAdded'
  BY ThreadFacts DEF NotAdded
<1>3. RemovedClosed' 
  BY DEF RemovedClosed
<1>4. Dialled'
  BY DEF Dialled, IInv, TypeOK
<1>5. WillPublish'
  <2> SUFFICES ASSUME NEW c \in Conns, link'[c] # "none", ~open'[c], removals'[c] = 0
               PROVE  \E th \in Thread : WorksOn(th, c)' /\ pc'[th] \in {"close_inactive", "close_pub"}
    BY DEF WillPublish
  <2>1. PICK th \in Thread : WorksOn(th, c) /\ pc[th] \in {"close_inactive", "close_pub"}
    BY DEF WillPublish
  <2>2. pc'[th] = pc[th]
    BY <2>1
  <2> QED
    BY <2>1, <2>2, <1>1
<1>7. View => View'
  BY DEF View
<1> QED
  BY <1>2, <1>3, <1>4, <1>5, <1>7

(* The first two steps of Conn.Close.                                      *)
LEMMA CloseMoves ==
  ASSUME IInv, Dialled, NEW c \in Conns, NEW th \in Thread, WorksOn(th, c), CloseCheck(th, c) \/ CloseSocket(th, c)
  PROVE  Moves
<1> USE DEF IInv, Moves, Goto, CallClose, Return, connVars, loopVars, traceVars, ghostVars
<1>1. CASE CloseCheck(th, c)
  BY <1>1, ThreadFacts, ThreadsDiffer DEF CloseCheck, WorksOn, TypeOK, Returns, ClosePCs
<1>2. CASE CloseSocket(th, c)
  BY <1>2, ThreadFacts, ThreadsDiffer DEF CloseSocket, WorksOn, Dialled, TypeOK, Returns, ClosePCs
<1> QED
  BY <1>1, <1>2

(* Conn.Send.                                                              *)
LEMMA SendMoves ==
  ASSUME IInv, Dialled, NEW c \in Conns, NEW th \in {Wirer(c), Loop(c)}, Send(th, c)
  PROVE  Moves
<1> USE DEF IInv, Moves, Goto, CallClose, Return, connVars, loopVars, traceVars, ghostVars
<1>1. CASE SendCheck(th, c)
  BY <1>1, ThreadFacts, ThreadsDiffer DEF SendCheck, AfterSend, SendFailed, Wirers, TypeOK, Returns, ClosePCs
<1>2. CASE SendWrite(th, c)
  BY <1>2, ThreadFacts, ThreadsDiffer DEF SendWrite, AfterSend, SendFailed, Wirers, TypeOK, Returns, ClosePCs
<1> QED
  BY <1>1, <1>2 DEF Send

(* Wire, after AddConn.                                                    *)
LEMMA WireMoves ==
  ASSUME IInv, Dialled, NEW c \in Conns, WireFails(c) \/ StartTimer(c) \/ WireActivates(c) \/ WireDone(c)
  PROVE  Moves
<1> USE DEF IInv, Moves, Goto, CallClose, Return, connVars, loopVars, traceVars, ghostVars
<1>1. CASE WireFails(c)
  BY <1>1, ThreadFacts, ThreadsDiffer DEF WireFails, TypeOK, Returns, ClosePCs
<1>2. CASE StartTimer(c)
  BY <1>2, ThreadFacts, ThreadsDiffer DEF StartTimer, TypeOK, Returns, ClosePCs
<1>3. CASE WireActivates(c)
  BY <1>3, ThreadFacts, ThreadsDiffer DEF WireActivates, TypeOK, Returns, ClosePCs
<1>4. CASE WireDone(c)
  <2>1. \A t \in Thread : pc'[t] = IF t = Loop(c) THEN "consume" ELSE IF t = Wirer(c) THEN "wired" ELSE pc[t]
    BY <1>4, ThreadFacts, ThreadsDiffer DEF WireDone, TypeOK
  <2>0. /\ pc[Wirer(c)] = "mark" /\ pc[Loop(c)] = "idle"
        /\ UNCHANGED <<outgoing, open, target, removals, seen, about, link, tracing, pings>>
    BY <1>4 DEF WireDone, Started
  <2>2. Moves
    BY <2>0, <2>1
  <2> QED
    BY <2>2
<1> QED
  BY <1>1, <1>2, <1>3, <1>4

(* The packet loop.                                                        *)
LEMMA LoopMoves ==
  ASSUME IInv, Dialled, NEW c \in Conns,
         ConsumeCheck(c) \/ ConsumeRun(c) \/ Decode(c) \/ Heartbeat(c) \/ HeartbeatWaited(c)
         \/ HeartbeatFails(c) \/ PacketFails(c) \/ TunnelRead(c) \/ TunnelAdded(c) \/ LoopEnds(c)
  PROVE  Moves
<1> USE DEF IInv, Moves, Goto, CallClose, Return, connVars, loopVars, traceVars, ghostVars
<1>1. CASE ConsumeCheck(c)
  BY <1>1, ThreadFacts, ThreadsDiffer DEF ConsumeCheck, TypeOK, Returns, ClosePCs
<1>2. CASE ConsumeRun(c)
  BY <1>2, ThreadFacts, ThreadsDiffer DEF ConsumeRun, TypeOK, Returns, ClosePCs
<1>3. CASE Decode(c)
  BY <1>3, ThreadFacts, ThreadsDiffer DEF Decode, TypeOK, Returns, ClosePCs
<1>4. CASE Heartbeat(c)
  BY <1>4, ThreadFacts, ThreadsDiffer DEF Heartbeat, Take, TypeOK, Returns, ClosePCs
<1>5. CASE HeartbeatWaited(c)
  BY <1>5, ThreadFacts, ThreadsDiffer DEF HeartbeatWaited, TypeOK, Returns, ClosePCs
<1>6. CASE HeartbeatFails(c)
  BY <1>6, ThreadFacts, ThreadsDiffer DEF HeartbeatFails, TypeOK, Returns, ClosePCs
<1>7. CASE PacketFails(c)
  BY <1>7, ThreadFacts, ThreadsDiffer DEF PacketFails, Take, TypeOK, Returns, ClosePCs
<1>8. CASE TunnelRead(c)
  BY <1>8, ThreadFacts, ThreadsDiffer DEF TunnelRead, Take, TypeOK, Returns, ClosePCs
<1>9. CASE TunnelAdded(c)
  BY <1>9, ThreadFacts, ThreadsDiffer DEF TunnelAdded, TypeOK, Returns, ClosePCs
<1>10. CASE LoopEnds(c)
  BY <1>10, ThreadFacts, ThreadsDiffer DEF LoopEnds, TypeOK, Returns, ClosePCs
<1> QED
  BY <1>1, <1>2, <1>3, <1>4, <1>5, <1>6, <1>7, <1>8, <1>9, <1>10

(* The heartbeat timer.                                                    *)
LEMMA TimerMoves ==
  ASSUME IInv, Dialled, NEW c \in Conns, TimerFires(c) \/ TimerCallback(c)
  PROVE  Moves
<1> USE DEF IInv, Moves, Goto, CallClose, Return, connVars, loopVars, traceVars, ghostVars
<1>1. CASE TimerFires(c)
  BY <1>1, ThreadFacts, ThreadsDiffer DEF TimerFires, TypeOK, Returns, ClosePCs
<1>2. CASE TimerCallback(c)
  BY <1>2, ThreadFacts, ThreadsDiffer DEF TimerCallback, TypeOK, Returns, ClosePCs
<1> QED
  BY <1>1, <1>2

(* A Disconnect request that has found its connection.                     *)
LEMMA DisconnectMoves ==
  ASSUME IInv, Dialled, NEW d \in Requests, Disconnect(d)
  PROVE  Moves
<1> USE DEF IInv, Moves, Goto, CallClose, Return, connVars, loopVars, traceVars, ghostVars
<1>1. CASE Disconnect(d)
  BY <1>1, ThreadFacts, ThreadsDiffer DEF Disconnect, TypeOK, Returns, ClosePCs
<1> QED
  BY <1>1

(* The network.                                                            *)
LEMMA LinkMoves ==
  ASSUME IInv, Dialled, NEW c \in Conns, LoseLink(c)
  PROVE  Moves
<1> USE DEF IInv, Moves, Goto, CallClose, Return, connVars, loopVars, traceVars, ghostVars
<1>1. CASE LoseLink(c)
  BY <1>1, ThreadFacts, ThreadsDiffer DEF LoseLink, TypeOK, Returns, ClosePCs
<1> QED
  BY <1>1

(* The tracer and TraceNodes, but for the call of Wire.                    *)
LEMMA TracerMoves ==
  ASSUME IInv, Dialled, Reconnected \/ Untrace \/ Ping \/ TracerTimesOut
  PROVE  Moves
<1> USE DEF IInv, Moves, Goto, CallClose, Return, connVars, loopVars, traceVars, ghostVars
<1>1. CASE Reconnected
  BY <1>1, ThreadFacts, ThreadsDiffer DEF Reconnected, TypeOK, Returns, ClosePCs
<1>2. CASE Untrace
  BY <1>2, ThreadFacts, ThreadsDiffer DEF Untrace, TypeOK, Returns, ClosePCs
<1>3. CASE Ping
  BY <1>3, ThreadFacts, ThreadsDiffer DEF Ping, TypeOK, Returns, ClosePCs
<1>4. CASE TracerTimesOut
  BY <1>4, ThreadFacts, ThreadsDiffer DEF TracerTimesOut, TypeOK, Returns, ClosePCs
<1> QED
  BY <1>1, <1>2, <1>3, <1>4

(* The calls of Wire, by an operator and by the tracer.                    *)
LEMMA CallMoves ==
  ASSUME IInv, NEW c \in Conns, CallWire(c)
  PROVE  Moves
BY ThreadFacts, ThreadsDiffer DEF CallWire, IInv, TypeOK, Moves, Goto, connVars, loopVars, traceVars, ghostVars

(* TraceNodes calls Wire for the node that answered the tracer's ping.     *)
LEMMA ReconnectMoves ==
  ASSUME IInv, Reconnect
  PROVE  Moves
BY ThreadFacts, ThreadsDiffer DEF Reconnect, IInv, TypeOK, Moves, connVars, loopVars, ghostVars

(* Where Conn.Close is under way, AddConn is past.                         *)
LEMMA ClosingAdded ==
  ASSUME IInv, NotAdded, NEW c \in Conns, NEW th \in Thread, WorksOn(th, c), pc[th] \in ClosePCs
  PROVE  pc[Wirer(c)] \notin {"idle", "dial", "add"} /\ \A x \in Conns : WorksOn(th, x) => x = c
BY ThreadFacts, ThreadsDiffer DEF IInv, Undialled, Started, NotAdded, WorksOn, ClosePCs

(* The other steps of Conn.Close.                                          *)
LEMMA CloseEvents ==
  ASSUME IInv, Events, NEW c \in Conns, NEW th \in Thread, WorksOn(th, c),
         CloseNil(th, c) \/ CloseInactive(th, c) \/ ClosePub(th, c) \/ CloseTrace(th, c)
  PROVE  Events' /\ (View => View')
<1> USE DEF Events, Goto, Return, connVars, loopVars, traceVars, ghostVars
<1>1. pc[th] \in ClosePCs /\ target' = target /\ outgoing' = outgoing /\ link' = link
  BY DEF CloseNil, CloseInactive, ClosePub, CloseTrace, ClosePCs
<1>2. pc[Wirer(c)] \notin {"idle", "dial", "add"} /\ \A x \in Conns : WorksOn(th, x) => x = c
  BY <1>1, ClosingAdded
<1>3. \A t \in Thread, x \in Conns : WorksOn(t, x)' <=> WorksOn(t, x)
  BY <1>1 DEF WorksOn
<1>4. /\ \A t \in Thread : t # th => pc'[t] = pc[t]
      /\ pc'[th] \notin {"idle", "dial", "add"} \/ th \notin Wirers
      /\ pc[th] # "idle"
  BY ThreadFacts, ThreadsDiffer DEF CloseNil, CloseInactive, ClosePub, CloseTrace, IInv, TypeOK, Returns, ClosePCs,
     Wirers, WorksOn
<1>5. \A x \in Conns : pc'[Wirer(x)] = pc[Wirer(x)] \/ pc'[Wirer(x)] # "add"
  BY <1>4, ThreadFacts DEF Wirers
<1>6. CASE CloseNil(th, c)
  <2>1. /\ pc'[th] = "close_inactive" /\ pc[th] = "close_nil" /\ UNCHANGED <<removals, seen, about>>
        /\ open' = [open EXCEPT ![c] = FALSE] /\ open \in [Conns -> BOOLEAN]
    BY <1>6 DEF CloseNil, IInv, TypeOK
  <2>2. NotAdded' /\ RemovedClosed' /\ Dialled'
    BY <1>1, <1>4, <1>5, <2>1, ThreadFacts DEF NotAdded, RemovedClosed, Dialled
  <2>3. WillPublish'
    BY <1>1, <1>3, <1>4, <2>1 DEF WillPublish
  <2>5. View => View'
    BY <1>1, <1>2, <1>4, <2>1, ThreadFacts DEF View
  <2> QED
    BY <2>2, <2>3, <2>5
<1>7. CASE CloseInactive(th, c)
  <2>1. /\ pc'[th] = "close_pub" /\ pc[th] = "close_inactive" /\ UNCHANGED <<removals, seen, about, open>>
    BY <1>7 DEF CloseInactive, IInv, TypeOK
  <2>2. NotAdded' /\ RemovedClosed' /\ Dialled'
    BY <1>1, <1>4, <1>5, <2>1, ThreadFacts DEF NotAdded, RemovedClosed, Dialled
  <2>3. WillPublish'
    BY <1>1, <1>3, <1>4, <2>1 DEF WillPublish
  <2>5. View => View'
    BY <1>1, <1>2, <1>4, <2>1, ThreadFacts DEF View
  <2> QED
    BY <2>2, <2>3, <2>5
<1>8. CASE ClosePub(th, c)
  <2>1. /\ pc'[th] = "close_trace" /\ pc[th] = "close_pub" /\ UNCHANGED open /\ seen' = "removed" /\ about' = c
        /\ removals[c] = 0 /\ removals'[c] # 0 /\ (\A x \in Conns : x # c => removals'[x] = removals[x])
        /\ ~open[c] /\ link[c] = "closed"
    BY <1>8 DEF ClosePub, IInv, TypeOK, CloseOrder, Closing, Nilled, Unpublished
  <2>2. NotAdded' /\ RemovedClosed' /\ Dialled'
    BY <1>1, <1>2, <1>4, <1>5, <2>1, ThreadFacts DEF NotAdded, RemovedClosed, Dialled
  <2>3. WillPublish'
    BY <1>1, <1>2, <1>3, <1>4, <2>1 DEF WillPublish
  <2>5. View => View'
    BY <1>1, <1>2, <1>4, <2>1, ThreadFacts, ConstantFacts DEF View
  <2> QED
    BY <2>2, <2>3, <2>5
<1>9. CASE CloseTrace(th, c)
  <2>1. /\ pc[th] = "close_trace" /\ UNCHANGED <<removals, open, seen, about>>
    BY <1>9 DEF CloseTrace
  <2>2. NotAdded' /\ RemovedClosed' /\ Dialled'
    BY <1>1, <1>4, <1>5, <2>1, ThreadFacts DEF NotAdded, RemovedClosed, Dialled
  <2>3. WillPublish'
    BY <1>1, <1>3, <1>4, <2>1 DEF WillPublish
  <2>5. View => View'
    BY <1>1, <1>2, <1>4, <2>1, ThreadFacts DEF View
  <2> QED
    BY <2>2, <2>3, <2>5
<1> QED
  BY <1>6, <1>7, <1>8, <1>9

(* A dial.                                                                 *)
LEMMA DialEvents ==
  ASSUME IInv, Events, NEW c \in Conns, Dial(c)
  PROVE  Events' /\ (View => View')
<1> USE DEF Events, Goto, connVars, loopVars, traceVars, ghostVars
<1>1. /\ pc[Wirer(c)] = "dial" /\ \A t \in Thread : t # Wirer(c) => pc'[t] = pc[t]
      /\ UNCHANGED <<outgoing, target, removals, seen, about>>
      /\ pc'[Wirer(c)] \in {"add", "failed"}
      /\ \/ pc'[Wirer(c)] = "add" /\ open'[c] /\ link'[c] = "up"
         \/ pc'[Wirer(c)] = "failed" /\ open'[c] = open[c] /\ link'[c] = link[c]
      /\ \A x \in Conns : x # c => open'[x] = open[x] /\ link'[x] = link[x]
  BY ThreadFacts, ThreadsDiffer DEF Dial, IInv, TypeOK
<1>2. /\ link[c] = "none" /\ ~open[c] /\ removals[c] = 0 /\ outgoing # c
      /\ \A d \in Requests : target[d] # c
  BY <1>1 DEF IInv, Undialled
<1>3. \A t \in Thread, x \in Conns : WorksOn(t, x)' <=> WorksOn(t, x)
  BY <1>1 DEF WorksOn
<1>4. \A x \in Conns : x # c => pc'[Wirer(x)] = pc[Wirer(x)]
  BY <1>1, ThreadFacts, ThreadsDiffer
<1>5. NotAdded'
  BY <1>1, <1>2, <1>4 DEF NotAdded
<1>6. RemovedClosed' /\ Dialled'
  BY <1>1, <1>2 DEF RemovedClosed, Dialled, IInv, TypeOK
<1>7. WillPublish'
  <2> SUFFICES ASSUME NEW x \in Conns, link'[x] # "none", ~open'[x], removals'[x] = 0
               PROVE  \E th \in Thread : WorksOn(th, x)' /\ pc'[th] \in {"close_inactive", "close_pub"}
    BY DEF WillPublish
  <2>1. x # c /\ link[x] # "none" /\ ~open[x] /\ removals[x] = 0
    BY <1>1, <1>2
  <2>2. PICK th \in Thread : WorksOn(th, x) /\ pc[th] \in {"close_inactive", "close_pub"}
    BY <2>1 DEF WillPublish
  <2>3. pc'[th] = pc[th]
    BY <2>2, <1>1
  <2> QED
    BY <2>2, <2>3, <1>3
<1>9. View => View'
  BY <1>1, <1>2, <1>4 DEF View
<1> QED
  BY <1>5, <1>6, <1>7, <1>9

(* AddConn, which keeps the entry or makes the connection the listed one.  *)
LEMMA AddEvents ==
  ASSUME IInv, Events, NEW c \in Conns, AddConn(c)
  PROVE  Events' /\ (View => View')
<1> USE DEF Events, Goto, CallClose, connVars, loopVars, traceVars, ghostVars
<1>1. /\ pc[Wirer(c)] = "add" /\ \A t \in Thread : t # Wirer(c) => pc'[t] = pc[t]
      /\ UNCHANGED <<target, removals, open, link>>
      /\ pc'[Wirer(c)] \in {"close_check", "send_check"}
  BY ThreadFacts, ThreadsDiffer DEF AddConn, IInv, TypeOK
<1>2. \/ outgoing # Nil /\ open[outgoing] /\ UNCHANGED <<outgoing, seen, about>>
      \/ outgoing' = c /\ seen' = "added" /\ about' = c
  BY DEF AddConn
<1>3. \A t \in Thread, x \in Conns : WorksOn(t, x)' <=> WorksOn(t, x)
  BY <1>1 DEF WorksOn
<1>4. \A x \in Conns : x # c => pc'[Wirer(x)] = pc[Wirer(x)]
  BY <1>1, ThreadFacts, ThreadsDiffer
<1>5. removals[c] = 0 /\ link[c] # "none"
  BY <1>1 DEF NotAdded
<1>7. NotAdded'
  BY <1>1, <1>2, <1>4 DEF NotAdded
<1>8. RemovedClosed' /\ Dialled'
  BY <1>1, <1>2, <1>5 DEF RemovedClosed, Dialled
<1>9. WillPublish'
  BY <1>1, <1>3 DEF WillPublish
<1>10. View => View'
  BY <1>1, <1>2, <1>5, ConstantFacts DEF View
<1> QED
  BY <1>7, <1>8, <1>9, <1>10

(* A Disconnect request that looks for its connection.                     *)
LEMMA RequestEvents ==
  ASSUME IInv, Events, NEW d \in Requests, CallDisconnect(d)
  PROVE  Events' /\ (View => View')
<1> USE DEF Events, Goto, connVars, loopVars, traceVars, ghostVars
<1>1. /\ pc[Request(d)] = "idle" /\ \A t \in Thread : t # Request(d) => pc'[t] = pc[t]
      /\ UNCHANGED <<outgoing, removals, open, link, seen, about>>
      /\ pc'[Request(d)] \in {"done", "untrace"}
      /\ target'[d] = outgoing /\ \A r \in Requests : r # d => target'[r] = target[r]
  BY ThreadFacts, ThreadsDiffer DEF CallDisconnect, IInv, TypeOK
<1>2. \A x \in Conns : pc'[Wirer(x)] = pc[Wirer(x)]
  BY <1>1, ThreadFacts, ThreadsDiffer
<1>3. \A t \in Thread, x \in Conns : t # Request(d) => (WorksOn(t, x)' <=> WorksOn(t, x))
  BY <1>1 DEF WorksOn
<1>5. NotAdded'
  BY <1>1, <1>2 DEF NotAdded
<1>6. RemovedClosed' /\ Dialled'
  BY <1>1 DEF RemovedClosed, Dialled
<1>7. WillPublish'
  <2> SUFFICES ASSUME NEW x \in Conns, link'[x] # "none", ~open'[x], removals'[x] = 0
               PROVE  \E th \in Thread : WorksOn(th, x)' /\ pc'[th] \in {"close_inactive", "close_pub"}
    BY DEF WillPublish
  <2>1. PICK th \in Thread : WorksOn(th, x) /\ pc[th] \in {"close_inactive", "close_pub"}
    BY <1>1 DEF WillPublish
  <2>2. th # Request(d) /\ pc'[th] = pc[th]
    BY <2>1, <1>1
  <2> QED
    BY <2>1, <2>2, <1>3
<1>9. View => View'
  BY <1>1, <1>2 DEF View
<1> QED
  BY <1>5, <1>6, <1>7, <1>9

(* Every step keeps what holds of the events.                              *)
LEMMA EventsStep ==
  ASSUME IInv, Events, [Next]_vars
  PROVE  Events' /\ (View => View')
<1>1. ASSUME Moves PROVE Events' /\ (View => View')
  BY <1>1, MovesKeep
<1>2. Dialled
  BY DEF Events
<1>3. ASSUME NEW c \in Conns, NEW th \in Thread, WorksOn(th, c), Close(th, c)
      PROVE  Events' /\ (View => View')
  BY <1>1, <1>2, <1>3, CloseMoves, CloseEvents DEF Close
<1>4. ASSUME NEW c \in Conns, CallWire(c) \/ WirerStep(c) PROVE Events' /\ (View => View')
  <2>1. CASE CallWire(c)
    BY <1>1, <2>1, CallMoves
  <2>2. CASE Dial(c)
    BY <2>2, DialEvents
  <2>3. CASE AddConn(c)
    BY <2>3, AddEvents
  <2>4. CASE WireFails(c) \/ StartTimer(c) \/ WireActivates(c) \/ WireDone(c)
    BY <1>1, <1>2, <2>4, WireMoves
  <2>5. CASE Send(Wirer(c), c)
    BY <1>1, <1>2, <2>5, SendMoves, ThreadFacts
  <2>6. CASE Close(Wirer(c), c)
    BY <1>3, <2>6, ThreadFacts DEF WorksOn
  <2> QED
    BY <1>4, <2>1, <2>2, <2>3, <2>4, <2>5, <2>6 DEF WirerStep
<1>5. ASSUME NEW c \in Conns, Decode(c) \/ LoopStep(c) PROVE Events' /\ (View => View')
  <2>1. CASE Send(Loop(c), c)
    BY <1>1, <1>2, <2>1, SendMoves, ThreadFacts
  <2>2. CASE Close(Loop(c), c)
    BY <1>3, <2>2, ThreadFacts DEF WorksOn
  <2>3. CASE Decode(c) \/ (LoopStep(c) /\ ~Send(Loop(c), c) /\ ~Close(Loop(c), c))
    BY <1>1, <1>2, <2>3, LoopMoves DEF LoopStep
  <2> QED
    BY <1>5, <2>1, <2>2, <2>3
<1>6. ASSUME NEW c \in Conns, TimerStep(c) \/ LoseLink(c) PROVE Events' /\ (View => View')
  <2>1. CASE TimerFires(c) \/ TimerCallback(c)
    BY <1>1, <1>2, <2>1, TimerMoves
  <2>2. CASE Close(Timer(c), c)
    BY <1>3, <2>2, ThreadFacts DEF WorksOn
  <2>3. CASE LoseLink(c)
    BY <1>1, <1>2, <2>3, LinkMoves
  <2> QED
    BY <1>6, <2>1, <2>2, <2>3 DEF TimerStep
<1>7. ASSUME NEW d \in Requests, CallDisconnect(d) \/ RequestStep(d) PROVE Events' /\ (View => View')
  <2>1. CASE CallDisconnect(d)
    BY <2>1, RequestEvents
  <2>2. CASE Disconnect(d)
    BY <1>1, <1>2, <2>2, DisconnectMoves
  <2>3. CASE Close(Request(d), target[d])
    <3>1. target[d] \in Conns
      BY <2>3, ThreadFacts DEF IInv, TypeOK, Close, CloseCheck, CloseSocket, CloseNil,
         CloseInactive, ClosePub, CloseTrace
    <3> QED
      BY <1>3, <2>3, <3>1, ThreadFacts DEF WorksOn
  <2> QED
    BY <1>7, <2>1, <2>2, <2>3 DEF RequestStep
<1>8. CASE TracerStep \/ Ping \/ TracerTimesOut
  BY <1>1, <1>2, <1>8, ReconnectMoves, TracerMoves DEF TracerStep
<1>9. CASE UNCHANGED vars
  <2>1. Moves
    BY <1>9 DEF vars, connVars, loopVars, traceVars, ghostVars, Moves
  <2> QED
    BY <1>1, <2>1
<1>10. CASE Next
  BY <1>4, <1>5, <1>6, <1>7, <1>8, <1>10 DEF Next
<1> QED
  BY <1>9, <1>10

(* At the start nothing has been published.                                *)
LEMMA EventsInit == Init => Events /\ View
BY ThreadFacts DEF Init, Events, NotAdded, RemovedClosed, Dialled, WillPublish, View

(* Once nothing is under way, what is closed was published as removed.     *)
LEMMA ViewIsRight ==
  ASSUME IInv, Events, View
  PROVE  ViewRight
<1> SUFFICES ASSUME Quiet
             PROVE  /\ seen = "added" => Connected /\ about = outgoing
                    /\ Connected /\ seen # "added" => seen = "removed" /\ about # outgoing
  BY DEF ViewRight
<1>1. CASE outgoing = Nil
  BY <1>1 DEF View, Connected
<1>2. CASE outgoing # Nil
  <2>1. outgoing \in Conns /\ link[outgoing] # "none" /\ open[outgoing] \in BOOLEAN
    BY <1>2 DEF Events, Dialled, IInv, TypeOK
  <2>2. ASSUME NEW th \in Thread, WorksOn(th, outgoing) PROVE pc[th] \notin {"close_inactive", "close_pub"}
    BY <2>1, <2>2 DEF WorksOn, Quiet
  <2>3. (removals[outgoing] = 0) <=> open[outgoing]
    BY <2>1, <2>2 DEF Events, RemovedClosed, WillPublish
  <2> QED
    BY <1>2, <2>1, <2>3 DEF View, Connected
<1> QED
  BY <1>1, <1>2

(* What subscribers may conclude from NodeAdded (AddConn, network.go:352)  *)
(* and NodeRemoved (Conn.Close, network.go:492) once nothing is under way:  *)
(* a node added last is connected, and a listed connection is hidden by    *)
(* the removal of another connection only.  Any number of connections,     *)
(* operators that connect the node at once, losses, pings and requests.    *)
THEOREM EventsTell == Spec => []ViewRight
<1>1. Init => IInv /\ Events /\ View
  BY InitInd, EventsInit
<1>2. IInv /\ Events /\ View /\ [Next]_vars => (IInv /\ Events /\ View)'
  BY StepInd, EventsStep
<1>3. IInv /\ Events /\ View => ViewRight
  BY ViewIsRight
<1> QED
  BY <1>1, <1>2, <1>3, PTL DEF Spec
=============================================================================
