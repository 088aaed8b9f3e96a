------------------------------ MODULE Lifecycle ------------------------------
(***************************************************************************)
(* Starting, restarting and stopping a booster node: Booster.Run, the      *)
(* goroutine it starts for each run (Booster.run), the services that one   *)
(* starts (ListenAndServe, Proxy.ListenAndServe, UpdateRoot, TraceNodes),  *)
(* Booster.Close and Booster.Restart.                                      *)
(*                                                                         *)
(* The channels stop, restart and the errc of Run are unbuffered: a send   *)
(* and its receive are one step.  The errc of run has room for a message   *)
(* of every service, so a service never blocks on it.  A service that is   *)
(* told to stop does so (what may keep it from that is modelled in PubSub  *)
(* and Connections), and it cannot start while the same service of an      *)
(* earlier run still has its port or the tracer.                           *)
(***************************************************************************)
EXTENDS Integers

CONSTANTS
    Services,   \* the services of a run
    Closers,    \* calls of Close: an interrupt, CtrlStop requests
    Restarters, \* calls of Restart: CtrlRestart requests
    Fails,      \* whether a service may fail by itself
    MaxRuns     \* bound: how many runs Run starts

ASSUME ConstantsAssumption ==
    /\ MaxRuns \in Nat \ {0}
    /\ Services # {}
    /\ Closers \cap Restarters = {}
    /\ Fails \in BOOLEAN

Callers == Closers \cup Restarters
Runs == 1..MaxRuns

VARIABLES
    main,       \* Run: spawn, select, stopping, restarting, done
    current,    \* the last run it started
    inner,      \* per run, where Booster.run is
    service,    \* per run and service, where its goroutine is
    cancelled,  \* per run, its context is cancelled
    errcClosed, \* per run, its errc is closed
    cancel,     \* the run whose CancelFunc Run's variable holds, 0 if nil
    caller,     \* where each call of Close or Restart is
    panicked,   \* the process has ended in a panic
    early,      \* history: Run took a request before run() had set cancel
    late        \* history: per run, the services that began after its Wait

vars == <<main, current, inner, service, cancelled, errcClosed, cancel, caller,
          panicked, early, late>>

MainPCs == {"spawn", "select", "stopping", "restarting", "done"}
InnerPCs == {"none", "start", "first", "check", "close", "wait", "waited", "report", "ended"}
ServicePCs == {"none", "spawned", "added", "running", "returned", "sent", "over"}
CallerPCs == {"idle", "drop", "send", "returned"}

TypeOK ==
    /\ main \in MainPCs
    /\ current \in {0} \cup Runs
    /\ inner \in [Runs -> InnerPCs]
    /\ service \in [Runs -> [Services -> ServicePCs]]
    /\ cancelled \in [Runs -> BOOLEAN]
    /\ errcClosed \in [Runs -> BOOLEAN]
    /\ cancel \in {0} \cup Runs
    /\ caller \in [Callers -> CallerPCs]
    /\ {panicked, early} \subseteq BOOLEAN
    /\ late \in [Runs -> SUBSET Services]

Init ==
    /\ main = "spawn"
    /\ current = 0
    /\ inner = [r \in Runs |-> "none"]
    /\ service = [r \in Runs |-> [s \in Services |-> "none"]]
    /\ cancelled = [r \in Runs |-> FALSE]
    /\ errcClosed = [r \in Runs |-> FALSE]
    /\ cancel = 0
    /\ caller = [q \in Callers |-> "idle"]
    /\ panicked = FALSE
    /\ early = FALSE
    /\ late = [r \in Runs |-> {}]

InnerGoto(r, label) == inner' = [inner EXCEPT ![r] = label]
ServiceGoto(r, s, label) == service' = [service EXCEPT ![r][s] = label]

-----------------------------------------------------------------------------
(* Booster.Run.                                                            *)

(* go run(), and on to the select. *)
Spawn ==
    /\ main = "spawn"
    /\ current' = current + 1
    /\ InnerGoto(current', "start")
    /\ main' = "select"
    /\ UNCHANGED <<service, cancelled, errcClosed, cancel, caller, panicked, early, late>>

(* cancel(): the variable is shared with the goroutine that sets it. *)
CallCancel ==
    /\ early' = (early \/ cancel # current)
    /\ IF cancel = 0
         THEN panicked' = TRUE /\ UNCHANGED cancelled
         ELSE cancelled' = [cancelled EXCEPT ![cancel] = TRUE] /\ UNCHANGED panicked

(* Mutant: without cancel(). *)
TakeStopNoCancel ==
    /\ main = "select"
    /\ \/ \E q \in Closers : /\ caller[q] = "send"
                             /\ caller' = [caller EXCEPT ![q] = "returned"]
                             /\ UNCHANGED inner
       \/ \E r \in Runs : /\ inner[r] = "close"
                          /\ InnerGoto(r, "wait")
                          /\ UNCHANGED caller
    /\ main' = "stopping"
    /\ UNCHANGED <<current, service, cancelled, errcClosed, cancel, panicked, early, late>>

(* case <-b.stop, from a call of Close or from run itself. *)
TakeStop ==
    /\ main = "select"
    /\ \/ \E q \in Closers : /\ caller[q] = "send"
                             /\ caller' = [caller EXCEPT ![q] = "returned"]
                             /\ UNCHANGED inner
       \/ \E r \in Runs : /\ inner[r] = "close"
                          /\ InnerGoto(r, "wait")
                          /\ UNCHANGED caller
    /\ CallCancel
    /\ main' = "stopping"
    /\ UNCHANGED <<current, service, errcClosed, cancel, late>>

(* Mutant: the next run starts without "<-errc". *)
TakeRestartNoWait ==
    /\ main = "select"
    /\ current < MaxRuns
    /\ \E q \in Restarters : /\ caller[q] = "send"
                             /\ caller' = [caller EXCEPT ![q] = "returned"]
    /\ CallCancel
    /\ main' = "spawn"
    /\ UNCHANGED <<current, inner, service, errcClosed, cancel, late>>

(* case <-b.restart. *)
TakeRestart ==
    /\ main = "select"
    /\ current < MaxRuns
    /\ \E q \in Restarters : /\ caller[q] = "send"
                             /\ caller' = [caller EXCEPT ![q] = "returned"]
    /\ CallCancel
    /\ main' = "restarting"
    /\ UNCHANGED <<current, inner, service, errcClosed, cancel, late>>

(* <-errc, in the select or after a stop or a restart; the goroutine's      *)
(* deferred cancel() follows.                                               *)
TakeResult(r) ==
    /\ main \in {"select", "stopping", "restarting"}
    /\ inner[r] = "report"
    /\ InnerGoto(r, "ended")
    /\ cancelled' = [cancelled EXCEPT ![r] = TRUE]
    /\ main' = IF main = "restarting" THEN "spawn" ELSE "done"
    /\ UNCHANGED <<current, service, errcClosed, cancel, caller, panicked, early, late>>

MainStep ==
    ~panicked /\ (Spawn \/ TakeStop \/ TakeRestart \/ \E r \in Runs : TakeResult(r))

-----------------------------------------------------------------------------
(* Booster.run.                                                            *)

(* Set ctx and cancel, and start the services. *)
InnerStart(r) ==
    /\ inner[r] = "start"
    /\ cancel' = r
    /\ service' = [service EXCEPT ![r] = [s \in Services |-> "spawned"]]
    /\ InnerGoto(r, "first")
    /\ UNCHANGED <<main, current, cancelled, errcClosed, caller, panicked, early, late>>

(* err := <-errc *)
InnerFirst(r) ==
    /\ inner[r] = "first"
    /\ \E s \in Services : service[r][s] \in {"sent", "over"}
    /\ InnerGoto(r, "check")
    /\ UNCHANGED <<main, current, service, cancelled, errcClosed, cancel,
                   caller, panicked, early, late>>

(* Mutant: the failure of a service does not close the node. *)
InnerCheckWaits(r) ==
    /\ inner[r] = "check"
    /\ InnerGoto(r, "wait")
    /\ UNCHANGED <<main, current, service, cancelled, errcClosed, cancel,
                   caller, panicked, early, late>>

(* A service failed, but nobody stopped the run: Close (see TakeStop). *)
InnerCheck(r) ==
    /\ inner[r] = "check"
    /\ InnerGoto(r, IF cancelled[r] THEN "wait" ELSE "close")
    /\ UNCHANGED <<main, current, service, cancelled, errcClosed, cancel,
                   caller, panicked, early, late>>

(* What wg counts. *)
Counted(r) ==
    {s \in Services : service[r][s] \in {"added", "running", "returned", "sent"}}

(* Mutant: without wg.Wait(). *)
InnerWaitNot(r) ==
    /\ inner[r] = "wait"
    /\ InnerGoto(r, "waited")
    /\ UNCHANGED <<main, current, service, cancelled, errcClosed, cancel,
                   caller, panicked, early, late>>

(* wg.Wait() *)
InnerWait(r) ==
    /\ inner[r] = "wait"
    /\ Counted(r) = {}
    /\ InnerGoto(r, "waited")
    /\ UNCHANGED <<main, current, service, cancelled, errcClosed, cancel,
                   caller, panicked, early, late>>

(* The deferred close(errc). *)
InnerClose(r) ==
    /\ inner[r] = "waited"
    /\ errcClosed' = [errcClosed EXCEPT ![r] = TRUE]
    /\ InnerGoto(r, "report")
    /\ UNCHANGED <<main, current, service, cancelled, cancel, caller,
                   panicked, early, late>>

InnerStep(r) ==
    /\ ~panicked
    /\ \/ InnerStart(r) \/ InnerFirst(r) \/ InnerCheck(r) \/ InnerWait(r)
       \/ InnerClose(r)

-----------------------------------------------------------------------------
(* The goroutine of a service.                                             *)

(* wg.Add(1), by the goroutine itself: perhaps after Wait, or as Wait wakes *)
(* up, which is a panic of the WaitGroup.                                   *)
Add(r, s) ==
    /\ service[r][s] = "spawned"
    /\ ServiceGoto(r, s, "added")
    /\ LET woken == inner[r] = "wait" /\ Counted(r) = {}
           passed == inner[r] \in {"waited", "report", "ended"} IN
       /\ late' = [late EXCEPT ![r] = IF woken \/ passed THEN @ \cup {s} ELSE @]
       /\ panicked' \in {panicked, woken}
    /\ UNCHANGED <<main, current, inner, cancelled, errcClosed, cancel, caller, early>>

(* Listen, subscribe or run the tracer: an error if an earlier run still    *)
(* has what the service needs.                                              *)
Begin(r, s) ==
    /\ service[r][s] = "added"
    /\ ServiceGoto(r, s, IF \E q \in Runs \ {r} : service[q][s] = "running"
                           THEN "returned" ELSE "running")
    /\ UNCHANGED <<main, current, inner, cancelled, errcClosed, cancel,
                   caller, panicked, early, late>>

(* The service returns because its context is cancelled. *)
StopService(r, s) ==
    /\ service[r][s] = "running"
    /\ cancelled[r]
    /\ ServiceGoto(r, s, "returned")
    /\ UNCHANGED <<main, current, inner, cancelled, errcClosed, cancel,
                   caller, panicked, early, late>>

(* Its listener, its subscription or a hello packet fails. *)
FailService(r, s) ==
    /\ Fails
    /\ service[r][s] = "running"
    /\ ServiceGoto(r, s, "returned")
    /\ UNCHANGED <<main, current, inner, cancelled, errcClosed, cancel,
                   caller, panicked, early, late>>

(* errc <- err *)
SendResult(r, s) ==
    /\ service[r][s] = "returned"
    /\ IF errcClosed[r]
         THEN panicked' = TRUE /\ UNCHANGED service
         ELSE ServiceGoto(r, s, "sent") /\ UNCHANGED panicked
    /\ UNCHANGED <<main, current, inner, cancelled, errcClosed, cancel,
                   caller, early, late>>

(* wg.Done() *)
Done(r, s) ==
    /\ service[r][s] = "sent"
    /\ ServiceGoto(r, s, "over")
    /\ UNCHANGED <<main, current, inner, cancelled, errcClosed, cancel,
                   caller, panicked, early, late>>

ServiceStep(r, s) ==
    /\ ~panicked
    /\ \/ Add(r, s) \/ Begin(r, s) \/ StopService(r, s) \/ SendResult(r, s)
       \/ Done(r, s)

-----------------------------------------------------------------------------
(* Close and Restart.                                                      *)

CallClose(q) ==
    /\ caller[q] = "idle"
    /\ caller' = [caller EXCEPT ![q] = "send"]
    /\ UNCHANGED <<main, current, inner, service, cancelled, errcClosed,
                   cancel, panicked, early, late>>

CallRestart(q) ==
    /\ caller[q] = "idle"
    /\ caller' = [caller EXCEPT ![q] = "drop"]
    /\ UNCHANGED <<main, current, inner, service, cancelled, errcClosed,
                   cancel, panicked, early, late>>

(* Restart first closes the connections of the network (see Connections).  *)
DropNetwork(q) ==
    /\ caller[q] = "drop"
    /\ caller' = [caller EXCEPT ![q] = "send"]
    /\ UNCHANGED <<main, current, inner, service, cancelled, errcClosed,
                   cancel, panicked, early, late>>

Next ==
    \/ MainStep
    \/ \E r \in Runs : InnerStep(r)
    \/ \E r \in Runs, s \in Services :
          ServiceStep(r, s) \/ (~panicked /\ FailService(r, s))
    \/ /\ ~panicked
       /\ \/ \E q \in Closers : CallClose(q)
          \/ \E q \in Restarters : CallRestart(q) \/ DropNetwork(q)

(* Goroutines run; nothing has to fail, and nobody has to call. *)
Fairness ==
    /\ WF_vars(MainStep)
    /\ \A r \in Runs : WF_vars(InnerStep(r))
    /\ \A r \in Runs, s \in Services : WF_vars(ServiceStep(r, s))
    /\ \A q \in Restarters : WF_vars(~panicked /\ DropNetwork(q))

Spec == Init /\ [][Next]_vars
FairSpec == Spec /\ Fairness
-----------------------------------------------------------------------------
(* "wait for every rountine to return before quitting" (booster.go:220): a  *)
(* run closes its errc when its services have returned, but for those whose *)
(* goroutines were scheduled too late to be waited for.                     *)
Straggler(r, s) == service[r][s] = "spawned" \/ s \in late[r]

WaitsForAll ==
    \A r \in Runs : errcClosed[r] =>
       \A s \in Services : service[r][s] = "over" \/ Straggler(r, s)

(* Runs do not overlap, however many stops, restarts and failures come at   *)
(* whatever moment (booster.go:170): a run starts when the services of the  *)
(* earlier ones are over; such a straggler has a cancelled context.         *)
NoOverlap ==
    \A r, q \in Runs : r < q /\ inner[q] # "none" =>
       \A s \in Services :
          service[r][s] = "over" \/ (Straggler(r, s) /\ cancelled[r])

(* The process panics only if Run took a request before the goroutine of    *)
(* the first run had set cancel (booster.go:154), or because of a straggler *)
(* (booster.go:189).                                                        *)
PanicCauses == panicked => early \/ \E r \in Runs : late[r] # {}

(* run has met a failure and calls Close while Run, which has just taken    *)
(* another request, waits for run (booster.go:217).                         *)
Blocked == main \in {"stopping", "restarting"} /\ inner[current] = "close"

(* "can be stopped using the Close() method" (booster.go:134): a stop that  *)
(* Run has taken ends it, unless it came too early or met a failure.        *)
StopStops == main = "stopping" ~> main = "done" \/ panicked \/ early \/ Blocked

(* The failure of one service ends the node, or the run if a restart comes  *)
(* first, with the same exceptions (booster.go:214).                        *)
FailureEnds ==
    \A r \in Runs, s \in Services :
       service[r][s] = "returned" /\ ~cancelled[r]
          ~> main = "done" \/ current # r \/ panicked \/ early \/ Blocked
=============================================================================
