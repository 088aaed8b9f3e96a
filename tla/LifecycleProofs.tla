-------------------------- MODULE LifecycleProofs ---------------------------
(***************************************************************************)
(* Proofs about Lifecycle, for any number of services, requests and runs,  *)
(* and requests and failures at any moment: a run waits for the services   *)
(* that have begun, runs do not overlap but for stragglers, and what the   *)
(* panics of the process come from.                                        *)
(***************************************************************************)
EXTENDS Lifecycle, TLAPS

(* Run has one run at work at a time, and the earlier ones have ended. *)
OneRun ==
    \A r \in Runs :
       /\ r < current => inner[r] = "ended"
       /\ r > current => inner[r] = "none"
       /\ r = current => inner[r] # "none"

(* Where Run and the current run are, relative to each other. *)
MainAndRun ==
    /\ main \in {"spawn", "restarting"} => current < MaxRuns
    /\ main = "spawn" /\ current # 0 => inner[current] = "ended"
    /\ main = "select" =>
          /\ current # 0
          /\ ~cancelled[current]
          /\ inner[current] \in {"start", "first", "check", "close"}

(* A run that has not begun has touched nothing, one that has has spawned   *)
(* all of its services.                                                     *)
Untouched ==
    \A r \in Runs :
       IF inner[r] \in {"none", "start"}
         THEN ~cancelled[r] /\ \A s \in Services : service[r][s] = "none"
         ELSE \A s \in Services : service[r][s] # "none"

(* Past Wait, what is left of a run are the services that came too late. *)
Waited ==
    \A r \in Runs : inner[r] \in {"waited", "report", "ended"} =>
       \A s \in Services : service[r][s] = "over" \/ Straggler(r, s)

(* The errc of a run is closed just before it reports. *)
ClosedLast == \A r \in Runs : inner[r] \in {"report", "ended"} <=> errcClosed[r]

(* A run that looks at its first result has set Run's variable cancel, and  *)
(* one that waits has been cancelled.                                       *)
CancelSet ==
    /\ cancel # 0 => inner[cancel] \notin {"none", "start"}
    /\ \A r \in Runs :
          /\ inner[r] \in {"first", "check", "close"} => cancel = r
          /\ inner[r] \in {"wait", "waited", "report", "ended"} => cancelled[r]

(* The inductive invariant. *)
IInv ==
    /\ TypeOK
    /\ OneRun
    /\ MainAndRun
    /\ Untouched
    /\ Waited
    /\ ClosedLast
    /\ CancelSet
    /\ PanicCauses

-----------------------------------------------------------------------------
(* The initial state satisfies the invariant. *)
LEMMA InitInd == Init => IInv
<1> SUFFICES ASSUME Init PROVE IInv
  OBVIOUS
<1>1. TypeOK
  BY DEF Init, TypeOK, MainPCs, InnerPCs, ServicePCs, CallerPCs
<1>2. OneRun /\ MainAndRun
  BY ConstantsAssumption DEF Init, OneRun, MainAndRun, Runs
<1>3. Untouched /\ Waited /\ ClosedLast
  BY DEF Init, Untouched, Waited, ClosedLast
<1>4. CancelSet /\ PanicCauses
  BY DEF Init, CancelSet, PanicCauses
<1>5. QED
  BY <1>1, <1>2, <1>3, <1>4 DEF IInv

(* Run starts the next run. *)
LEMMA SpawnInd ==
    ASSUME IInv, Spawn
    PROVE  IInv'
<1> USE ConstantsAssumption DEF IInv, Runs, Callers, Spawn, InnerGoto
<1>1. TypeOK'
  BY DEF TypeOK, MainPCs, InnerPCs, MainAndRun
<1>2. OneRun' /\ MainAndRun'
  BY DEF TypeOK, OneRun, MainAndRun, Untouched
<1>3. Untouched'
  BY DEF TypeOK, OneRun, Untouched
<1>4. Waited'
  BY DEF TypeOK, OneRun, Waited, Straggler
<1>5. ClosedLast'
  BY DEF TypeOK, OneRun, ClosedLast
<1>6. CancelSet'
  BY DEF TypeOK, OneRun, CancelSet
<1>7. PanicCauses'
  BY DEF TypeOK, PanicCauses
<1>8. QED
  BY <1>1, <1>2, <1>3, <1>4, <1>5, <1>6, <1>7

(* A stop is received, from a caller or from the run itself. *)
LEMMA TakeStopInd ==
    ASSUME IInv, TakeStop
    PROVE  IInv'
<1> USE ConstantsAssumption DEF IInv, Runs, Callers, TakeStop, InnerGoto, CallCancel
<1>0. /\ current \in Runs /\ current # 0
      /\ cancel \in {0} \cup Runs
      /\ cancel # 0 => inner[cancel] \notin {"none", "start"}
  BY DEF TypeOK, MainAndRun, CancelSet
<1>1. TypeOK'
  BY DEF TypeOK, MainPCs, InnerPCs, CallerPCs
<1>2. OneRun' /\ MainAndRun'
  BY DEF TypeOK, OneRun, MainAndRun
<1>3. Untouched'
  <2>1. \A x \in Runs : inner'[x] \in {"none", "start"} <=> inner[x] \in {"none", "start"}
    BY DEF TypeOK
  <2>2. \A x \in Runs : inner[x] \in {"none", "start"} => cancelled'[x] = cancelled[x]
    BY <1>0 DEF TypeOK
  <2>3. QED
    BY <2>1, <2>2 DEF Untouched
<1>4. Waited'
  BY DEF TypeOK, Waited, Straggler
<1>5. ClosedLast'
  BY DEF TypeOK, ClosedLast
<1>6. CancelSet'
  BY <1>0 DEF TypeOK, OneRun, CancelSet
<1>7. PanicCauses'
  <2>1. CASE cancel = 0
    BY <1>0, <2>1 DEF TypeOK, PanicCauses
  <2>2. CASE cancel # 0
    BY <2>2 DEF TypeOK, PanicCauses
  <2>3. QED
    BY <2>1, <2>2
<1>8. QED
  BY <1>1, <1>2, <1>3, <1>4, <1>5, <1>6, <1>7

(* A restart is received. *)
LEMMA TakeRestartInd ==
    ASSUME IInv, TakeRestart
    PROVE  IInv'
<1> USE ConstantsAssumption DEF IInv, Runs, Callers, TakeRestart, CallCancel
<1>1. TypeOK'
  BY DEF TypeOK, MainPCs, CallerPCs
<1>2. OneRun' /\ MainAndRun'
  BY DEF TypeOK, OneRun, MainAndRun
<1>3. Untouched'
  <2>1. \A x \in Runs : inner[x] \in {"none", "start"} => cancelled'[x] = cancelled[x]
    BY DEF TypeOK, CancelSet
  <2>2. QED
    BY <2>1 DEF Untouched
<1>4. Waited'
  BY DEF TypeOK, Waited, Straggler
<1>5. ClosedLast'
  BY DEF TypeOK, ClosedLast
<1>6. CancelSet'
  BY DEF TypeOK, CancelSet
<1>7. PanicCauses'
  BY DEF TypeOK, MainAndRun, PanicCauses
<1>8. QED
  BY <1>1, <1>2, <1>3, <1>4, <1>5, <1>6, <1>7

(* The run reports. *)
LEMMA TakeResultInd ==
    ASSUME NEW r \in Runs, IInv, TakeResult(r)
    PROVE  IInv'
<1> USE ConstantsAssumption DEF IInv, Runs, Callers, TakeResult, InnerGoto
<1>1. TypeOK'
  BY DEF TypeOK, MainPCs, InnerPCs
<1>2. OneRun' /\ MainAndRun'
  BY DEF TypeOK, OneRun, MainAndRun
<1>3. Untouched'
  BY DEF TypeOK, Untouched
<1>4. Waited'
  BY DEF TypeOK, Waited, Straggler
<1>5. ClosedLast'
  BY DEF TypeOK, ClosedLast
<1>6. CancelSet'
  BY DEF TypeOK, CancelSet
<1>7. PanicCauses'
  BY DEF TypeOK, PanicCauses
<1>8. QED
  BY <1>1, <1>2, <1>3, <1>4, <1>5, <1>6, <1>7

(* A run starts its services. *)
LEMMA InnerStartInd ==
    ASSUME NEW r \in Runs, IInv, InnerStart(r)
    PROVE  IInv'
<1> USE ConstantsAssumption DEF IInv, Runs, Callers, InnerStart, InnerGoto
<1>1. TypeOK'
  BY DEF TypeOK, InnerPCs, ServicePCs
<1>2. OneRun' /\ MainAndRun'
  BY DEF TypeOK, OneRun, MainAndRun
<1>3. Untouched'
  BY DEF TypeOK, Untouched
<1>4. Waited'
  BY DEF TypeOK, Waited, Straggler
<1>5. ClosedLast'
  BY DEF TypeOK, ClosedLast
<1>6. CancelSet'
  BY DEF TypeOK, OneRun, CancelSet
<1>7. PanicCauses'
  BY DEF TypeOK, PanicCauses
<1>8. QED
  BY <1>1, <1>2, <1>3, <1>4, <1>5, <1>6, <1>7

(* A run gets the first result of a service. *)
LEMMA InnerFirstInd ==
    ASSUME NEW r \in Runs, IInv, InnerFirst(r)
    PROVE  IInv'
<1> USE ConstantsAssumption DEF IInv, Runs, Callers, InnerFirst, InnerGoto
<1>1. TypeOK'
  BY DEF TypeOK, InnerPCs
<1>2. OneRun' /\ MainAndRun'
  BY DEF TypeOK, OneRun, MainAndRun
<1>3. Untouched'
  BY DEF TypeOK, Untouched
<1>4. Waited'
  BY DEF TypeOK, Waited, Straggler
<1>5. ClosedLast'
  BY DEF TypeOK, ClosedLast
<1>6. CancelSet'
  BY DEF TypeOK, CancelSet
<1>7. PanicCauses'
  BY DEF TypeOK, PanicCauses
<1>8. QED
  BY <1>1, <1>2, <1>3, <1>4, <1>5, <1>6, <1>7

(* A run looks at its context. *)
LEMMA InnerCheckInd ==
    ASSUME NEW r \in Runs, IInv, InnerCheck(r)
    PROVE  IInv'
<1> USE ConstantsAssumption DEF IInv, Runs, Callers, InnerCheck, InnerGoto
<1>1. TypeOK'
  BY DEF TypeOK, InnerPCs
<1>2. OneRun' /\ MainAndRun'
  BY DEF TypeOK, OneRun, MainAndRun
<1>3. Untouched'
  BY DEF TypeOK, Untouched
<1>4. Waited'
  BY DEF TypeOK, Waited, Straggler
<1>5. ClosedLast'
  BY DEF TypeOK, ClosedLast
<1>6. CancelSet'
  BY DEF TypeOK, CancelSet
<1>7. PanicCauses'
  BY DEF TypeOK, PanicCauses
<1>8. QED
  BY <1>1, <1>2, <1>3, <1>4, <1>5, <1>6, <1>7

(* A run has waited for its services. *)
LEMMA InnerWaitInd ==
    ASSUME NEW r \in Runs, IInv, InnerWait(r)
    PROVE  IInv'
<1> USE ConstantsAssumption DEF IInv, Runs, Callers, InnerWait, InnerGoto, Counted
<1>1. TypeOK'
  BY DEF TypeOK, InnerPCs
<1>2. OneRun' /\ MainAndRun'
  BY DEF TypeOK, OneRun, MainAndRun
<1>3. Untouched'
  BY DEF TypeOK, Untouched
<1>4. Waited'
  <2>1. ASSUME NEW s \in Services PROVE service[r][s] \in {"spawned", "over"}
    <3>1. service[r][s] \notin {"none", "added", "running", "returned", "sent"}
      BY DEF Untouched
    <3>2. QED
      BY <3>1 DEF TypeOK, ServicePCs
  <2>2. \A x \in Runs : x # r => inner'[x] = inner[x]
    BY DEF TypeOK
  <2>3. QED
    BY <2>1, <2>2 DEF Waited, Straggler
<1>5. ClosedLast'
  BY DEF TypeOK, ClosedLast
<1>6. CancelSet'
  BY DEF TypeOK, CancelSet
<1>7. PanicCauses'
  BY DEF TypeOK, PanicCauses
<1>8. QED
  BY <1>1, <1>2, <1>3, <1>4, <1>5, <1>6, <1>7

(* A run closes its errc. *)
LEMMA InnerCloseInd ==
    ASSUME NEW r \in Runs, IInv, InnerClose(r)
    PROVE  IInv'
<1> USE ConstantsAssumption DEF IInv, Runs, Callers, InnerClose, InnerGoto
<1>1. TypeOK'
  BY DEF TypeOK, InnerPCs
<1>2. OneRun' /\ MainAndRun'
  BY DEF TypeOK, OneRun, MainAndRun
<1>3. Untouched'
  BY DEF TypeOK, Untouched
<1>4. Waited'
  BY DEF TypeOK, Waited, Straggler
<1>5. ClosedLast'
  BY DEF TypeOK, ClosedLast
<1>6. CancelSet'
  BY DEF TypeOK, CancelSet
<1>7. PanicCauses'
  BY DEF TypeOK, PanicCauses
<1>8. QED
  BY <1>1, <1>2, <1>3, <1>4, <1>5, <1>6, <1>7

(* A service is counted. *)
LEMMA AddInd ==
    ASSUME NEW r \in Runs, NEW s \in Services, IInv, Add(r, s)
    PROVE  IInv'
<1> USE ConstantsAssumption DEF IInv, Runs, Callers, Add, ServiceGoto
<1>1. TypeOK'
  BY DEF TypeOK, ServicePCs
<1>2. OneRun' /\ MainAndRun'
  BY DEF TypeOK, OneRun, MainAndRun
<1>3. Untouched'
  BY DEF TypeOK, Untouched
<1>4. Waited'
  BY DEF TypeOK, Waited, Straggler
<1>5. ClosedLast'
  BY DEF TypeOK, ClosedLast
<1>6. CancelSet'
  BY DEF TypeOK, CancelSet
<1>7. PanicCauses'
  BY DEF TypeOK, PanicCauses
<1>8. QED
  BY <1>1, <1>2, <1>3, <1>4, <1>5, <1>6, <1>7

(* A service begins. *)
LEMMA BeginInd ==
    ASSUME NEW r \in Runs, NEW s \in Services, IInv, Begin(r, s)
    PROVE  IInv'
<1> USE ConstantsAssumption DEF IInv, Runs, Callers, Begin, ServiceGoto
<1>1. TypeOK'
  BY DEF TypeOK, ServicePCs
<1>2. OneRun' /\ MainAndRun'
  BY DEF TypeOK, OneRun, MainAndRun
<1>3. Untouched'
  BY DEF TypeOK, Untouched
<1>4. Waited'
  BY DEF TypeOK, Waited, Straggler
<1>5. ClosedLast'
  BY DEF TypeOK, ClosedLast
<1>6. CancelSet'
  BY DEF TypeOK, CancelSet
<1>7. PanicCauses'
  BY DEF TypeOK, Waited, ClosedLast, Straggler, PanicCauses
<1>8. QED
  BY <1>1, <1>2, <1>3, <1>4, <1>5, <1>6, <1>7

(* A service is stopped. *)
LEMMA StopServiceInd ==
    ASSUME NEW r \in Runs, NEW s \in Services, IInv, StopService(r, s)
    PROVE  IInv'
<1> USE ConstantsAssumption DEF IInv, Runs, Callers, StopService, ServiceGoto
<1>1. TypeOK'
  BY DEF TypeOK, ServicePCs
<1>2. OneRun' /\ MainAndRun'
  BY DEF TypeOK, OneRun, MainAndRun
<1>3. Untouched'
  BY DEF TypeOK, Untouched
<1>4. Waited'
  BY DEF TypeOK, Waited, Straggler
<1>5. ClosedLast'
  BY DEF TypeOK, ClosedLast
<1>6. CancelSet'
  BY DEF TypeOK, CancelSet
<1>7. PanicCauses'
  BY DEF TypeOK, Waited, ClosedLast, Straggler, PanicCauses
<1>8. QED
  BY <1>1, <1>2, <1>3, <1>4, <1>5, <1>6, <1>7

(* A service fails. *)
LEMMA FailServiceInd ==
    ASSUME NEW r \in Runs, NEW s \in Services, IInv, FailService(r, s)
    PROVE  IInv'
<1> USE ConstantsAssumption DEF IInv, Runs, Callers, FailService, ServiceGoto
<1>1. TypeOK'
  BY DEF TypeOK, ServicePCs
<1>2. OneRun' /\ MainAndRun'
  BY DEF TypeOK, OneRun, MainAndRun
<1>3. Untouched'
  BY DEF TypeOK, Untouched
<1>4. Waited'
  BY DEF TypeOK, Waited, Straggler
<1>5. ClosedLast'
  BY DEF TypeOK, ClosedLast
<1>6. CancelSet'
  BY DEF TypeOK, CancelSet
<1>7. PanicCauses'
  BY DEF TypeOK, Waited, ClosedLast, Straggler, PanicCauses
<1>8. QED
  BY <1>1, <1>2, <1>3, <1>4, <1>5, <1>6, <1>7

(* A service reports, perhaps on a closed channel. *)
LEMMA SendResultInd ==
    ASSUME NEW r \in Runs, NEW s \in Services, IInv, SendResult(r, s)
    PROVE  IInv'
<1> USE ConstantsAssumption DEF IInv, Runs, Callers, SendResult, ServiceGoto
<1>1. TypeOK'
  <2>1. /\ service' = service \/ service' = [service EXCEPT ![r][s] = "sent"]
        /\ panicked' \in BOOLEAN
    BY DEF TypeOK
  <2>2. service' \in [Runs -> [Services -> ServicePCs]]
    <3>1. service \in [Runs -> [Services -> ServicePCs]] /\ "sent" \in ServicePCs
      BY DEF TypeOK, ServicePCs
    <3>2. CASE service' = service
      BY <3>1, <3>2
    <3>3. CASE service' = [service EXCEPT ![r][s] = "sent"]
      BY <3>1, <3>3
    <3>4. QED
      BY <2>1, <3>2, <3>3
  <2>3. QED
    BY <2>1, <2>2 DEF TypeOK
<1>2. OneRun' /\ MainAndRun'
  BY DEF TypeOK, OneRun, MainAndRun
<1>3. Untouched'
  <2>1. service' = service \/ service' = [service EXCEPT ![r][s] = "sent"]
    OBVIOUS
  <2>2. QED
    BY <2>1 DEF TypeOK, Untouched
<1>4. Waited'
  <2>1. service' = service \/ service' = [service EXCEPT ![r][s] = "sent"]
    OBVIOUS
  <2>2. \A x \in Runs, y \in Services :
           service'[x][y] = service[x][y] \/ (x = r /\ y = s)
    BY <2>1 DEF TypeOK
  <2>3. inner[r] \in {"waited", "report", "ended"} => s \in late[r]
    BY DEF Waited, Straggler
  <2>4. QED
    BY <2>2, <2>3 DEF Waited, Straggler
<1>5. ClosedLast'
  BY DEF TypeOK, ClosedLast
<1>6. CancelSet'
  BY DEF TypeOK, CancelSet
<1>7. PanicCauses'
  BY DEF TypeOK, Waited, ClosedLast, Straggler, PanicCauses
<1>8. QED
  BY <1>1, <1>2, <1>3, <1>4, <1>5, <1>6, <1>7

(* A service is over. *)
LEMMA DoneInd ==
    ASSUME NEW r \in Runs, NEW s \in Services, IInv, Done(r, s)
    PROVE  IInv'
<1> USE ConstantsAssumption DEF IInv, Runs, Callers, Done, ServiceGoto
<1>1. TypeOK'
  BY DEF TypeOK, ServicePCs
<1>2. OneRun' /\ MainAndRun'
  BY DEF TypeOK, OneRun, MainAndRun
<1>3. Untouched'
  BY DEF TypeOK, Untouched
<1>4. Waited'
  BY DEF TypeOK, Waited, Straggler
<1>5. ClosedLast'
  BY DEF TypeOK, ClosedLast
<1>6. CancelSet'
  BY DEF TypeOK, CancelSet
<1>7. PanicCauses'
  BY DEF TypeOK, Waited, ClosedLast, Straggler, PanicCauses
<1>8. QED
  BY <1>1, <1>2, <1>3, <1>4, <1>5, <1>6, <1>7

(* A call of Close or Restart begins, or Restart has closed the network. *)
LEMMA CallInd ==
    ASSUME NEW q \in Callers, IInv, CallClose(q) \/ CallRestart(q) \/ DropNetwork(q)
    PROVE  IInv'
<1> USE ConstantsAssumption DEF IInv, Runs, Callers, CallClose, CallRestart, DropNetwork
<1>1. TypeOK'
  <2>1. \E label \in CallerPCs : caller' = [caller EXCEPT ![q] = label]
    BY DEF CallerPCs
  <2>2. QED
    BY <2>1 DEF TypeOK
<1>2. OneRun' /\ MainAndRun'
  BY DEF TypeOK, OneRun, MainAndRun
<1>3. Untouched'
  BY DEF TypeOK, Untouched
<1>4. Waited'
  BY DEF TypeOK, Waited, Straggler
<1>5. ClosedLast'
  BY DEF TypeOK, ClosedLast
<1>6. CancelSet'
  BY DEF TypeOK, CancelSet
<1>7. PanicCauses'
  BY DEF TypeOK, PanicCauses
<1>8. QED
  BY <1>1, <1>2, <1>3, <1>4, <1>5, <1>6, <1>7

-----------------------------------------------------------------------------
(* Every step keeps the invariant. *)
LEMMA StepInd ==
    ASSUME IInv, [Next]_vars
    PROVE  IInv'
<1>1. CASE UNCHANGED vars
  BY <1>1 DEF vars, IInv, TypeOK, OneRun, MainAndRun, Untouched, Waited, Straggler,
     ClosedLast, CancelSet, PanicCauses
<1>2. CASE MainStep
  BY <1>2, SpawnInd, TakeStopInd, TakeRestartInd, TakeResultInd DEF MainStep
<1>3. CASE \E r \in Runs : InnerStep(r)
  BY <1>3, InnerStartInd, InnerFirstInd, InnerCheckInd, InnerWaitInd, InnerCloseInd
     DEF InnerStep
<1>4. CASE \E r \in Runs, s \in Services : ServiceStep(r, s) \/ FailService(r, s)
  BY <1>4, AddInd, BeginInd, StopServiceInd, FailServiceInd, SendResultInd,
     DoneInd DEF ServiceStep
<1>5. CASE \/ \E q \in Closers : CallClose(q)
           \/ \E q \in Restarters : CallRestart(q) \/ DropNetwork(q)
  BY <1>5, CallInd DEF Callers
<1>6. QED
  BY <1>1, <1>2, <1>3, <1>4, <1>5 DEF Next

LEMMA Invariance == Spec => []IInv
<1>1. IInv /\ [Next]_vars => IInv'
  BY StepInd
<1>2. QED
  BY <1>1, InitInd, PTL DEF Spec

(* Every variable of the lifecycle keeps its type; in particular no run     *)
(* starts after the last one the bound MaxRuns allows.                      *)
THEOREM TypeCorrect == Spec => []TypeOK
<1>1. IInv => TypeOK
  BY DEF IInv
<1>2. QED
  BY <1>1, Invariance, PTL

(* When run closes its errc (booster.go:185) its services are over, except   *)
(* those whose goroutines had not reached their wg.Add when Wait returned,  *)
(* however many there are, whichever fails and whoever stops it.            *)
THEOREM RunWaits == Spec => []WaitsForAll
<1>1. IInv => WaitsForAll
  BY DEF IInv, Waited, ClosedLast, WaitsForAll
<1>2. QED
  BY <1>1, Invariance, PTL

(* A run is started only when the services of all the earlier ones are      *)
(* over, or are stragglers whose context is cancelled, through any number   *)
(* of restarts at any moment.                                               *)
THEOREM RunsInTurn == Spec => []NoOverlap
<1>1. ASSUME IInv, NEW r \in Runs, NEW q \in Runs, r < q, inner[q] # "none"
      PROVE  \A s \in Services :
                service[r][s] = "over" \/ (Straggler(r, s) /\ cancelled[r])
  <2>1. inner[r] = "ended"
    BY <1>1 DEF IInv, TypeOK, OneRun, Runs
  <2>2. QED
    BY <1>1, <2>1 DEF IInv, Waited, CancelSet
<1>2. IInv => NoOverlap
  BY <1>1 DEF NoOverlap
<1>3. QED
  BY <1>2, Invariance, PTL

(* A nil CancelFunc is called, an errc sent on after its close, or a        *)
(* WaitGroup reused only because a request came before run() had set        *)
(* cancel, or a goroutine of a service was too late for Wait.               *)
THEOREM PanicsExplained == Spec => []PanicCauses
<1>1. IInv => PanicCauses
  BY DEF IInv
<1>2. QED
  BY <1>1, Invariance, PTL
=============================================================================
