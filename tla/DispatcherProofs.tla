-------------------------- MODULE DispatcherProofs --------------------------
(***************************************************************************)
(* Proofs about Dispatcher, for any finite sets of nodes and of requests   *)
(* and any number of losses: what a dial that gives up has tried, what     *)
(* becomes of the goroutine of a dial, what the root counts, and that a     *)
(* scan which nothing disturbs picks a node with the least workload.       *)
(***************************************************************************)
EXTENDS Dispatcher, FiniteSetTheorems, TLAPS

(* The fields of a dial; tr and twl, the workloads it has read, play no    *)
(* part before the last section.                                           *)
Names == {"pc", "tried", "left", "tr", "twl", "cand", "via", "result", "expired", "calm", "steady"}

(* What holds of every dial d while the nodes u are up: what it goes       *)
(* through is a node, a scan without a candidate has passed none that was  *)
(* up all along and is not tried, and an error comes after all of these.   *)
Sound(d, u) ==
    /\ DOMAIN d = Names /\ d.pc \in DialPCs /\ d.result \in Results /\ d.cand \in Remotes \cup {Nil}
    /\ d.pc \in {"dial", "wait", "open"} => d.via \in Nodes
    /\ d.pc = "wait" => d.via \in Remotes
    /\ d.pc \in {"idle", "scan", "dial", "wait"} => d.result = "none"
    /\ d.pc = "open" => d.result = "conn"
    /\ d.steady \subseteq u
    /\ d.pc = "scan" /\ d.cand = Nil => d.steady \ d.left \subseteq d.tried
    /\ d.result = "error" => {Root} \cup d.steady \subseteq d.tried

Helpers == helper \in [Dials -> [Remotes -> HelperPCs]]
Tunnels ==
    /\ tunnels \in [Nodes -> [Targets -> Nat]]
    /\ events \subseteq [q : Dials, at : Nodes, t : Targets, op : {"added", "removed"}]
AllSound ==
    /\ dial = [q \in Dials |-> dial[q]]
    /\ \A q \in Dials : Sound(dial[q], up)

(* The events of the root that are on their way for a target, and its open *)
(* sessions.                                                               *)
RootEvent(q, t, op) == [q |-> q, at |-> Root, t |-> t, op |-> op]
Added(t) == {q \in Dials : RootEvent(q, t, "added") \in events}
Removed(t) == {q \in Dials : RootEvent(q, t, "removed") \in events}
Opened(t) == {q \in Dials : dial[q].pc = "open" /\ dial[q].via = t}

(* Each opening and each end is told once. *)
Once ==
    \A q \in Dials, t \in Targets :
       /\ q \in Added(t) => dial[q].pc \in {"open", "done"}
       /\ q \in Removed(t) => dial[q].pc = "done"

(* What is counted and what will be, less what will be removed. *)
Balance ==
    \A t \in Targets :
       tunnels[Root][t] + Cardinality(Added(t)) >= Cardinality(Opened(t)) + Cardinality(Removed(t))

(* The inductive invariant. *)
IInv == Helpers /\ Tunnels /\ AllSound /\ StrayIsAbandoned /\ Once /\ Balance

USE ConstantsAssumption

-----------------------------------------------------------------------------
(* The records that the actions make. *)

LEMMA ScanningFacts ==
  ASSUME NEW d, NEW s, s = Scanning(d)
  PROVE  /\ DOMAIN s = Names /\ s.pc = "scan" /\ s.left = up /\ s.cand = Nil /\ s.via = Nil
         /\ s.result = "none" /\ s.tried = d.tried /\ s.steady = d.steady
BY DEF Scanning, Idle, Names

LEMMA CalmFacts ==
  ASSUME NEW d, NEW u, Sound(d, u), NEW e, e = [d EXCEPT !.calm = FALSE]
  PROVE  Sound(e, u) /\ e.pc = d.pc /\ e.via = d.via /\ e.result = d.result
<1>1. DOMAIN d = Names
  BY DEF Sound
<1>2. /\ DOMAIN e = Names /\ e.pc = d.pc /\ e.tried = d.tried /\ e.left = d.left /\ e.cand = d.cand
      /\ e.via = d.via /\ e.result = d.result /\ e.steady = d.steady
  BY <1>1 DEF Names
<1> QED
  BY <1>2 DEF Sound

-----------------------------------------------------------------------------
(* Steps of one dial that concern neither events nor tunnels. *)

LEMMA OneDial ==
  ASSUME NEW q \in Dials, AllSound, NEW d, dial' = [dial EXCEPT ![q] = d], UNCHANGED up, Sound(d, up)
  PROVE  AllSound' /\ dial'[q] = d /\ \A x \in Dials \ {q} : dial'[x] = dial[x]
BY DEF AllSound

(* Nothing that the root counts changes. *)
LEMMA CountsStay ==
  ASSUME Once, Balance, UNCHANGED <<tunnels, events>>,
         \A q \in Dials : /\ dial'[q].pc = "open" <=> dial[q].pc = "open"
                          /\ dial[q].pc = "open" => dial'[q].via = dial[q].via
                          /\ dial[q].pc = "done" => dial'[q].pc = "done"
  PROVE  Once' /\ Balance'
<1>1. ASSUME NEW t PROVE Added(t)' = Added(t) /\ Removed(t)' = Removed(t) /\ Opened(t)' = Opened(t)
  BY DEF Added, Removed, Opened
<1>2. Once'
  BY <1>1 DEF Once
<1>3. Balance'
  BY <1>1 DEF Balance
<1> QED
  BY <1>2, <1>3

LEMMA CallInd ==
  ASSUME NEW q \in Dials, IInv, Call(q)
  PROVE  IInv'
<1>1. dial[q].pc = "idle" /\ UNCHANGED <<tunnels, up, events, helper, far>>
  BY DEF Call
<1>2. /\ Helpers /\ Tunnels /\ AllSound /\ StrayIsAbandoned /\ Once /\ Balance
      /\ dial = [x \in Dials |-> dial[x]] /\ Sound(dial[q], up)
  BY DEF IInv, AllSound
<1> DEFINE s == Scanning(dial[q])
           d == [s EXCEPT !.steady = up]
<1>3. dial' = [dial EXCEPT ![q] = d]
  BY DEF Call
<1>4. DOMAIN s = Names /\ s.pc = "scan" /\ s.left = up /\ s.cand = Nil /\ s.via = Nil /\ s.result = "none"
  BY ScanningFacts
<1> HIDE DEF s
<1>5. /\ DOMAIN d = Names /\ d.pc = "scan" /\ d.left = up /\ d.cand = Nil /\ d.via = Nil /\ d.result = "none"
      /\ d.steady = up
  BY <1>4 DEF Names
<1> HIDE DEF d
<1>6. Sound(d, up)
  BY <1>5 DEF Sound, DialPCs, Results
<1>7. AllSound' /\ dial'[q] = d /\ \A x \in Dials \ {q} : dial'[x] = dial[x]
  BY <1>1, <1>2, <1>3, <1>6, OneDial
<1>8. Once' /\ Balance'
  BY <1>1, <1>2, <1>5, <1>7, CountsStay
<1>9. StrayIsAbandoned'
  BY <1>1, <1>2, <1>7 DEF StrayIsAbandoned, Sound
<1> QED
  BY <1>1, <1>2, <1>7, <1>8, <1>9 DEF IInv, Helpers, Tunnels

(* Only a dial that waits, or was abandoned, has a goroutine. *)
LEMMA NoHelper ==
  ASSUME NEW q \in Dials, IInv, dial[q].pc # "wait", dial[q].result # "nil"
  PROVE  \A n \in Remotes : helper[q][n] = "none"
BY DEF IInv, Helpers, HelperPCs, StrayIsAbandoned

(* Steps of a dial before it has a connection. *)
LEMMA QuietInd ==
  ASSUME NEW q \in Dials, IInv, NEW d, dial' = [dial EXCEPT ![q] = d], Sound(d, up),
         UNCHANGED <<tunnels, up, events>>, dial[q].pc \notin {"open", "done"}, d.pc # "open",
         Helpers', \A x \in Dials \ {q} : helper'[x] = helper[x],
         \A n \in Remotes : helper'[q][n] # "none" => d.via = n /\ (d.pc = "wait" \/ d.result = "nil")
  PROVE  IInv'
<1>1. Tunnels /\ AllSound /\ StrayIsAbandoned /\ Once /\ Balance
  BY DEF IInv
<1>2. AllSound' /\ dial'[q] = d /\ \A x \in Dials \ {q} : dial'[x] = dial[x]
  BY <1>1, OneDial
<1>3. Once' /\ Balance'
  BY <1>1, <1>2, CountsStay
<1>4. StrayIsAbandoned'
  BY <1>1, <1>2 DEF StrayIsAbandoned
<1> QED
  BY <1>1, <1>2, <1>3, <1>4 DEF IInv, Tunnels

LEMMA WeighInd ==
  ASSUME NEW q \in Dials, NEW n \in Remotes, IInv, Weigh(q, n)
  PROVE  IInv'
<1>1. dial[q].pc = "scan" /\ UNCHANGED <<tunnels, up, events, helper, far>>
  BY DEF Weigh
<1> DEFINE c == dial[q]
           w == Weighed(c, n)
           d == [w EXCEPT !.left = @ \ {n}]
<1>2. dial' = [dial EXCEPT ![q] = d] /\ Sound(c, up) /\ Helpers
  <2>1. dial' = [dial EXCEPT ![q] = d]
    BY Zenon DEF Weigh
  <2>2. Sound(c, up) /\ Helpers
    BY DEF IInv, AllSound
  <2> QED
    BY <2>1, <2>2
<1>3. DOMAIN c = Names /\ c.pc = "scan" /\ c.result = "none"
  BY <1>1, <1>2 DEF Sound
<1> HIDE DEF c
<1>4. /\ DOMAIN w = Names /\ w.pc = "scan" /\ w.result = "none" /\ w.left = c.left /\ w.tried = c.tried
      /\ w.steady = c.steady /\ w.cand \in {c.cand, n}
      /\ w.cand = Nil => c.cand = Nil /\ (n \in up => n \in c.tried)
  <2>1. CASE n \notin up
    BY <1>3, <2>1 DEF Weighed
  <2>2. CASE n \in up
    <3> DEFINE k == IF n \in c.tried THEN c.cand
                    ELSE IF c.cand = Nil \/ Workload(n) < Workload(c.cand) THEN n ELSE c.cand
    <3>1. w = [c EXCEPT !.twl = @ + Workload(n), !.cand = k]
      BY <1>3, <2>2 DEF Weighed, Names
    <3>2. k \in {c.cand, n} /\ (k = Nil => c.cand = Nil /\ n \in c.tried)
      OBVIOUS
    <3> HIDE DEF k, w
    <3>3. /\ DOMAIN w = Names /\ w.pc = c.pc /\ w.result = c.result /\ w.left = c.left /\ w.tried = c.tried
          /\ w.steady = c.steady /\ w.cand = k
      BY <1>3, <3>1 DEF Names
    <3> QED
      BY <1>3, <3>2, <3>3
  <2> QED
    BY <2>1, <2>2
<1> HIDE DEF w
<1>5. /\ DOMAIN d = Names /\ d.pc = "scan" /\ d.result = "none" /\ d.left = c.left \ {n} /\ d.tried = c.tried
      /\ d.steady = c.steady /\ d.cand = w.cand
  BY <1>4 DEF Names
<1> HIDE DEF d
<1>6. Sound(d, up)
  <2>1. c.steady \subseteq up /\ c.cand \in Remotes \cup {Nil} /\ (c.cand = Nil => c.steady \ c.left \subseteq c.tried)
    BY <1>2, <1>3 DEF Sound
  <2>2. d.cand = Nil => d.steady \ d.left \subseteq d.tried
    BY <1>4, <1>5, <2>1
  <2> QED
    BY <1>4, <1>5, <2>1, <2>2 DEF Sound, DialPCs, Results
<1>7. \A m \in Remotes : helper'[q][m] = "none"
  BY <1>1, <1>3, NoHelper DEF c
<1> QED
  BY <1>1, <1>2, <1>5, <1>6, <1>7, QuietInd DEF Helpers

LEMMA ChooseInd ==
  ASSUME NEW q \in Dials, IInv, Choose(q)
  PROVE  IInv'
<1> DEFINE c == dial[q]
           n == Chosen(c)
<1>1. c.pc = "scan" /\ c.left = {} /\ UNCHANGED <<tunnels, up, events, helper, far>>
  BY DEF Choose
<1>2. Sound(c, up) /\ Helpers
  BY DEF IInv, AllSound
<1>3. /\ DOMAIN c = Names /\ c.result = "none" /\ c.steady \subseteq up /\ c.cand \in Remotes \cup {Nil}
      /\ c.cand = Nil => c.steady \subseteq c.tried
  BY <1>1, <1>2 DEF Sound
<1>4. n \in Nodes \cup {Nil} /\ (n = Nil => c.cand = Nil /\ Root \in c.tried)
  BY <1>3 DEF Chosen, Nodes
<1>5. \A m \in Remotes : helper'[q][m] = "none"
  BY <1>1, <1>3, NoHelper
<1>6. CASE n = Nil
  <2> DEFINE d == [c EXCEPT !.pc = "done", !.result = "error"]
  <2>1. dial' = [dial EXCEPT ![q] = d]
    BY <1>6 DEF Choose
  <2> HIDE DEF c
  <2>2. DOMAIN d = Names /\ d.pc = "done" /\ d.result = "error" /\ d.tried = c.tried /\ d.steady = c.steady
        /\ d.cand = c.cand
    BY <1>3 DEF Names
  <2> HIDE DEF d
  <2>3. Sound(d, up)
    BY <1>3, <1>4, <1>6, <2>2 DEF Sound, DialPCs, Results
  <2> QED
    BY <1>1, <1>2, <1>5, <2>1, <2>2, <2>3, QuietInd DEF Helpers, c
<1>7. CASE n # Nil
  <2> DEFINE d == [c EXCEPT !.pc = "dial", !.via = n, !.tried = @ \cup {n},
                            !.tr = 0, !.twl = 0, !.cand = Nil, !.calm = FALSE]
  <2>1. dial' = [dial EXCEPT ![q] = d]
    BY <1>7, Zenon DEF Choose
  <2> HIDE DEF c, n
  <2>2. DOMAIN d = Names /\ d.pc = "dial" /\ d.result = "none" /\ d.steady = c.steady /\ d.cand = Nil /\ d.via = n
    BY <1>3 DEF Names
  <2> HIDE DEF d
  <2>3. Sound(d, up)
    BY <1>3, <1>4, <1>7, <2>2 DEF Sound, DialPCs, Results
  <2> QED
    BY <1>1, <1>2, <1>5, <2>1, <2>2, <2>3, QuietInd DEF Helpers, c
<1> QED
  BY <1>6, <1>7

(* A scan begins again. *)
LEMMA FailsFacts ==
  ASSUME NEW q \in Dials, IInv, NEW d, d = Scanning(dial[q])
  PROVE  Sound(d, up) /\ d.pc = "scan" /\ d.result = "none"
<1>1. /\ DOMAIN d = Names /\ d.pc = "scan" /\ d.left = up /\ d.cand = Nil /\ d.via = Nil
      /\ d.result = "none" /\ d.steady = dial[q].steady
  BY ScanningFacts
<1>2. dial[q].steady \subseteq up
  BY DEF IInv, AllSound, Sound
<1> QED
  BY <1>1, <1>2 DEF Sound, DialPCs, Results

LEMMA DialRemoteInd ==
  ASSUME NEW q \in Dials, IInv, DialRemote(q)
  PROVE  IInv'
<1> DEFINE c == dial[q]
           d == [c EXCEPT !.pc = "wait"]
<1>1. /\ c.pc = "dial" /\ c.via \in Remotes /\ helper' = [helper EXCEPT ![q][c.via] = "dialing"]
      /\ UNCHANGED <<tunnels, up, events, far>>
  BY DEF DialRemote
<1>2. Sound(c, up) /\ Helpers /\ dial = [x \in Dials |-> dial[x]]
  BY DEF IInv, AllSound
<1>3. dial' = [dial EXCEPT ![q] = d]
  BY <1>2 DEF DialRemote
<1>4. \A m \in Remotes : helper[q][m] = "none"
  BY <1>1, <1>2, NoHelper DEF Sound
<1> HIDE DEF c
<1>5. /\ DOMAIN d = Names /\ d.pc = "wait" /\ d.result = "none" /\ d.tried = c.tried /\ d.steady = c.steady
      /\ d.cand = c.cand /\ d.via = c.via
  BY <1>1, <1>2 DEF Sound, Names
<1> HIDE DEF d
<1>6. Sound(d, up)
  BY <1>1, <1>2, <1>5 DEF Sound, DialPCs, Results, Nodes
<1>7. Helpers' /\ (\A x \in Dials \ {q} : helper'[x] = helper[x])
      /\ \A m \in Remotes : helper'[q][m] # "none" => m = c.via
  BY <1>1, <1>2, <1>4 DEF Helpers, HelperPCs
<1> QED
  BY <1>1, <1>3, <1>5, <1>6, <1>7, QuietInd DEF c

LEMMA ContextDoneInd ==
  ASSUME NEW q \in Dials, IInv, ContextDone(q)
  PROVE  IInv'
<1> DEFINE c == dial[q]
           d == Abandoned(c)
<1>1. c.pc = "wait" /\ dial' = [dial EXCEPT ![q] = d] /\ UNCHANGED <<tunnels, up, events, helper, far>>
  BY DEF ContextDone
<1>2. Helpers /\ StrayIsAbandoned
  BY DEF IInv
<1>3. \A m \in Remotes : helper[q][m] # "none" => m = c.via
  BY <1>2 DEF StrayIsAbandoned, Helpers, HelperPCs
<1> HIDE DEF c
<1>4. /\ DOMAIN d = Names /\ d.pc = "done" /\ d.result = "nil" /\ d.via = c.via /\ d.cand = Nil /\ d.steady = {}
  BY DEF Abandoned, Idle, Names
<1> HIDE DEF d
<1>5. Sound(d, up)
  BY <1>4 DEF Sound, DialPCs, Results
<1> QED
  BY <1>1, <1>2, <1>3, <1>4, <1>5, QuietInd DEF c, Helpers

LEMMA ExpireInd ==
  ASSUME NEW q \in Dials, IInv, Expire(q)
  PROVE  IInv'
<1> DEFINE c == dial[q]
           d == [c EXCEPT !.expired = TRUE]
<1>1. c.pc \in {"dial", "wait"} /\ UNCHANGED <<tunnels, up, events, helper, far>>
  BY DEF Expire
<1>2. Sound(c, up) /\ Helpers /\ dial = [x \in Dials |-> dial[x]] /\ StrayIsAbandoned
  BY DEF IInv, AllSound
<1>3. dial' = [dial EXCEPT ![q] = d]
  BY <1>2 DEF Expire
<1>4. \A m \in Remotes : helper[q][m] # "none" => c.via = m /\ (c.pc = "wait" \/ c.result = "nil")
  BY <1>2 DEF StrayIsAbandoned, Helpers, HelperPCs
<1> HIDE DEF c
<1>5. /\ DOMAIN d = Names /\ d.pc = c.pc /\ d.result = c.result /\ d.tried = c.tried /\ d.steady = c.steady
      /\ d.cand = c.cand /\ d.via = c.via /\ d.left = c.left
  BY <1>2 DEF Sound, Names
<1> HIDE DEF d
<1>6. Sound(d, up)
  BY <1>2, <1>5 DEF Sound
<1> QED
  BY <1>1, <1>2, <1>3, <1>4, <1>5, <1>6, QuietInd DEF c, Helpers

-----------------------------------------------------------------------------
(* A session of the root opens, or ends: one event, one session. *)

LEMMA RootPublished ==
  ASSUME NEW q, NEW op
  PROVE  Published(q, Root, op) = {RootEvent(q, dial[q].via, op)}
BY DEF Published, Target, RootEvent

LEMMA EventFacts ==
  ASSUME NEW q \in Dials, NEW t \in Targets, NEW op \in {"added", "removed"}
  PROVE  /\ RootEvent(q, t, op) \in [q : Dials, at : Nodes, t : Targets, op : {"added", "removed"}]
         /\ \A x, u, o : RootEvent(x, u, o) = RootEvent(q, t, op) => x = q /\ u = t /\ o = op
BY DEF RootEvent, Nodes

LEMMA Finite ==
  ASSUME NEW S \in SUBSET Dials
  PROVE  /\ IsFiniteSet(S) /\ Cardinality(S) \in Nat
         /\ \A q \in Dials \ S : Cardinality(S \cup {q}) = Cardinality(S) + 1
         /\ \A q \in S : Cardinality(S \ {q}) = Cardinality(S) - 1
<1>1. IsFiniteSet(S)
  BY FS_Subset
<1>2. Cardinality(S) \in Nat
  BY <1>1, FS_CardinalityType
<1>3. \A q \in Dials \ S : Cardinality(S \cup {q}) = Cardinality(S) + 1
  BY <1>1, FS_AddElement
<1>4. \A q \in S : Cardinality(S \ {q}) = Cardinality(S) - 1
  BY <1>1, FS_RemoveElement
<1> QED
  BY <1>1, <1>2, <1>3, <1>4

LEMMA OpensInd ==
  ASSUME NEW q \in Dials, IInv, dial[q].pc \in {"dial", "wait"}, Connected(q), UNCHANGED <<tunnels, up>>,
         Helpers', \A x \in Dials \ {q} : helper'[x] = helper[x], \A n \in Remotes : helper'[q][n] = "none"
  PROVE  IInv'
<1> DEFINE v == dial[q].via
           d == [Idle EXCEPT !.pc = "open", !.via = v, !.result = "conn"]
           e == RootEvent(q, v, "added")
<1>1. dial' = [dial EXCEPT ![q] = d] /\ events' = events \cup {e}
  BY RootPublished DEF Connected
<1>2. Tunnels /\ AllSound /\ StrayIsAbandoned /\ Once /\ Balance
  BY DEF IInv
<1>3. v \in Targets /\ dial[q].pc \notin {"open", "done"}
  BY <1>2 DEF AllSound, Sound, Targets
<1> HIDE DEF v
<1>4. DOMAIN d = Names /\ d.pc = "open" /\ d.result = "conn" /\ d.via = v /\ d.cand = Nil /\ d.steady = {}
  BY DEF Idle, Names
<1> HIDE DEF d
<1>5. Sound(d, up)
  BY <1>3, <1>4 DEF Sound, DialPCs, Results, Targets
<1>6. AllSound' /\ dial'[q] = d /\ \A x \in Dials \ {q} : dial'[x] = dial[x]
  BY <1>1, <1>2, <1>5, OneDial
<1>7. /\ e \in [q : Dials, at : Nodes, t : Targets, op : {"added", "removed"}]
      /\ \A x, u, o : RootEvent(x, u, o) = e => x = q /\ u = v /\ o = "added"
  BY <1>3, EventFacts
<1>8. Tunnels'
  BY <1>1, <1>2, <1>7 DEF Tunnels
<1>9. ASSUME NEW t \in Targets
      PROVE  /\ Removed(t)' = Removed(t)
             /\ t # v => Added(t)' = Added(t) /\ Opened(t)' = Opened(t)
             /\ t = v => Added(t)' = Added(t) \cup {q} /\ Opened(t)' = Opened(t) \cup {q}
  <2>1. Removed(t)' = Removed(t)
    BY <1>1, <1>7 DEF Removed
  <2>2. t # v => Added(t)' = Added(t)
    BY <1>1, <1>7 DEF Added
  <2>3. t # v => Opened(t)' = Opened(t)
    BY <1>3, <1>4, <1>6 DEF Opened
  <2>4. t = v => Added(t)' = Added(t) \cup {q}
    BY <1>1, <1>7 DEF Added
  <2>5. t = v => Opened(t)' = Opened(t) \cup {q}
    BY <1>3, <1>4, <1>6 DEF Opened
  <2> QED
    BY <2>1, <2>2, <2>3, <2>4, <2>5
<1> HIDE DEF e
<1>10. Once'
  BY <1>2, <1>3, <1>4, <1>6, <1>9 DEF Once
<1>11. Balance'
  <2> SUFFICES ASSUME NEW t \in Targets
               PROVE  tunnels[Root][t] + Cardinality(Added(t)') >= Cardinality(Opened(t)') + Cardinality(Removed(t)')
    BY DEF Balance
  <2>1. /\ Added(t) \in SUBSET Dials /\ Opened(t) \in SUBSET Dials /\ Removed(t) \in SUBSET Dials
        /\ q \notin Added(t) /\ q \notin Opened(t)
    BY <1>2, <1>3 DEF Added, Opened, Removed, Once
  <2>2. /\ Cardinality(Added(t)) \in Nat /\ Cardinality(Opened(t)) \in Nat /\ Cardinality(Removed(t)) \in Nat
        /\ Cardinality(Added(t) \cup {q}) = Cardinality(Added(t)) + 1
        /\ Cardinality(Opened(t) \cup {q}) = Cardinality(Opened(t)) + 1
    BY <2>1, Finite
  <2>3. tunnels[Root][t] \in Nat
    BY <1>2 DEF Tunnels, Nodes
  <2>4. tunnels[Root][t] + Cardinality(Added(t)) >= Cardinality(Opened(t)) + Cardinality(Removed(t))
    BY <1>2 DEF Balance
  <2>5. Removed(t)' = Removed(t)
    BY <1>9
  <2>6. CASE t = v
    <3>1. Added(t)' = Added(t) \cup {q} /\ Opened(t)' = Opened(t) \cup {q}
      BY <1>9, <2>6
    <3> QED
      BY <2>2, <2>3, <2>4, <2>5, <3>1
  <2>7. CASE t # v
    <3>1. Added(t)' = Added(t) /\ Opened(t)' = Opened(t)
      BY <1>9, <2>7
    <3> QED
      BY <2>4, <2>5, <3>1
  <2> QED
    BY <2>6, <2>7
<1>12. StrayIsAbandoned'
  BY <1>2, <1>6 DEF StrayIsAbandoned
<1> QED
  BY <1>6, <1>8, <1>10, <1>11, <1>12 DEF IInv

LEMMA DialLocalInd ==
  ASSUME NEW q \in Dials, IInv, DialLocal(q)
  PROVE  IInv'
<1>1. dial[q].pc = "dial" /\ UNCHANGED <<tunnels, up, helper, far>>
  BY DEF DialLocal
<1>2. Helpers /\ Sound(dial[q], up)
  BY DEF IInv, AllSound
<1>3. \A n \in Remotes : helper[q][n] = "none"
  BY <1>1, <1>2, NoHelper DEF Sound
<1>4. Helpers' /\ (\A x \in Dials \ {q} : helper'[x] = helper[x]) /\ \A n \in Remotes : helper'[q][n] = "none"
  BY <1>1, <1>2, <1>3 DEF Helpers
<1>5. CASE Connected(q)
  BY <1>1, <1>4, <1>5, OpensInd
<1>6. CASE Fails(q)
  <2> DEFINE d == Scanning(dial[q])
  <2>1. dial' = [dial EXCEPT ![q] = d] /\ UNCHANGED <<tunnels, up, events>>
    BY <1>1, <1>6 DEF Fails
  <2>2. Sound(d, up) /\ d.pc = "scan"
    BY FailsFacts
  <2> HIDE DEF d
  <2> QED
    BY <1>1, <1>4, <2>1, <2>2, QuietInd
<1> QED
  BY <1>5, <1>6 DEF DialLocal

LEMMA ReceiveInd ==
  ASSUME NEW q \in Dials, IInv, Receive(q)
  PROVE  IInv'
<1> DEFINE n == dial[q].via
<1>1. dial[q].pc = "wait" /\ helper' = [helper EXCEPT ![q][n] = "none"] /\ UNCHANGED <<tunnels, up, far>>
  BY DEF Receive
<1>2. Helpers /\ Sound(dial[q], up) /\ StrayIsAbandoned
  BY DEF IInv, AllSound
<1>3. n \in Remotes /\ \A m \in Remotes : helper[q][m] # "none" => m = n
  BY <1>1, <1>2 DEF Sound, StrayIsAbandoned, Helpers, HelperPCs
<1>4. Helpers' /\ (\A x \in Dials \ {q} : helper'[x] = helper[x]) /\ \A m \in Remotes : helper'[q][m] = "none"
  BY <1>1, <1>2, <1>3 DEF Helpers, HelperPCs
<1>5. CASE Connected(q)
  BY <1>1, <1>4, <1>5, OpensInd
<1>6. CASE Fails(q)
  <2> DEFINE d == Scanning(dial[q])
  <2>1. dial' = [dial EXCEPT ![q] = d] /\ UNCHANGED <<tunnels, up, events>>
    BY <1>1, <1>6 DEF Fails
  <2>2. Sound(d, up) /\ d.pc = "scan"
    BY FailsFacts
  <2> HIDE DEF d
  <2> QED
    BY <1>1, <1>4, <2>1, <2>2, QuietInd
<1> QED
  BY <1>5, <1>6 DEF Receive

LEMMA HangupInd ==
  ASSUME NEW q \in Dials, IInv, Hangup(q)
  PROVE  IInv'
<1> DEFINE v == dial[q].via
           d == [Idle EXCEPT !.pc = "done", !.result = "conn"]
           e == RootEvent(q, v, "removed")
<1>1. /\ dial[q].pc = "open" /\ dial' = [dial EXCEPT ![q] = d] /\ events' = events \cup {e}
      /\ UNCHANGED <<tunnels, up, helper, far>>
  BY RootPublished DEF Hangup
<1>2. Helpers /\ Tunnels /\ AllSound /\ StrayIsAbandoned /\ Once /\ Balance
  BY DEF IInv
<1>3. v \in Targets /\ dial[q].result = "conn"
  BY <1>1, <1>2 DEF AllSound, Sound, Targets
<1> HIDE DEF v
<1>4. DOMAIN d = Names /\ d.pc = "done" /\ d.result = "conn" /\ d.cand = Nil /\ d.steady = {}
  BY DEF Idle, Names
<1> HIDE DEF d
<1>5. Sound(d, up)
  BY <1>4 DEF Sound, DialPCs, Results
<1>6. AllSound' /\ dial'[q] = d /\ \A x \in Dials \ {q} : dial'[x] = dial[x]
  BY <1>1, <1>2, <1>5, OneDial
<1>7. /\ e \in [q : Dials, at : Nodes, t : Targets, op : {"added", "removed"}]
      /\ \A x, u, o : RootEvent(x, u, o) = e => x = q /\ u = v /\ o = "removed"
  BY <1>3, EventFacts
<1>8. Tunnels' /\ Helpers'
  BY <1>1, <1>2, <1>7 DEF Tunnels, Helpers
<1>9. ASSUME NEW t \in Targets
      PROVE  /\ Added(t)' = Added(t)
             /\ t # v => Removed(t)' = Removed(t) /\ Opened(t)' = Opened(t)
             /\ t = v => Removed(t)' = Removed(t) \cup {q} /\ Opened(t)' = Opened(t) \ {q} /\ q \in Opened(t)
  <2>1. Added(t)' = Added(t)
    BY <1>1, <1>7 DEF Added
  <2>2. t # v => Removed(t)' = Removed(t)
    BY <1>1, <1>7 DEF Removed
  <2>3. t # v => Opened(t)' = Opened(t)
    BY <1>1, <1>4, <1>6 DEF Opened, v
  <2>4. t = v => Removed(t)' = Removed(t) \cup {q}
    BY <1>1, <1>7 DEF Removed
  <2>5. t = v => Opened(t)' = Opened(t) \ {q} /\ q \in Opened(t)
    BY <1>1, <1>4, <1>6 DEF Opened, v
  <2> QED
    BY <2>1, <2>2, <2>3, <2>4, <2>5
<1> HIDE DEF e
<1>10. Once'
  BY <1>2, <1>4, <1>6, <1>9 DEF Once
<1>11. Balance'
  <2> SUFFICES ASSUME NEW t \in Targets
               PROVE  tunnels[Root][t] + Cardinality(Added(t)') >= Cardinality(Opened(t)') + Cardinality(Removed(t)')
    BY <1>1 DEF Balance
  <2>1. Added(t) \in SUBSET Dials /\ Opened(t) \in SUBSET Dials /\ Removed(t) \in SUBSET Dials /\ q \notin Removed(t)
    BY <1>1, <1>2 DEF Added, Opened, Removed, Once
  <2>2. /\ Cardinality(Added(t)) \in Nat /\ Cardinality(Opened(t)) \in Nat /\ Cardinality(Removed(t)) \in Nat
        /\ Cardinality(Removed(t) \cup {q}) = Cardinality(Removed(t)) + 1
        /\ q \in Opened(t) => Cardinality(Opened(t) \ {q}) = Cardinality(Opened(t)) - 1
    BY <2>1, Finite
  <2>3. tunnels[Root][t] \in Nat
    BY <1>2 DEF Tunnels, Nodes
  <2>4. tunnels[Root][t] + Cardinality(Added(t)) >= Cardinality(Opened(t)) + Cardinality(Removed(t))
    BY <1>2 DEF Balance
  <2>5. Added(t)' = Added(t)
    BY <1>9
  <2>6. CASE t = v
    <3>1. Removed(t)' = Removed(t) \cup {q} /\ Opened(t)' = Opened(t) \ {q} /\ q \in Opened(t)
      BY <1>9, <2>6
    <3> QED
      BY <2>2, <2>3, <2>4, <2>5, <3>1
  <2>7. CASE t # v
    <3>1. Removed(t)' = Removed(t) /\ Opened(t)' = Opened(t)
      BY <1>9, <2>7
    <3> QED
      BY <2>4, <2>5, <3>1
  <2> QED
    BY <2>6, <2>7
<1>12. StrayIsAbandoned'
  <2>1. \A n \in Remotes : helper[q][n] = "none"
    BY <1>1, <1>3, NoHelper
  <2> QED
    BY <1>1, <1>2, <1>6, <2>1 DEF StrayIsAbandoned
<1> QED
  BY <1>6, <1>8, <1>10, <1>11, <1>12 DEF IInv

-----------------------------------------------------------------------------
(* Events of remote nodes, and the nodes themselves. *)

LEMMA FarPublished ==
  ASSUME NEW q \in Dials, NEW n \in Remotes, NEW op \in {"added", "removed"}, IInv,
         events' = events \cup Published(q, n, op), UNCHANGED <<tunnels, dial>>
  PROVE  Tunnels' /\ Once' /\ Balance'
<1>1. Published(q, n, op) \subseteq {[q |-> q, at |-> n, t |-> Root, op |-> op]}
  BY DEF Published, Target
<1>2. [q |-> q, at |-> n, t |-> Root, op |-> op] \in [q : Dials, at : Nodes, t : Targets, op : {"added", "removed"}]
  BY DEF Nodes, Targets
<1>3. Tunnels /\ Once /\ Balance
  BY DEF IInv
<1>4. Tunnels'
  BY <1>1, <1>2, <1>3 DEF Tunnels
<1>5. \A x, t, o : RootEvent(x, t, o) # [q |-> q, at |-> n, t |-> Root, op |-> op]
  BY DEF RootEvent
<1>6. \A x, t, o : RootEvent(x, t, o) \in events' <=> RootEvent(x, t, o) \in events
  BY <1>1, <1>5
<1>7. ASSUME NEW t PROVE Added(t)' = Added(t) /\ Removed(t)' = Removed(t) /\ Opened(t)' = Opened(t)
  BY <1>6 DEF Added, Removed, Opened
<1>8. Once' /\ Balance'
  BY <1>3, <1>7 DEF Once, Balance
<1> QED
  BY <1>4, <1>8

LEMMA HelperDialInd ==
  ASSUME NEW q \in Dials, NEW n \in Remotes, IInv, HelperDial(q, n)
  PROVE  IInv'
<1>1. helper[q][n] = "dialing" /\ UNCHANGED <<tunnels, up, dial>>
  BY DEF HelperDial
<1>2. Helpers /\ Tunnels /\ AllSound /\ StrayIsAbandoned /\ Once /\ Balance
  BY DEF IInv
<1>3. PICK h \in {"dialled", "refused"} : helper' = [helper EXCEPT ![q][n] = h]
  BY DEF HelperDial
<1>4. Helpers' /\ StrayIsAbandoned'
  <2>1. Helpers'
    BY <1>2, <1>3 DEF Helpers, HelperPCs
  <2>2. \A x \in Dials, m \in Remotes : helper'[x][m] # "none" => helper[x][m] # "none"
    BY <1>1, <1>2, <1>3 DEF Helpers
  <2> QED
    BY <1>1, <1>2, <2>1, <2>2 DEF StrayIsAbandoned, Helpers, HelperPCs
<1>5. AllSound'
  BY <1>1, <1>2 DEF AllSound
<1>6. Tunnels' /\ Once' /\ Balance'
  <2>1. CASE events' = events \cup Published(q, n, "added")
    BY <1>1, <2>1, FarPublished
  <2>2. CASE events' = events
    BY <1>1, <1>2, <2>2, CountsStay DEF Tunnels
  <2> QED
    BY <2>1, <2>2 DEF HelperDial
<1> QED
  BY <1>4, <1>5, <1>6 DEF IInv

LEMMA FarEndInd ==
  ASSUME NEW q \in Dials, NEW n \in Remotes, IInv, FarEnd(q, n)
  PROVE  IInv'
<1>1. events' = events \cup Published(q, n, "removed") /\ UNCHANGED <<tunnels, up, dial, helper>>
  BY DEF FarEnd
<1>2. Tunnels' /\ Once' /\ Balance'
  BY <1>1, FarPublished
<1> QED
  BY <1>1, <1>2 DEF IInv, Helpers, AllSound, StrayIsAbandoned

(* What the scans have read is out of date. *)
LEMMA Disturbed ==
  ASSUME IInv, Disturb, NEW u, up \subseteq u, up' = u, UNCHANGED helper
  PROVE  /\ Helpers' /\ AllSound' /\ StrayIsAbandoned'
         /\ \A q \in Dials : dial'[q].pc = dial[q].pc /\ dial'[q].via = dial[q].via
<1>1. Helpers /\ AllSound /\ StrayIsAbandoned
  BY DEF IInv
<1>2. dial' = [q \in Dials |-> dial'[q]]
  BY DEF Disturb
<1>3. ASSUME NEW q \in Dials
      PROVE  /\ Sound(dial'[q], up) /\ dial'[q].pc = dial[q].pc /\ dial'[q].via = dial[q].via
             /\ dial'[q].result = dial[q].result
  <2>1. dial'[q] = [dial[q] EXCEPT !.calm = FALSE] /\ Sound(dial[q], up)
    BY <1>1 DEF Disturb, AllSound
  <2> QED
    BY <2>1, CalmFacts
<1>4. \A q \in Dials : Sound(dial'[q], u)
  BY <1>3 DEF Sound
<1> QED
  BY <1>1, <1>2, <1>3, <1>4 DEF Helpers, AllSound, StrayIsAbandoned

LEMMA NodeBackInd ==
  ASSUME NEW n \in Remotes, IInv, NodeBack(n)
  PROVE  IInv'
<1>1. Disturb /\ up' = up \cup {n} /\ UNCHANGED <<tunnels, events, helper>>
  BY DEF NodeBack
<1>2. /\ Helpers' /\ AllSound' /\ StrayIsAbandoned'
      /\ \A q \in Dials : dial'[q].pc = dial[q].pc /\ dial'[q].via = dial[q].via
  BY <1>1, Disturbed
<1>3. Tunnels' /\ Once' /\ Balance'
  BY <1>1, <1>2, CountsStay DEF IInv, Tunnels
<1> QED
  BY <1>2, <1>3 DEF IInv

LEMMA NodeLostInd ==
  ASSUME NEW n \in Remotes, IInv, NodeLost(n)
  PROVE  IInv'
<1>1. /\ up' = up \ {n} /\ events' = {e \in events : e.at # n} /\ UNCHANGED <<tunnels, helper>>
      /\ dial' = [q \in Dials |-> [dial[q] EXCEPT !.calm = FALSE, !.steady = @ \ {n}]]
  BY DEF NodeLost
<1>2. Helpers /\ Tunnels /\ AllSound /\ StrayIsAbandoned /\ Once /\ Balance
  BY DEF IInv
<1>3. ASSUME NEW q \in Dials
      PROVE  /\ Sound(dial'[q], up \ {n}) /\ dial'[q].pc = dial[q].pc /\ dial'[q].via = dial[q].via
             /\ dial'[q].result = dial[q].result
  <2>1. PICK d, e : d = dial[q] /\ e = dial'[q]
    OBVIOUS
  <2>2. e = [d EXCEPT !.calm = FALSE, !.steady = @ \ {n}] /\ Sound(d, up)
    BY <1>1, <1>2, <2>1 DEF AllSound
  <2>3. DOMAIN d = Names
    BY <2>2 DEF Sound
  <2>4. /\ DOMAIN e = Names /\ e.pc = d.pc /\ e.tried = d.tried /\ e.left = d.left /\ e.cand = d.cand
        /\ e.via = d.via /\ e.result = d.result /\ e.steady = d.steady \ {n}
    BY <2>2, <2>3 DEF Names
  <2>5. Sound(d, up)
    BY <2>2
  <2>6. Sound(e, up \ {n})
    BY <2>4, <2>5 DEF Sound
  <2> QED
    BY <2>1, <2>4, <2>6
<1>4. Helpers' /\ AllSound' /\ StrayIsAbandoned' /\ Tunnels'
  BY <1>1, <1>2, <1>3 DEF Helpers, AllSound, StrayIsAbandoned, Tunnels
<1>5. \A x, t, o : RootEvent(x, t, o) \in events' <=> RootEvent(x, t, o) \in events
  BY <1>1 DEF RootEvent
<1>6. ASSUME NEW t PROVE Added(t)' = Added(t) /\ Removed(t)' = Removed(t) /\ Opened(t)' = Opened(t)
  BY <1>3, <1>5 DEF Added, Removed, Opened
<1>7. Once' /\ Balance'
  <2>1. Once'
    BY <1>2, <1>3, <1>6 DEF Once
  <2>2. Balance'
    BY <1>1, <1>2, <1>6 DEF Balance
  <2> QED
    BY <2>1, <2>2
<1> QED
  BY <1>4, <1>7 DEF IInv

(* An event of the root is told to it. *)
LEMMA ToldRoot ==
  ASSUME NEW e \in events, IInv, e.at = Root, NEW s \in Nat,
         tunnels' = [tunnels EXCEPT ![Root][e.t] = s],
         e.op = "added" => s = tunnels[Root][e.t] + 1,
         e.op = "removed" => s + 1 >= tunnels[Root][e.t],
         events' = events \ {e}, \A q \in Dials : dial'[q].pc = dial[q].pc /\ dial'[q].via = dial[q].via
  PROVE  Once' /\ Balance'
<1>1. Tunnels /\ Once /\ Balance
  BY DEF IInv
<1>2. e \in [q : Dials, at : Nodes, t : Targets, op : {"added", "removed"}]
  BY <1>1 DEF Tunnels
<1>3. PICK r \in Dials, v \in Targets, o \in {"added", "removed"} :
        e.q = r /\ e.t = v /\ e.op = o /\ e = RootEvent(r, v, o)
  <2>1. e.q \in Dials /\ e.t \in Targets /\ e.op \in {"added", "removed"}
    BY <1>2
  <2>2. e = RootEvent(e.q, e.t, e.op)
    BY <1>2 DEF RootEvent
  <2> QED
    BY <2>1, <2>2
<1>4. \A x, u, p : RootEvent(x, u, p) = e => x = r /\ u = v /\ p = o
  BY <1>3, EventFacts
<1>5. ASSUME NEW t \in Targets
      PROVE  /\ Opened(t)' = Opened(t)
             /\ t # v => Added(t)' = Added(t) /\ Removed(t)' = Removed(t)
             /\ t = v /\ o = "added" => Added(t)' = Added(t) \ {r} /\ r \in Added(t) /\ Removed(t)' = Removed(t)
             /\ t = v /\ o = "removed" => Removed(t)' = Removed(t) \ {r} /\ r \in Removed(t) /\ Added(t)' = Added(t)
  <2>1. Opened(t)' = Opened(t)
    BY DEF Opened
  <2>2. t # v => Added(t)' = Added(t) /\ Removed(t)' = Removed(t)
    BY <1>4 DEF Added, Removed
  <2>3. t = v /\ o = "added" => Added(t)' = Added(t) \ {r} /\ r \in Added(t)
    BY <1>3, <1>4 DEF Added
  <2>4. t = v /\ o = "added" => Removed(t)' = Removed(t)
    BY <1>3, <1>4 DEF Removed
  <2>5. t = v /\ o = "removed" => Removed(t)' = Removed(t) \ {r} /\ r \in Removed(t)
    BY <1>3, <1>4 DEF Removed
  <2>6. t = v /\ o = "removed" => Added(t)' = Added(t)
    BY <1>3, <1>4 DEF Added
  <2> QED
    BY <2>1, <2>2, <2>3, <2>4, <2>5, <2>6
<1>6. \A t \in Targets : Added(t)' \subseteq Added(t) /\ Removed(t)' \subseteq Removed(t)
  BY DEF Added, Removed
<1>7. Once'
  BY <1>1, <1>6 DEF Once
<1>8. Balance'
  <2> SUFFICES ASSUME NEW t \in Targets
               PROVE  tunnels'[Root][t] + Cardinality(Added(t)') >= Cardinality(Opened(t)') + Cardinality(Removed(t)')
    BY DEF Balance
  <2>1. Added(t) \in SUBSET Dials /\ Opened(t) \in SUBSET Dials /\ Removed(t) \in SUBSET Dials
    BY DEF Added, Opened, Removed
  <2>2. /\ Cardinality(Added(t)) \in Nat /\ Cardinality(Opened(t)) \in Nat /\ Cardinality(Removed(t)) \in Nat
        /\ r \in Added(t) => Cardinality(Added(t) \ {r}) = Cardinality(Added(t)) - 1
        /\ r \in Removed(t) => Cardinality(Removed(t) \ {r}) = Cardinality(Removed(t)) - 1
    BY <2>1, Finite
  <2>3. tunnels[Root][t] \in Nat /\ Root \in DOMAIN tunnels /\ t \in DOMAIN tunnels[Root]
    BY <1>1 DEF Tunnels, Nodes
  <2>4. tunnels[Root][t] + Cardinality(Added(t)) >= Cardinality(Opened(t)) + Cardinality(Removed(t))
    BY <1>1 DEF Balance
  <2>5. Opened(t)' = Opened(t)
    BY <1>5
  <2>6. CASE t # v
    <3>1. Added(t)' = Added(t) /\ Removed(t)' = Removed(t)
      BY <1>5, <2>6
    <3>2. tunnels'[Root][t] = tunnels[Root][t]
      BY <1>3, <2>3, <2>6
    <3> QED
      BY <2>4, <2>5, <3>1, <3>2
  <2>7. CASE t = v /\ o = "added"
    <3>1. Added(t)' = Added(t) \ {r} /\ r \in Added(t) /\ Removed(t)' = Removed(t)
      BY <1>5, <2>7
    <3>2. tunnels'[Root][t] = s /\ s = tunnels[Root][t] + 1
      BY <1>3, <2>3, <2>7
    <3> QED
      BY <2>2, <2>3, <2>4, <2>5, <3>1, <3>2
  <2>8. CASE t = v /\ o = "removed"
    <3>1. Removed(t)' = Removed(t) \ {r} /\ r \in Removed(t) /\ Added(t)' = Added(t)
      BY <1>5, <2>8
    <3>2. tunnels'[Root][t] = s /\ s + 1 >= tunnels[Root][t]
      BY <1>3, <2>3, <2>8
    <3> QED
      BY <2>2, <2>3, <2>4, <2>5, <3>1, <3>2
  <2> QED
    BY <2>6, <2>7, <2>8
<1> QED
  BY <1>7, <1>8

LEMMA UpdateNodeInd ==
  ASSUME NEW e \in events, IInv, UpdateNode(e)
  PROVE  IInv'
<1>1. Disturb /\ events' = events \ {e} /\ UNCHANGED <<up, helper>>
  BY DEF UpdateNode
<1>2. /\ Helpers' /\ AllSound' /\ StrayIsAbandoned'
      /\ \A q \in Dials : dial'[q].pc = dial[q].pc /\ dial'[q].via = dial[q].via
  BY <1>1, Disturbed
<1>3. Tunnels /\ Once /\ Balance
  BY DEF IInv
<1>4. e.at \in Nodes /\ e.t \in Targets /\ e.op \in {"added", "removed"}
  BY <1>3 DEF Tunnels
<1> DEFINE k == tunnels[e.at][e.t]
<1>5. k \in Nat
  BY <1>3, <1>4 DEF Tunnels
<1>6. PICK s \in Nat :
        /\ tunnels' = [tunnels EXCEPT ![e.at][e.t] = s]
        /\ e.op = "added" => s = k + 1
        /\ e.op = "removed" => s + 1 >= k
  <2>1. CASE e.op = "added"
    <3> DEFINE s == k + 1
    <3>1. s \in Nat
      BY <1>5
    <3>2. tunnels' = [tunnels EXCEPT ![e.at][e.t] = s]
      BY <2>1 DEF UpdateNode, AddTunnel
    <3>3. s = k + 1
      OBVIOUS
    <3> HIDE DEF s
    <3> QED
      BY <2>1, <3>1, <3>2, <3>3
  <2>2. CASE e.op = "removed"
    <3> DEFINE s == IF k = 0 THEN 0 ELSE k - 1
    <3>1. s \in Nat /\ s + 1 >= k
      BY <1>5
    <3>2. tunnels' = [tunnels EXCEPT ![e.at][e.t] = s]
      BY <2>2 DEF UpdateNode, RemoveTunnel
    <3> HIDE DEF s
    <3> QED
      BY <2>2, <3>1, <3>2
  <2> QED
    BY <1>4, <2>1, <2>2
<1>7. Tunnels'
  BY <1>1, <1>3, <1>4, <1>6 DEF Tunnels
<1>8. Once' /\ Balance'
  <2>1. CASE e.at = Root
    BY <1>1, <1>2, <1>6, <2>1, ToldRoot
  <2>2. CASE e.at # Root
    <3>1. \A x, t, o : RootEvent(x, t, o) \in events' <=> RootEvent(x, t, o) \in events
      BY <1>1, <2>2 DEF RootEvent
    <3>2. ASSUME NEW t PROVE Added(t)' = Added(t) /\ Removed(t)' = Removed(t) /\ Opened(t)' = Opened(t)
      BY <1>2, <3>1 DEF Added, Removed, Opened
    <3>3. tunnels'[Root] = tunnels[Root]
      BY <1>3, <1>6, <2>2 DEF Tunnels, Nodes
    <3>4. Once'
      BY <1>2, <1>3, <3>2 DEF Once
    <3>5. Balance'
      BY <1>3, <3>2, <3>3 DEF Balance
    <3> QED
      BY <3>4, <3>5
  <2> QED
    BY <2>1, <2>2
<1> QED
  BY <1>2, <1>7, <1>8 DEF IInv

-----------------------------------------------------------------------------
LEMMA InitInd == Init => IInv
<1> SUFFICES ASSUME Init PROVE IInv
  OBVIOUS
<1>1. PICK busy \in SUBSET Remotes :
        tunnels = [n \in Nodes |-> [t \in Targets |-> IF n \in busy /\ t = Root THEN 1 ELSE 0]]
  BY DEF Init
<1>2. /\ up = Remotes /\ events = {} /\ dial = [q \in Dials |-> Idle]
      /\ helper = [q \in Dials |-> [n \in Remotes |-> "none"]]
  BY DEF Init
<1>3. Helpers /\ StrayIsAbandoned
  BY <1>2 DEF Helpers, HelperPCs, StrayIsAbandoned
<1>4. Tunnels
  BY <1>1, <1>2 DEF Tunnels
<1>5. DOMAIN Idle = Names /\ Idle.pc = "idle" /\ Idle.result = "none" /\ Idle.cand = Nil /\ Idle.steady = {}
  BY DEF Idle, Names
<1>6. AllSound
  BY <1>2, <1>5 DEF AllSound, Sound, DialPCs, Results
<1>7. \A t : Added(t) = {} /\ Removed(t) = {} /\ Opened(t) = {}
  BY <1>2, <1>5 DEF Added, Removed, Opened
<1>8. Once /\ Balance
  <2>1. Once
    BY <1>7 DEF Once
  <2>2. \A t \in Targets : tunnels[Root][t] \in Nat
    BY <1>4 DEF Tunnels, Nodes
  <2> QED
    BY <1>7, <2>1, <2>2, FS_EmptySet DEF Balance
<1> QED
  BY <1>3, <1>4, <1>6, <1>8 DEF IInv

LEMMA StepInd == IInv /\ [Next]_vars => IInv'
<1> SUFFICES ASSUME IInv, [Next]_vars PROVE IInv'
  OBVIOUS
<1>1. ASSUME NEW q \in Dials, Call(q) \/ DialStep(q) \/ Expire(q) \/ Hangup(q) PROVE IInv'
  BY <1>1, CallInd, ChooseInd, DialLocalInd, DialRemoteInd, ReceiveInd, ContextDoneInd,
     WeighInd,
     ExpireInd, HangupInd DEF DialStep
<1>2. ASSUME NEW q \in Dials, NEW n \in Remotes, HelperDial(q, n) \/ FarEnd(q, n) PROVE IInv'
  BY <1>2, HelperDialInd, FarEndInd
<1>3. ASSUME NEW e \in events, UpdateNode(e) PROVE IInv'
  BY <1>3, UpdateNodeInd
<1>4. ASSUME NEW n \in Remotes, NodeLost(n) \/ NodeBack(n) PROVE IInv'
  BY <1>4, NodeLostInd, NodeBackInd
<1>5. CASE UNCHANGED vars
  <2>1. UNCHANGED <<tunnels, up, events, dial, helper>>
    BY <1>5 DEF vars
  <2>2. Once' /\ Balance'
    BY <2>1, CountsStay DEF IInv
  <2> QED
    BY <2>1, <2>2 DEF IInv, Helpers, Tunnels, AllSound, StrayIsAbandoned
<1> QED
  BY <1>1, <1>2, <1>3, <1>4, <1>5 DEF Next

LEMMA Invariance == Spec => []IInv
BY InitInd, StepInd, PTL DEF Spec

(* However many nodes there are, come and go, DialContext returns an error *)
(* only after the local gateway and every remote node that was there all   *)
(* the time have failed the dial (dispatcher.go:201).                      *)
THEOREM ErrorAfterAll == Spec => []TriesAll
<1>1. IInv => TriesAll
  BY DEF IInv, AllSound, Sound, TriesAll
<1> QED
  BY <1>1, Invariance, PTL

(* The goroutine of a dial outlives it only when its deadline passed in    *)
(* that dial, and then DialContext returned no connection                  *)
(* (dispatcher.go:197, 244).                                               *)
THEOREM StraysAbandoned == Spec => []StrayIsAbandoned
<1>1. IInv => StrayIsAbandoned
  BY DEF IInv
<1> QED
  BY <1>1, Invariance, PTL

(* For any number of sessions whose events overtake each other, the root   *)
(* counts no less than are open once its events have arrived               *)
(* (node.go:143, 173).                                                     *)
THEOREM RootCountsOpen == Spec => []RootCounts
<1>1. IInv => RootCounts
  <2> SUFFICES ASSUME IInv, \A e \in events : e.at # Root, NEW t \in Targets
               PROVE  tunnels[Root][t] >= Cardinality(Opened(t))
    BY DEF RootCounts, Opened
  <2>1. \A x, o : RootEvent(x, t, o) \notin events
    BY DEF RootEvent
  <2>2. Added(t) = {} /\ Removed(t) = {}
    BY <2>1 DEF Added, Removed
  <2>3. Opened(t) \in SUBSET Dials
    BY DEF Opened
  <2>4. Cardinality(Opened(t)) \in Nat /\ Cardinality(Added(t)) = 0 /\ Cardinality(Removed(t)) = 0
    BY <2>2, <2>3, Finite, FS_EmptySet
  <2>5. tunnels[Root][t] \in Nat
    BY DEF IInv, Tunnels, Nodes
  <2>6. tunnels[Root][t] + Cardinality(Added(t)) >= Cardinality(Opened(t)) + Cardinality(Removed(t))
    BY DEF IInv, Balance
  <2> QED
    BY <2>4, <2>5, <2>6
<1> QED
  BY <1>1, Invariance, PTL

-----------------------------------------------------------------------------
(* Sums over finite sets.                                                  *)
(* Of the members of a nonempty set of subsets of a finite set, one contains *)
(* no other: what takes the place of an induction on the size of a set.    *)
LEMMA SmallestSubset ==
  ASSUME NEW S, IsFiniteSet(S), NEW B \in SUBSET SUBSET S, B # {}
  PROVE  \E s \in B : \A t \in B : t \subseteq s => t = s
<1> DEFINE R == StrictSubsetOrdering(S)
<1>1. IsWellFoundedOn(R, FiniteSubsetsOf(S)) /\ B \subseteq FiniteSubsetsOf(S)
  BY FS_StrictSubsetOrderingWellFounded, FS_Subset DEF FiniteSubsetsOf
<1> HIDE DEF R
<1>2. PICK s \in B : \A t \in B : ~(<<t, s>> \in R)
  BY <1>1, WFMin
<1>3. ASSUME NEW t \in B, t \subseteq s, t # s PROVE FALSE
  <2>1. <<t, s>> \in (SUBSET S) \X (SUBSET S) /\ <<t, s>>[1] \subseteq <<t, s>>[2] /\ <<t, s>>[1] # <<t, s>>[2]
    BY <1>3
  <2> QED
    BY <2>1, <1>2 DEF R, StrictSubsetOrdering
<1> QED
  BY <1>3

(* The member that the sum of a set takes first, and the function it is    *)
(* computed with, on all subsets.                                          *)
Some(s) == CHOOSE x \in s : TRUE
Adds(f, S, g) == g = [s \in SUBSET S |-> IF s = {} THEN 0 ELSE f[Some(s)] + g[s \ {Some(s)}]]

LEMMA SomeIn == ASSUME NEW s, s # {} PROVE Some(s) \in s
BY DEF Some

LEMMA AddsAt ==
  ASSUME NEW f, NEW S, NEW g, Adds(f, S, g), NEW s \in SUBSET S
  PROVE  g[s] = IF s = {} THEN 0 ELSE f[Some(s)] + g[s \ {Some(s)}]
BY DEF Adds

(* Only one function adds so, and there is one (a smallest set on which two *)
(* differ, or for which there is none, would be no such set).              *)
LEMMA AddsUnique ==
  ASSUME NEW f, NEW S, NEW T, NEW g, NEW h, IsFiniteSet(S), Adds(f, S, g), Adds(f, T, h)
  PROVE  \A s \in SUBSET S : s \in SUBSET T => g[s] = h[s]
<1> DEFINE B == {s \in SUBSET S : s \in SUBSET T /\ g[s] # h[s]}
<1>1. SUFFICES ASSUME B # {} PROVE FALSE
  OBVIOUS
<1>0. B \in SUBSET SUBSET S
  OBVIOUS
<1>2. PICK s \in B : \A t \in B : t \subseteq s => t = s
  <2> HIDE DEF B
  <2> QED
    BY <1>0, <1>1, SmallestSubset
<1>3. s # {}
  BY <1>2, AddsAt
<1> DEFINE t == s \ {Some(s)}
<1>4. t \subseteq s /\ t # s /\ t \in SUBSET S /\ t \in SUBSET T
  BY <1>2, <1>3, SomeIn
<1>5. g[t] = h[t]
  BY <1>2, <1>4
<1>6. s \in SUBSET S /\ s \in SUBSET T
  BY <1>2
<1> HIDE DEF B
<1>7. g[s] = IF s = {} THEN 0 ELSE f[Some(s)] + g[s \ {Some(s)}]
  BY <1>6, AddsAt
<1>8. h[s] = IF s = {} THEN 0 ELSE f[Some(s)] + h[s \ {Some(s)}]
  BY <1>6, AddsAt
<1>9. g[s] = f[Some(s)] + g[t] /\ h[s] = f[Some(s)] + h[t]
  BY <1>3, <1>7, <1>8
<1>10. g[s] # h[s]
  BY <1>2 DEF B
<1> QED
  BY <1>5, <1>9, <1>10

LEMMA AddsExists == ASSUME NEW f, NEW S, IsFiniteSet(S) PROVE \E g : Adds(f, S, g)
<1> DEFINE B == {s \in SUBSET S : ~ \E g : Adds(f, s, g)}
<1>1. SUFFICES ASSUME B # {} PROVE FALSE
  OBVIOUS
<1>0. B \in SUBSET SUBSET S
  OBVIOUS
<1>2. PICK s \in B : \A t \in B : t \subseteq s => t = s
  <2> HIDE DEF B
  <2> QED
    BY <1>0, <1>1, SmallestSubset
<1> DEFINE V(t) == (CHOOSE g : Adds(f, t, g))[t]
           h == [t \in SUBSET s |-> IF t = {} THEN 0 ELSE f[Some(t)] + V(t \ {Some(t)})]
<1>3. ASSUME NEW t \in SUBSET s, t # s PROVE Adds(f, t, CHOOSE g : Adds(f, t, g)) /\ IsFiniteSet(t)
  <2>1. t \in SUBSET S /\ t \notin B
    BY <1>2, <1>3
  <2>2. \E g : Adds(f, t, g)
    BY <2>1
  <2> QED
    BY <2>1, <2>2, FS_Subset
<1> HIDE DEF B
<1>4. ASSUME NEW t \in SUBSET s, t # s PROVE h[t] = V(t)
  <2> DEFINE k == CHOOSE g : Adds(f, t, g)
  <2>1. Adds(f, t, k) /\ IsFiniteSet(t)
    BY <1>3, <1>4
  <2> HIDE DEF k
  <2>2. V(t) = k[t]
    BY DEF k
  <2>3. CASE t = {}
    BY <2>1, <2>2, <2>3, AddsAt
  <2>4. CASE t # {}
    <3> DEFINE u == t \ {Some(t)}
               m == CHOOSE g : Adds(f, u, g)
    <3>1. u \in SUBSET s /\ u \in SUBSET t /\ u # s
      BY <2>4, SomeIn
    <3>2. Adds(f, u, m) /\ V(u) = m[u]
      BY <3>1, <1>3
    <3> HIDE DEF m
    <3>3. m[u] = k[u]
      BY <2>1, <3>1, <3>2, AddsUnique, <1>3
    <3>4. k[t] = f[Some(t)] + k[u]
      BY <2>1, <2>4, AddsAt
    <3>5. h[t] = f[Some(t)] + V(u)
      BY <2>4
    <3> QED
      BY <2>2, <3>2, <3>3, <3>4, <3>5
  <2> QED
    BY <2>3, <2>4
<1>5. ASSUME NEW t \in SUBSET s, t # {} PROVE V(t \ {Some(t)}) = h[t \ {Some(t)}]
  <2>1. t \ {Some(t)} \in SUBSET s /\ t \ {Some(t)} # s
    BY <1>5, SomeIn
  <2> QED
    BY <2>1, <1>4
<1> DEFINE e(t) == IF t = {} THEN 0 ELSE f[Some(t)] + h[t \ {Some(t)}]
<1>6. h = [t \in SUBSET s |-> IF t = {} THEN 0 ELSE f[Some(t)] + V(t \ {Some(t)})]
  OBVIOUS
<1> HIDE DEF h, V
<1>7. \A t \in SUBSET s : (IF t = {} THEN 0 ELSE f[Some(t)] + V(t \ {Some(t)})) = e(t)
  BY <1>5
<1> HIDE DEF e
<1>8. h = [t \in SUBSET s |-> e(t)]
  BY <1>6, <1>7
<1>9. Adds(f, s, h)
  BY <1>8 DEF Adds, e
<1> QED
  BY <1>9, <1>2 DEF B

(* What SumFunctionOnSet computes.                                         *)
LEMMA SumFacts ==
  ASSUME NEW f, NEW S, IsFiniteSet(S)
  PROVE  SumFunctionOnSet(f, S) =
           IF S = {} THEN 0 ELSE f[Some(S)] + SumFunctionOnSet(f, S \ {Some(S)})
<1> DEFINE G(s) == CHOOSE g : Adds(f, s, g)
<1>1. \A s : SumFunctionOnSet(f, s) = G(s)[s]
  BY DEF SumFunctionOnSet, FoldFunctionOnSet, MapThenFoldSet, Adds, Some
<1>2. \A s : IsFiniteSet(s) => Adds(f, s, G(s))
  BY AddsExists
<1> HIDE DEF G
<1>3. IsFiniteSet(S \ {Some(S)}) /\ S \ {Some(S)} \in SUBSET S
  BY FS_RemoveElement
<1>4. G(S \ {Some(S)})[S \ {Some(S)}] = G(S)[S \ {Some(S)}]
  BY <1>2, <1>3, AddsUnique
<1>5. G(S)[S] = IF S = {} THEN 0 ELSE f[Some(S)] + G(S)[S \ {Some(S)}]
  BY <1>2, AddsAt
<1> QED
  BY <1>1, <1>4, <1>5

(* A sum of counters is one.                                               *)
LEMMA SumNat ==
  ASSUME NEW f, NEW S, IsFiniteSet(S), \A x \in S : f[x] \in Nat
  PROVE  SumFunctionOnSet(f, S) \in Nat
<1> DEFINE B == {s \in SUBSET S : SumFunctionOnSet(f, s) \notin Nat}
<1>1. SUFFICES ASSUME B # {} PROVE FALSE
  OBVIOUS
<1>0. B \in SUBSET SUBSET S
  OBVIOUS
<1>2. PICK s \in B : \A t \in B : t \subseteq s => t = s
  <2> HIDE DEF B
  <2> QED
    BY <1>0, <1>1, SmallestSubset
<1>3. s \in SUBSET S /\ SumFunctionOnSet(f, s) \notin Nat
  BY <1>2
<1>4. IsFiniteSet(s)
  BY <1>3, FS_Subset
<1>5. s # {}
  <2>1. SumFunctionOnSet(f, s) = IF s = {} THEN 0 ELSE f[Some(s)] + SumFunctionOnSet(f, s \ {Some(s)})
    BY <1>4, SumFacts
  <2> QED
    BY <1>3, <2>1
<1> DEFINE t == s \ {Some(s)}
<1>6. Some(s) \in s /\ t \in SUBSET S /\ t # s
  BY <1>3, <1>5, SomeIn
<1>7. SumFunctionOnSet(f, t) \in Nat
  BY <1>2, <1>6
<1>8. SumFunctionOnSet(f, s) = f[Some(s)] + SumFunctionOnSet(f, t)
  BY <1>4, <1>5, SumFacts
<1> QED
  BY <1>3, <1>6, <1>7, <1>8

(* The order in which it adds plays no part: any member may be the first.  *)
LEMMA SumRemove ==
  ASSUME NEW f, NEW S, IsFiniteSet(S), \A x \in S : f[x] \in Nat, NEW n \in S
  PROVE  SumFunctionOnSet(f, S) = f[n] + SumFunctionOnSet(f, S \ {n})
<1> DEFINE Sum(s) == SumFunctionOnSet(f, s)
           B == {s \in SUBSET S : \E m \in s : Sum(s) # f[m] + Sum(s \ {m})}
<1>1. SUFFICES ASSUME B # {} PROVE FALSE
  OBVIOUS
<1>0. B \in SUBSET SUBSET S
  OBVIOUS
<1>2. PICK s \in B : \A t \in B : t \subseteq s => t = s
  <2> HIDE DEF B
  <2> QED
    BY <1>0, <1>1, SmallestSubset
<1>3. s \in SUBSET S /\ \E m \in s : Sum(s) # f[m] + Sum(s \ {m})
  BY <1>2
<1>4. PICK m \in s : Sum(s) # f[m] + Sum(s \ {m})
  BY <1>3
<1>5. \A t \in SUBSET s : IsFiniteSet(t) /\ Sum(t) \in Nat
  BY <1>3, SumNat, FS_Subset
<1> DEFINE x == Some(s)
           t == s \ {x}
<1>6. x \in s /\ x # m
  BY <1>4, <1>5, SomeIn, SumFacts
<1>7. Sum(s) = f[x] + Sum(t)
  BY <1>6, <1>5, SumFacts
<1>8. Sum(t) = f[m] + Sum(t \ {m})
  <2>1. t \in SUBSET S /\ t \subseteq s /\ t # s /\ m \in t
    BY <1>3, <1>6
  <2> QED
    BY <2>1, <1>2
<1>9. Sum(s \ {m}) = f[x] + Sum((s \ {m}) \ {x})
  <2>1. s \ {m} \in SUBSET S /\ s \ {m} \subseteq s /\ s \ {m} # s /\ x \in s \ {m}
    BY <1>3, <1>6
  <2> QED
    BY <2>1, <1>2
<1>10. (s \ {m}) \ {x} = t \ {m}
  OBVIOUS
<1>11. f[x] \in Nat /\ f[m] \in Nat /\ Sum(t \ {m}) \in Nat
  BY <1>3, <1>5, <1>6
<1>12. Sum(s) = f[x] + (f[m] + Sum(t \ {m})) /\ Sum(s \ {m}) = f[x] + Sum(t \ {m})
  BY <1>7, <1>8, <1>9, <1>10
<1> HIDE DEF Sum, B, x, t
<1>13. \A a, b, d \in Nat : a + (b + d) = b + (a + d)
  OBVIOUS
<1> QED
  BY <1>4, <1>11, <1>12, <1>13

-----------------------------------------------------------------------------
(* What a scan has weighed.                                                *)
USE ConstantsAssumption

(* The workloads of the nodes, and the nodes that a scan has passed.       *)
Load == [n \in Nodes |-> Workload(n)]
Seen(d) == up \ d.left

(* What an undisturbed scan has found so far: the workload of the root, the *)
(* sum of those it has passed, and the least of them that is not tried.    *)
Weighs(d) ==
    d.pc = "scan" /\ d.calm =>
       /\ d.left \subseteq up
       /\ d.tr = Workload(Root)
       /\ d.twl = SumFunctionOnSet(Load, Seen(d))
       /\ d.cand = Nil => Seen(d) \subseteq d.tried
       /\ d.cand # Nil => /\ d.cand \in Seen(d) \ d.tried
                          /\ \A m \in Seen(d) \ d.tried : Workload(d.cand) <= Workload(m)
AllWeigh == \A q \in Dials : Weighs(dial[q])

(* The inductive invariant of the scan.                                    *)
WInv == IInv /\ TypeOK /\ AllWeigh

DialRecords ==
    [pc : DialPCs, tried : SUBSET Nodes, left : SUBSET Remotes, tr : Int,
     twl : Int, cand : Remotes \cup {Nil}, via : Nodes \cup {Nil},
     result : Results, expired : BOOLEAN, calm : BOOLEAN, steady : SUBSET Remotes]

LEMMA DialIn == TypeOK => dial \in [Dials -> DialRecords]
BY DEF TypeOK, DialRecords

(* Workload adds counters (node.go:82).                                    *)
LEMMA WorkloadNat == ASSUME TypeOK PROVE \A n \in Nodes : Workload(n) \in Nat
<1>1. IsFiniteSet(Targets)
  BY FS_AddElement DEF Targets, Nodes
<1>2. ASSUME NEW n \in Nodes PROVE Workload(n) \in Nat
  <2>1. DOMAIN tunnels[n] = Targets /\ \A t \in Targets : tunnels[n][t] \in Nat
    BY DEF TypeOK
  <2> QED
    BY <1>1, <2>1, SumNat DEF Workload, SumFunction
<1> QED
  BY <1>2

(* A step of one dial.                                                     *)
LEMMA DialWeighs ==
  ASSUME WInv, NEW q \in Dials, NEW r \in DialRecords, Weighs(r),
         dial' = [dial EXCEPT ![q] = r], UNCHANGED <<tunnels, up>>,
         IInv', far' \subseteq Dials \X Remotes
  PROVE  WInv'
<1>1. dial \in [Dials -> DialRecords]
  BY DialIn DEF WInv
<1>2. dial' \in [Dials -> DialRecords]
  BY <1>1
<1>3. TypeOK'
  BY <1>2 DEF WInv, TypeOK, DialRecords, IInv, Helpers, Tunnels
<1>4. \A x \in Dials : dial'[x] = r \/ dial'[x] = dial[x]
  BY <1>1
<1>5. \A x : Weighs(x)' <=> Weighs(x)
  BY DEF Weighs, Seen, Load, Workload
<1>6. \A x \in Dials : Weighs(dial'[x])
  BY <1>4 DEF WInv, AllWeigh
<1> QED
  BY <1>3, <1>5, <1>6 DEF WInv, AllWeigh, Weighs, Seen, Load, Workload

(* A scan that starts has passed nothing.                                  *)
LEMMA ScanWeighs ==
  ASSUME TypeOK, NEW d \in DialRecords
  PROVE  Scanning(d) \in DialRecords /\ Weighs(Scanning(d)) /\ [Scanning(d) EXCEPT !.steady = up] \in DialRecords
         /\ Weighs([Scanning(d) EXCEPT !.steady = up])
<1>1. Workload(Root) \in Nat
  BY WorkloadNat DEF Nodes
<1>2. SumFunctionOnSet(Load, {}) = 0
  BY SumFacts, FS_EmptySet
<1>3. up \ up = {} /\ up \in SUBSET Remotes
  BY DEF TypeOK
<1> DEFINE w == Workload(Root)
           u == SumFunctionOnSet(Load, {})
<1>4. \A r : r.left = up /\ r.tr = w /\ r.twl = 0 /\ r.cand = Nil => Weighs(r)
  BY <1>2, <1>3 DEF Weighs, Seen
<1> HIDE DEF w, u
<1>5. Scanning(d) \in DialRecords
  <2> DEFINE a == [Idle EXCEPT !.pc = "scan", !.left = up]
             b == [a EXCEPT !.tr = w, !.calm = TRUE]
             c == [b EXCEPT !.tried = d.tried]
             e == [c EXCEPT !.expired = d.expired]
  <2>1. Idle \in DialRecords
    BY DEF Idle, DialRecords, DialPCs, Results
  <2>2. a \in DialRecords
    BY <1>3, <2>1 DEF DialRecords, DialPCs
  <2>3. b \in DialRecords
    <3> HIDE DEF a
    <3>1. w \in Int
      BY <1>1 DEF w
    <3> QED
      BY <2>2, <3>1 DEF DialRecords
  <2>4. c \in DialRecords
    <3> HIDE DEF b
    <3> QED
      BY <2>3 DEF DialRecords
  <2>5. e \in DialRecords
    <3> HIDE DEF c
    <3> QED
      BY <2>4 DEF DialRecords
  <2>6. [e EXCEPT !.steady = d.steady] \in DialRecords
    <3> HIDE DEF e
    <3> QED
      BY <2>5 DEF DialRecords
  <2>7. Scanning(d) = [e EXCEPT !.steady = d.steady]
    BY DEF Scanning, w
  <2> QED
    BY <2>6, <2>7
<1>7. \A r \in DialRecords : [r EXCEPT !.steady = up] \in DialRecords
  BY <1>3 DEF DialRecords
<1>6. /\ Scanning(d).left = up /\ Scanning(d).tr = w /\ Scanning(d).twl = 0 /\ Scanning(d).cand = Nil
      /\ [Scanning(d) EXCEPT !.steady = up].left = up /\ [Scanning(d) EXCEPT !.steady = up].tr = w
      /\ [Scanning(d) EXCEPT !.steady = up].twl = 0 /\ [Scanning(d) EXCEPT !.steady = up].cand = Nil
  BY DEF Scanning, Idle, w
<1> QED
  BY <1>4, <1>5, <1>6, <1>7

(* One node is weighed (dispatcher.go:98): its workload joins the sum, and it *)
(* is the candidate if it is less loaded than the one before.              *)
LEMMA WeighStep ==
  ASSUME WInv, IInv', NEW q \in Dials, NEW n \in Remotes, Weigh(q, n)
  PROVE  WInv'
<1> DEFINE d == dial[q]
           r == [Weighed(d, n) EXCEPT !.left = @ \ {n}]
<1>1. d \in DialRecords /\ d.pc = "scan" /\ n \in d.left /\ Weighs(d)
  BY DialIn DEF WInv, AllWeigh, Weigh
<1>2. \A m \in Nodes : Workload(m) \in Nat
  BY WorkloadNat DEF WInv
<1>3. dial' = [dial EXCEPT ![q] = r] /\ UNCHANGED <<tunnels, up, events, helper, far>>
  BY DEF Weigh
<1> DEFINE t == IF n \in up THEN d.twl + Workload(n) ELSE d.twl
           c == IF n \in up /\ n \notin d.tried /\ (d.cand = Nil \/ Workload(n) < Workload(d.cand))
                THEN n ELSE d.cand
<1>4. r = [d EXCEPT !.left = @ \ {n}, !.twl = t, !.cand = c]
  BY <1>1 DEF Weighed, DialRecords
<1> DEFINE w == Workload(n)
<1>5. w \in Nat
  BY <1>2 DEF Nodes
<1>6. r \in DialRecords
  <2> HIDE DEF w, d
  <2>1. t \in Int /\ c \in Remotes \cup {Nil}
    BY <1>1, <1>5 DEF w, DialRecords
  <2> HIDE DEF t, c, r
  <2> QED
    BY <2>1, <1>1, <1>4 DEF DialRecords
<1>7. /\ r.pc = d.pc /\ r.left = d.left \ {n} /\ r.twl = t /\ r.cand = c /\ r.tr = d.tr
      /\ r.tried = d.tried /\ r.calm = d.calm
  <2> HIDE DEF t, c, r, d
  <2> QED
    BY <1>1, <1>4 DEF DialRecords
<1>8. Weighs(r)
  <2> HIDE DEF r, d, t, c, w
  <2> SUFFICES ASSUME d.calm PROVE Weighs(r)
    BY <1>7 DEF Weighs
  <2>1. /\ d.left \subseteq up /\ d.tr = Workload(Root) /\ d.twl = SumFunctionOnSet(Load, Seen(d))
        /\ d.cand = Nil => Seen(d) \subseteq d.tried
        /\ d.cand # Nil => /\ d.cand \in Seen(d) \ d.tried
                           /\ \A m \in Seen(d) \ d.tried : Workload(d.cand) <= Workload(m)
    BY <1>1 DEF Weighs
  <2>2. n \in up /\ up \subseteq Remotes /\ up \subseteq Nodes
    BY <1>1, <2>1 DEF WInv, TypeOK, Nodes
  <2>3. Seen(r) = Seen(d) \cup {n} /\ n \notin Seen(d) /\ Seen(d) \subseteq up
    BY <1>1, <1>7, <2>2 DEF Seen
  <2>4. SumFunctionOnSet(Load, Seen(r)) = Workload(n) + SumFunctionOnSet(Load, Seen(d))
    <3>1. Seen(r) \ {n} = Seen(d) /\ n \in Seen(r) /\ Seen(r) \in SUBSET Remotes
      BY <2>2, <2>3
    <3>4. IsFiniteSet(Seen(r))
      BY <3>1, FS_Subset
    <3>2. \A m \in Seen(r) : Load[m] \in Nat
      BY <1>2, <2>2, <2>3 DEF Load
    <3>3. Load[n] = Workload(n)
      BY DEF Load, Nodes
    <3> QED
      BY <3>1, <3>2, <3>3, <3>4, SumRemove
  <2>5. \A m \in Seen(r) : Workload(m) \in Nat
    BY <1>2, <2>2, <2>3
  <2>6. SumFunctionOnSet(Load, Seen(d)) \in Nat
    <3>1. Seen(d) \in SUBSET Remotes /\ \A m \in Seen(d) : Load[m] \in Nat
      BY <1>2, <2>2, <2>3 DEF Load
    <3>2. IsFiniteSet(Seen(d))
      BY <3>1, FS_Subset
    <3> QED
      BY <3>1, <3>2, SumNat
  <2>7. r.twl = SumFunctionOnSet(Load, Seen(r))
    BY <1>5, <1>7, <2>1, <2>2, <2>4, <2>6 DEF t, w
  <2>8. r.cand = Nil => Seen(r) \subseteq r.tried
    BY <1>7, <2>1, <2>2, <2>3 DEF c
  <2>9. ASSUME r.cand # Nil
        PROVE  r.cand \in Seen(r) \ r.tried
               /\ \A m \in Seen(r) \ r.tried : Workload(r.cand) <= Workload(m)
    <3>1. CASE d.cand = Nil
      <4>1. c = n /\ n \notin d.tried /\ Seen(r) \ r.tried = {n}
        BY <1>7, <2>1, <2>2, <2>3, <2>9, <3>1 DEF c
      <4> QED
        BY <4>1, <1>5, <1>7, <2>3 DEF w
    <3>2. CASE d.cand # Nil
      <4>1. d.cand \in Seen(d) \ d.tried /\ Workload(d.cand) \in Nat
        BY <2>1, <2>3, <2>5, <3>2
      <4>2. CASE n \notin d.tried /\ Workload(n) < Workload(d.cand)
        <5>1. c = n
          BY <4>2, <2>2 DEF c
        <5>2. \A m \in Seen(d) \ d.tried : Workload(n) <= Workload(m)
          BY <2>1, <2>3, <2>5, <3>2, <4>1, <4>2, <1>5 DEF w
        <5>3. r.cand = n /\ r.tried = d.tried /\ Seen(r) \ r.tried = {n} \cup (Seen(d) \ d.tried)
          BY <1>7, <2>3, <4>2, <5>1
        <5>4. Workload(n) <= Workload(n)
          BY <1>5 DEF w
        <5> QED
          BY <2>3, <4>2, <5>2, <5>3, <5>4
      <4>3. CASE ~(n \notin d.tried /\ Workload(n) < Workload(d.cand))
        <5>1. c = d.cand
          BY <4>3, <3>2 DEF c
        <5>2. \A m \in Seen(r) \ r.tried : Workload(d.cand) <= Workload(m)
          BY <1>5, <1>7, <2>1, <2>3, <2>5, <3>2, <4>1, <4>3 DEF w
        <5> QED
          BY <1>7, <2>3, <4>1, <5>1, <5>2
      <4> QED
        BY <4>2, <4>3
    <3> QED
      BY <3>1, <3>2
  <2>10. r.left \subseteq up /\ r.tr = Workload(Root)
    BY <1>7, <2>1
  <2> HIDE DEF r
  <2> QED
    BY <2>7, <2>8, <2>9, <2>10 DEF Weighs
<1> HIDE DEF r
<1> QED
  BY <1>3, <1>6, <1>8, DialWeighs DEF WInv, TypeOK

(* A dial that is not scanning, or has been disturbed.                     *)
LEMMA Unread == ASSUME NEW r, r.pc # "scan" \/ ~r.calm PROVE Weighs(r)
BY DEF Weighs

LEMMA ChooseWeighs ==
  ASSUME WInv, IInv', NEW q \in Dials, Choose(q)
  PROVE  WInv'
<1> DEFINE d == dial[q]
           n == Chosen(d)
           r == IF n = Nil THEN [d EXCEPT !.pc = "done", !.result = "error"]
                ELSE [d EXCEPT !.pc = "dial", !.via = n, !.tried = @ \cup {n},
                               !.tr = 0, !.twl = 0, !.cand = Nil, !.calm = FALSE]
<1>1. d \in DialRecords
  BY DialIn DEF WInv
<1>2. n \in Nodes \cup {Nil}
  BY <1>1 DEF Chosen, DialRecords, Nodes
<1>3. dial' = [dial EXCEPT ![q] = r] /\ UNCHANGED <<tunnels, up, events, helper, far>>
  BY DEF Choose
<1> HIDE DEF n, d
<1>4. r \in DialRecords /\ r.pc # "scan"
  <2>1. CASE n = Nil
    BY <1>1, <2>1 DEF DialRecords, DialPCs, Results
  <2>2. CASE n \in Nodes
    <3> DEFINE e == [d EXCEPT !.pc = "dial", !.via = n, !.tried = @ \cup {n}]
           f == [e EXCEPT !.tr = 0, !.twl = 0]
    <3>1. e \in DialRecords /\ e.pc = "dial"
      BY <1>1, <2>2 DEF DialRecords, DialPCs
    <3>2. r = [f EXCEPT !.cand = Nil, !.calm = FALSE]
      BY <1>1, <2>2 DEF DialRecords, Nodes
    <3> HIDE DEF e
    <3>3. f \in DialRecords /\ f.pc = "dial"
      <4>1. [e EXCEPT !.tr = 0] \in DialRecords /\ [e EXCEPT !.tr = 0].pc = "dial"
        BY <3>1 DEF DialRecords
      <4>2. \A x \in DialRecords : x.pc = "dial" => [x EXCEPT !.twl = 0] \in DialRecords /\ [x EXCEPT !.twl = 0].pc = "dial"
        BY DEF DialRecords
      <4>3. f = [[e EXCEPT !.tr = 0] EXCEPT !.twl = 0]
        BY <3>1 DEF DialRecords
      <4> QED
        BY <4>1, <4>2, <4>3
    <3> HIDE DEF f, r
    <3> QED
      BY <3>2, <3>3 DEF DialRecords
  <2> QED
    BY <1>2, <2>1, <2>2
<1> HIDE DEF r
<1> QED
  BY <1>3, <1>4, Unread, DialWeighs DEF WInv, TypeOK

LEMMA FailsWeighs ==
  ASSUME WInv, IInv', NEW q \in Dials, dial' = [dial EXCEPT ![q] = Scanning(@)],
         UNCHANGED <<tunnels, up, far>>
  PROVE  WInv'
<1>1. dial[q] \in DialRecords
  BY DialIn DEF WInv
<1>2. dial' = [dial EXCEPT ![q] = Scanning(dial[q])]
  OBVIOUS
<1>3. Scanning(dial[q]) \in DialRecords /\ Weighs(Scanning(dial[q]))
  BY <1>1, ScanWeighs DEF WInv
<1> QED
  BY <1>2, <1>3, DialWeighs DEF WInv, TypeOK

LEMMA CallWeighs ==
  ASSUME WInv, IInv', NEW q \in Dials, Call(q)
  PROVE  WInv'
<1> DEFINE r == [Scanning(dial[q]) EXCEPT !.steady = up]
<1>1. dial[q] \in DialRecords
  BY DialIn DEF WInv
<1>2. dial' = [dial EXCEPT ![q] = r] /\ UNCHANGED <<tunnels, up, far>>
  BY DEF Call
<1>3. r \in DialRecords /\ Weighs(r)
  BY <1>1, ScanWeighs DEF WInv
<1> HIDE DEF r
<1> QED
  BY <1>2, <1>3, DialWeighs DEF WInv, TypeOK

(* A step to where nothing is read.                                        *)
LEMMA UnreadWeighs ==
  ASSUME WInv, IInv', NEW q \in Dials, NEW r \in DialRecords, r.pc # "scan",
         dial' = [dial EXCEPT ![q] = r], UNCHANGED <<tunnels, up, far>>
  PROVE  WInv'
BY Unread, DialWeighs DEF WInv, TypeOK

(* The records of dials that have ended.                                   *)
LEMMA IdleIn ==
  ASSUME NEW v \in Nodes \cup {Nil}
  PROVE  \A p \in DialPCs, x \in Results :
           /\ [Idle EXCEPT !.pc = p, !.result = x] \in DialRecords
           /\ [Idle EXCEPT !.pc = p, !.via = v, !.result = x] \in DialRecords
<1>1. Idle \in DialRecords
  BY DEF Idle, DialRecords, DialPCs, Results
<1>2. \A r \in DialRecords, p \in DialPCs, x \in Results : [r EXCEPT !.pc = p, !.result = x] \in DialRecords
  BY DEF DialRecords
<1>3. \A r \in DialRecords, p \in DialPCs : [r EXCEPT !.pc = p, !.via = v] \in DialRecords
  BY DEF DialRecords
<1>4. \A r \in DialRecords, x \in Results : [r EXCEPT !.result = x] \in DialRecords
  BY DEF DialRecords
<1>5. \A p \in DialPCs, x \in Results : [Idle EXCEPT !.pc = p, !.via = v, !.result = x]
         = [[Idle EXCEPT !.pc = p, !.via = v] EXCEPT !.result = x]
  OBVIOUS
<1> QED
  BY <1>1, <1>2, <1>3, <1>4, <1>5

LEMMA ConnectedWeighs ==
  ASSUME WInv, IInv', NEW q \in Dials, Connected(q), UNCHANGED <<tunnels, up, far>>
  PROVE  WInv'
<1> DEFINE r == [Idle EXCEPT !.pc = "open", !.via = dial[q].via, !.result = "conn"]
<1>1. dial[q].via \in Nodes \cup {Nil}
  BY DialIn DEF WInv, DialRecords
<1>2. r \in DialRecords
  BY <1>1, IdleIn DEF DialPCs, Results
<1>3. r.pc # "scan" /\ dial' = [dial EXCEPT ![q] = r]
  BY DEF Idle, Connected
<1> HIDE DEF r
<1> QED
  BY <1>2, <1>3, UnreadWeighs

LEMMA QuietWeighs ==
  ASSUME WInv, IInv', NEW q \in Dials,
         \/ DialRemote(q) \/ ContextDone(q) \/ Hangup(q)
         \/ \E n \in Remotes : HelperDial(q, n) \/ FarEnd(q, n)
  PROVE  WInv'
<1>0. dial \in [Dials -> DialRecords] /\ dial[q] \in DialRecords
  BY DialIn DEF WInv
<1>1. CASE DialRemote(q)
  <2>1. [dial[q] EXCEPT !.pc = "wait"] \in DialRecords /\ [dial[q] EXCEPT !.pc = "wait"].pc # "scan"
    BY <1>0 DEF DialRecords, DialPCs
  <2>2. dial' = [dial EXCEPT ![q] = [dial[q] EXCEPT !.pc = "wait"]]
    BY <1>1, <1>0 DEF DialRemote
  <2> QED
    BY <1>1, <2>1, <2>2, UnreadWeighs DEF DialRemote
<1>2. CASE ContextDone(q)
  <2>1. Abandoned(dial[q]) \in DialRecords
    <3>1. dial[q].via \in Nodes \cup {Nil}
      BY <1>0 DEF DialRecords
    <3> QED
      BY <3>1, IdleIn DEF Abandoned, DialPCs, Results
  <2>2. Abandoned(dial[q]).pc # "scan"
    BY DEF Abandoned, Idle
  <2> QED
    BY <1>2, <2>1, <2>2, UnreadWeighs DEF ContextDone
<1>3. CASE Hangup(q)
  <2>1. [Idle EXCEPT !.pc = "done", !.result = "conn"] \in DialRecords
    BY IdleIn DEF DialPCs, Results
  <2>2. [Idle EXCEPT !.pc = "done", !.result = "conn"].pc # "scan"
    BY DEF Idle
  <2> QED
    BY <1>3, <2>1, <2>2, UnreadWeighs DEF Hangup
<1>4. ASSUME NEW n \in Remotes, HelperDial(q, n) \/ FarEnd(q, n) PROVE WInv'
  <2>1. UNCHANGED <<tunnels, up, dial>> /\ far' \subseteq Dials \X Remotes
    BY <1>4 DEF HelperDial, FarEnd, WInv, TypeOK
  <2>2. TypeOK'
    BY <2>1 DEF WInv, TypeOK, IInv, Helpers, Tunnels
  <2>3. AllWeigh'
    BY <2>1 DEF WInv, AllWeigh, Weighs, Seen, Load, Workload
  <2> QED
    BY <2>2, <2>3 DEF WInv
<1> QED
  BY <1>1, <1>2, <1>3, <1>4

LEMMA ExpireWeighs ==
  ASSUME WInv, IInv', NEW q \in Dials, Expire(q)
  PROVE  WInv'
<1> DEFINE r == [dial[q] EXCEPT !.expired = TRUE]
<1>1. dial \in [Dials -> DialRecords] /\ dial[q] \in DialRecords
  BY DialIn DEF WInv
<1>2. r \in DialRecords /\ r.pc # "scan"
  BY <1>1 DEF DialRecords, Expire
<1>3. dial' = [dial EXCEPT ![q] = r] /\ UNCHANGED <<tunnels, up, far>>
  BY <1>1 DEF Expire
<1> QED
  BY <1>2, <1>3, UnreadWeighs

(* What disturbs every scan.                                               *)
LEMMA DisturbWeighs ==
  ASSUME WInv, IInv', up' \subseteq Remotes, UNCHANGED far,
         dial' = [q \in Dials |-> dial'[q]], \A q \in Dials : dial'[q] \in DialRecords /\ ~dial'[q].calm
  PROVE  WInv'
<1>1. dial' \in [Dials -> DialRecords]
  OBVIOUS
<1>2. TypeOK'
  BY <1>1 DEF WInv, TypeOK, DialRecords, IInv, Helpers, Tunnels
<1>3. AllWeigh'
  BY DEF AllWeigh, Weighs
<1> QED
  BY <1>2, <1>3 DEF WInv

LEMMA ElseWeighs ==
  ASSUME WInv, IInv',
         (\E e \in events : UpdateNode(e)) \/ (\E n \in Remotes : NodeLost(n) \/ NodeBack(n))
  PROVE  WInv'
<1>0. \A q \in Dials : dial[q] \in DialRecords
  BY DialIn DEF WInv
<1>1. \A d \in DialRecords : [d EXCEPT !.calm = FALSE] \in DialRecords /\ ~[d EXCEPT !.calm = FALSE].calm
  BY DEF DialRecords
<1>2. \A d \in DialRecords : \A n : /\ [d EXCEPT !.calm = FALSE, !.steady = @ \ {n}] \in DialRecords
                                  /\ ~[d EXCEPT !.calm = FALSE, !.steady = @ \ {n}].calm
  BY DEF DialRecords
<1>3. CASE \E e \in events : UpdateNode(e)
  <2>1. dial' = [q \in Dials |-> [dial[q] EXCEPT !.calm = FALSE]] /\ UNCHANGED <<up, far>>
    BY <1>3 DEF UpdateNode, Disturb
  <2> QED
    BY <1>0, <1>1, <2>1, DisturbWeighs DEF WInv, TypeOK
<1>4. ASSUME NEW n \in Remotes, NodeLost(n) PROVE WInv'
  <2>1. dial' = [q \in Dials |-> [dial[q] EXCEPT !.calm = FALSE, !.steady = @ \ {n}]]
        /\ up' \subseteq Remotes /\ UNCHANGED far
    BY <1>4 DEF NodeLost, WInv, TypeOK
  <2> QED
    BY <1>0, <1>2, <2>1, DisturbWeighs
<1>5. ASSUME NEW n \in Remotes, NodeBack(n) PROVE WInv'
  <2>1. dial' = [q \in Dials |-> [dial[q] EXCEPT !.calm = FALSE]] /\ up' \subseteq Remotes /\ UNCHANGED far
    BY <1>5 DEF NodeBack, Disturb, WInv, TypeOK
  <2> QED
    BY <1>0, <1>1, <2>1, DisturbWeighs
<1> QED
  BY <1>3, <1>4, <1>5

LEMMA WeighInit == Init => WInv
<1> SUFFICES ASSUME Init PROVE WInv
  OBVIOUS
<1>1. IInv
  BY InitInd
<1>2. Idle \in DialRecords /\ Idle.pc # "scan"
  BY DEF Idle, DialRecords, DialPCs, Results
<1>3. dial = [q \in Dials |-> Idle] /\ up = Remotes /\ far = {}
  BY DEF Init
<1>4. dial \in [Dials -> DialRecords] /\ AllWeigh
  BY <1>2, <1>3, Unread DEF AllWeigh
<1>5. TypeOK
  BY <1>1, <1>3, <1>4 DEF TypeOK, DialRecords, IInv, Helpers, Tunnels
<1> QED
  BY <1>1, <1>4, <1>5 DEF WInv

LEMMA WeighNext == WInv /\ [Next]_vars => WInv'
<1> SUFFICES ASSUME WInv, [Next]_vars PROVE WInv'
  OBVIOUS
<1>1. IInv'
  BY StepInd DEF WInv
<1>2. CASE UNCHANGED vars
  BY <1>1, <1>2 DEF vars, WInv, TypeOK, AllWeigh, Weighs, Seen, Load, Workload
<1>3. ASSUME NEW q \in Dials, DialLocal(q) \/ Receive(q) PROVE WInv'
  <2>1. /\ Connected(q) \/ Fails(q)
        /\ UNCHANGED <<tunnels, up, far>>
    BY <1>3 DEF DialLocal, Receive
  <2> QED
    BY <1>1, <2>1, ConnectedWeighs, FailsWeighs DEF Fails
<1>4. CASE Next
  BY <1>1, <1>3, <1>4, CallWeighs, WeighStep, ChooseWeighs, QuietWeighs, ExpireWeighs,
     ElseWeighs
  DEF Next, DialStep
<1> QED
  BY <1>2, <1>4

LEMMA WeighInvariance == Spec => []WInv
BY WeighInit, WeighNext, PTL DEF Spec

(* The state is what Dispatcher declares; the counters of tunnels are never *)
(* negative, whatever order events arrive in (node.go:139, 173).           *)
THEOREM TypeCorrect == Spec => []TypeOK
<1>1. WInv => TypeOK
  BY DEF WInv
<1> QED
  BY <1>1, WeighInvariance, PTL

(* However many nodes there are, in whatever order they are weighed: unless *)
(* events, losses or returns disturb the scan, GetNodeBalanced picks the   *)
(* root only if every free node carries more than the root without the     *)
(* sessions that remote nodes serve, and otherwise a free node that no     *)
(* other undercuts (dispatcher.go:91-144).                                 *)
THEOREM LeastIsChosen == Spec => []ChoosesLeast
<1>1. WInv => ChoosesLeast
  <2> SUFFICES ASSUME WInv, NEW q \in Dials, dial[q].pc = "scan", dial[q].left = {}, dial[q].calm
               PROVE  LET d == dial[q]
                          local == Workload(Root) - SumFunctionOnSet(Load, up)
                          free == up \ d.tried
                          least == {n \in free : \A m \in free : Workload(n) <= Workload(m)}
                          rootWins == Root \notin d.tried /\ \A n \in free : local < Workload(n)
                      IN  IF rootWins THEN Chosen(d) = Root
                          ELSE IF free = {} THEN Chosen(d) = Nil
                          ELSE Chosen(d) \in least
    BY DEF ChoosesLeast, Load
  <2> DEFINE d == dial[q]
             free == up \ d.tried
             least == {n \in free : \A m \in free : Workload(n) <= Workload(m)}
             w == Workload(Root)
             t == SumFunctionOnSet(Load, up)
  <2>1. Seen(d) = up /\ d \in DialRecords /\ Weighs(d) /\ up \subseteq Remotes
    BY DialIn DEF Seen, WInv, AllWeigh, TypeOK
  <2>2. /\ d.tr = w /\ d.twl = t
        /\ d.cand = Nil => free = {}
        /\ d.cand # Nil => d.cand \in least
    BY <2>1 DEF Weighs
  <2>3. \A n \in free \cup {Root} : Workload(n) \in Nat
    BY <2>1, WorkloadNat DEF WInv, Nodes
  <2>4. t \in Nat
    <3>1. IsFiniteSet(up) /\ \A n \in up : Load[n] \in Nat
      BY <2>1, WorkloadNat, FS_Subset DEF WInv, Nodes, Load
    <3> QED
      BY <3>1, SumNat
  <2> HIDE DEF w, t
  <2>5. CASE d.cand = Nil
    BY <2>2, <2>5 DEF Chosen, w, t
  <2>6. CASE d.cand # Nil
    <3>1. /\ d.cand \in free /\ Workload(d.cand) \in Nat /\ w \in Nat
          /\ \A n \in free : Workload(n) \in Nat /\ Workload(d.cand) <= Workload(n)
      BY <2>2, <2>3, <2>6 DEF w
    <3>2. (\A n \in free : w - t < Workload(n)) <=> Workload(d.cand) > w - t
      BY <3>1, <2>4
    <3> QED
      BY <2>2, <2>6, <3>1, <3>2 DEF Chosen, w, t
  <2> QED
    BY <2>5, <2>6
<1> QED
  BY <1>1, WeighInvariance, PTL
=============================================================================
