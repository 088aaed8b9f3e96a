----------------------------- MODULE Broadcast ------------------------------
(***************************************************************************)
(* What booster's pubsub promises to its subscribers, without goroutines,  *)
(* locks or slots: every subscription has a box of accepted messages that  *)
(* are given to its Run in any order, each at most once; a message is lost *)
(* only when its subscription is being stopped; and nothing is given to a  *)
(* subscription that has ended.                                            *)
(***************************************************************************)
CONSTANTS Subs, Pubs

VARIABLES
    phase,  \* of a subscription: none, open, closing, ended
    mail    \* of a message to a subscription: unsent, held, delivered, lost

bvars == <<phase, mail>>

BInit ==
    /\ phase = [s \in Subs |-> "none"]
    /\ mail = [s \in Subs |-> [p \in Pubs |-> "unsent"]]

(* Sub has made a channel for s. *)
Subscribe(s) ==
    /\ phase[s] = "none"
    /\ phase' = [phase EXCEPT ![s] = "open"]
    /\ UNCHANGED mail

(* Pub hands the message p to an open subscription. *)
Accept(s, p) ==
    /\ phase[s] = "open"
    /\ mail[s][p] = "unsent"
    /\ mail' = [mail EXCEPT ![s][p] = "held"]
    /\ UNCHANGED phase

(* Run(p) is called; possibly while the channel is being stopped. *)
Give(s, p) ==
    /\ phase[s] \in {"open", "closing"}
    /\ mail[s][p] = "held"
    /\ mail' = [mail EXCEPT ![s][p] = "delivered"]
    /\ UNCHANGED phase

Lose(s, p) ==
    /\ phase[s] \in {"closing", "ended"}
    /\ mail[s][p] = "held"
    /\ mail' = [mail EXCEPT ![s][p] = "lost"]
    /\ UNCHANGED phase

(* A cancel, an error of Run, Close, or a consumer that is too slow. *)
Deactivate(s) ==
    /\ phase[s] = "open"
    /\ phase' = [phase EXCEPT ![s] = "closing"]
    /\ UNCHANGED mail

(* The subscription ends, and messages it still held may be lost with it. *)
End(s) ==
    /\ phase[s] = "closing"
    /\ phase' = [phase EXCEPT ![s] = "ended"]
    /\ \E gone \in SUBSET {p \in Pubs : mail[s][p] = "held"} :
          mail' = [mail EXCEPT ![s] =
                     [p \in Pubs |-> IF p \in gone THEN "lost" ELSE @[p]]]

BNext ==
    \E s \in Subs :
       \/ Subscribe(s) \/ Deactivate(s) \/ End(s)
       \/ \E p \in Pubs : Accept(s, p) \/ Give(s, p) \/ Lose(s, p)

BSpec == BInit /\ [][BNext]_bvars

(* With consumers that keep up, no accepted message is held for ever. *)
BFairSpec ==
    /\ BSpec
    /\ \A s \in Subs, p \in Pubs : WF_bvars(Give(s, p) \/ Lose(s, p))
=============================================================================
