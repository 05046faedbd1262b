---------------------------- MODULE Notifications ---------------------------
(***************************************************************************)
(* What the outbox, the relay, the topic and webhookd promise together: an *)
(* event is owed to its subscribers from the moment its transaction        *)
(* commits; it is reported delivered only once the subscriber has it, and  *)
(* otherwise given up openly, for the operator to replay.                  *)
(***************************************************************************)
CONSTANTS Delivery

VARIABLES
    outcome,    \* outcome[d]: none, owed, delivered or dead_letter
    received    \* the deliveries the subscribers have, possibly several times

notifyVars == <<outcome, received>>

Init ==
    /\ outcome = [d \in Delivery |-> "none"]
    /\ received = {}

Occur(e) ==
    /\ outcome' = [d \in Delivery |-> IF d[1] = e THEN "owed" ELSE outcome[d]]
    /\ \A d \in Delivery : d[1] = e => outcome[d] = "none"
    /\ UNCHANGED received

\* One attempt: it may reach the subscriber, and it may settle the delivery.
Attempt(d) ==
    /\ outcome[d] # "none"
    /\ received' \in {received, received \cup {d}}
    /\ \E o \in {outcome[d], "delivered", "dead_letter"} :
         /\ o = "delivered" => d \in received'
         /\ outcome' = [outcome EXCEPT ![d] = o]

Replay(s) ==
    /\ outcome' = [d \in Delivery |->
                     IF d[2] = s /\ outcome[d] = "dead_letter" THEN "owed" ELSE outcome[d]]
    /\ UNCHANGED received

Next ==
    \/ \E e \in {d[1] : d \in Delivery} : Occur(e)
    \/ \E d \in Delivery : Attempt(d)
    \/ \E s \in {d[2] : d \in Delivery} : Replay(s)

Spec == Init /\ [][Next]_notifyVars
=============================================================================
