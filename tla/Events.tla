------------------------------- MODULE Events -------------------------------
(***************************************************************************)
(* The way of an event from the transaction that emits it to the           *)
(* subscriber: Outbox and Webhook together, with the failures of each.     *)
(***************************************************************************)
EXTENDS Webhook

CONSTANTS MaxFaults     \* failures and restarts in a behaviour

ASSUME EventsAssumption == MaxFaults \in Nat

VARIABLES faults

vars == <<outboxVars, webhookVars, faults>>

Init ==
    /\ OutboxInit
    /\ WebhookInit
    /\ faults = 0

Domain(e) == (Begin(e) \/ Emit(e) \/ Abort(e)) /\ UNCHANGED <<webhookVars, faults>>

Drain(r) ==
    /\ ClaimUnsentOutbox(r) \/ Publish(r) \/ MarkOutboxSent(r)
    /\ UNCHANGED <<webhookVars, faults>>

FanOut(p) == Consume(p) /\ UNCHANGED <<outboxVars, faults>>

Deliver(w) ==
    /\ \/ ClaimDueDeliveries(w)
       \/ \E h \in held[w], reply \in Reply : deliver(w, h, reply)
    /\ UNCHANGED <<outboxVars, faults>>

Wait(d) == Due(d) /\ UNCHANGED <<outboxVars, faults>>

Replay(s) == ReplayDeadLettered(s) /\ UNCHANGED <<outboxVars, faults>>

Fault ==
    /\ faults < MaxFaults
    /\ faults' = faults + 1
    /\ \/ \E r \in Relay : Rollback(r) /\ UNCHANGED webhookVars
       \/ \E p \in Partition, w \in Worker : ConsumeFails(p, w) /\ UNCHANGED outboxVars
       \/ \E w \in Worker : deliverFails(w) /\ UNCHANGED outboxVars

Next ==
    \/ \E e \in Event : Domain(e)
    \/ \E r \in Relay : Drain(r)
    \/ \E p \in Partition : FanOut(p)
    \/ \E w \in Worker : Deliver(w)
    \/ \E d \in Delivery : Wait(d)
    \/ \E s \in Subscription : Replay(s)
    \/ Fault

\* The relay, the consumer and the workers are loops that go on after every
\* failure, and time passes.  Nothing is asked of callers or operators.
Fairness ==
    /\ \A r \in Relay : WF_vars(Drain(r))
    /\ \A p \in Partition : WF_vars(FanOut(p))
    /\ \A w \in Worker : WF_vars(Deliver(w))
    /\ \A d \in Delivery : WF_vars(Wait(d))

Spec == Init /\ [][Next]_vars /\ Fairness

(***************************************************************************)
(* Properties.                                                             *)
(***************************************************************************)
Status == {"none", "pending", "delivered", "dead_letter"}

\* Every variable has its type.
TypeOK ==
    /\ created \in [Event -> Nat]
    /\ committed \subseteq Event
    /\ sent \subseteq Event
    /\ batch \in [Relay -> Seq(Event)]
    /\ published \in [Relay -> BOOLEAN]
    /\ topic \in [Partition -> Seq(Event)]
    /\ offset \in [Partition -> Nat]
    /\ rows \in [Delivery -> [status : Status, attempts : Nat, due : BOOLEAN]]
    /\ \A w \in Worker : held[w] \subseteq [d : Delivery, attempts : Nat]
    /\ received \subseteq Delivery
    /\ failed \in [Delivery -> Nat]
    /\ faults \in Nat

\* Where a committed event is safe: still to be claimed, ahead of the committed
\* offset, or in the delivery table.
Waiting(e) == e \notin sent

Ahead(e) ==
    LET p == PartitionOf[e]
    IN  \E i \in DOMAIN topic[p] : i > offset[p] /\ topic[p][i] = e

\* "At-least-once delivery without a distributed transaction": whatever rolls
\* back, crashes or commits late, no committed event is ever out of the hands
\* of the table, the topic and the delivery rows all at once.
NothingLost ==
    \A d \in Delivery :
        d[1] \in committed => Waiting(d[1]) \/ Ahead(d[1]) \/ rows[d].status # "none"

\* "A hash-keyed producer preserves per-aggregate ordering; the relay claims
\* oldest-first to keep it": with one relay, an event is on the topic only
\* after every earlier event of its aggregate is, retries included.
PublishedInOrder ==
    (\A q, r \in Relay : q = r) =>
    \A p \in Partition :
        \A n \in DOMAIN topic[p] :
            \A e \in Prior[topic[p][n]] : \E m \in 1 .. n - 1 : topic[p][m] = e

\* maxAttempts, "once a delivery has failed this many times it is parked in
\* dead_letter": although expired leases let several workers write the same
\* row from old attempt counts, none is parked before that many failed sends.
DeadMeansTried == \A d \in Delivery : rows[d].status = "dead_letter" => failed[d] >= MaxAttempts

\* The tables as the notifier that the subscriber and the operator see.
Outcome(d) ==
    IF d[1] \notin committed THEN "none"
    ELSE IF rows[d].status \in {"none", "pending"} THEN "owed" ELSE rows[d].status

N == INSTANCE Notifications WITH outcome <- [d \in Delivery |-> Outcome(d)]

\* The pipeline implements Notifications: nothing is sent that did not happen,
\* nothing is reported delivered that the subscriber does not have, and a
\* delivery leaves the books only by being delivered or openly given up.
ImplementsNotifications == N!Spec

\* drainBatch, run and drainOnce retry what failed: every event owed to a
\* subscriber is eventually delivered or dead-lettered.
EventuallySettled == \A d \in Delivery : Outcome(d) = "owed" ~> Outcome(d) # "owed"
=============================================================================
