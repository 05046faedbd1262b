------------------------------ MODULE Webhook -------------------------------
(***************************************************************************)
(* internal/webhook and cmd/webhookd: the consumer turns each message into *)
(* one delivery row per matching subscription and then commits the offset; *)
(* the workers of any number of processes claim due rows under a lease,    *)
(* POST them and record the outcome.  Nothing is locked during the POST,   *)
(* and the outcome is written by id, from the attempts read at the claim.  *)
(*                                                                         *)
(* Time is a flag: due says that next_attempt_at has passed.               *)
(***************************************************************************)
EXTENDS Outbox

CONSTANTS
    Subscription,
    Wants,          \* Wants[s]: the events whose type active subscription s names
    Worker,         \* webhookd processes
    MaxAttempts,    \* maxAttempts
    ClaimBatch      \* claimBatch

ASSUME WebhookAssumption ==
    /\ \A s \in Subscription : Wants[s] \subseteq Event
    /\ MaxAttempts \in Nat \ {0}
    /\ ClaimBatch \in Nat \ {0}

Delivery == {d \in Event \X Subscription : d[1] \in Wants[d[2]]}

VARIABLES
    offset,     \* offset[p]: the committed offset of the consumer group
    rows,       \* webhook_deliveries, by (event_id, subscription_id)
    held,       \* held[w]: the claimed rows w has still to deliver, as read
    received,   \* the deliveries that reached the subscriber
    failed      \* failed[d]: failed sends of d, counted up to MaxAttempts

workerVars == <<held, received, failed>>
webhookVars == <<offset, rows, workerVars>>

NoRow == [status |-> "none", attempts |-> 0, due |-> FALSE]

WebhookInit ==
    /\ offset = [p \in Partition |-> 0]
    /\ rows = [d \in Delivery |-> NoRow]
    /\ held = [w \in Worker |-> {}]
    /\ received = {}
    /\ failed = [d \in Delivery |-> 0]

(***************************************************************************)
(* The consumer: FetchMessage, Handle, CommitMessages.                     *)
(***************************************************************************)
NewRow == [status |-> "pending", attempts |-> 0, due |-> TRUE]

\* ON CONFLICT (event_id, subscription_id) DO NOTHING
FanOutDelivery(e) ==
    rows' = [d \in Delivery |-> IF d[1] = e /\ rows[d].status = "none" THEN NewRow ELSE rows[d]]

Fetched(p) == topic[p][offset[p] + 1]

\* Mutant: the offset of a message whose fan-out failed is committed too.
ConsumeAnyway(p) ==
    /\ offset[p] < Len(topic[p])
    /\ FanOutDelivery(Fetched(p)) \/ UNCHANGED rows
    /\ offset' = [offset EXCEPT ![p] = @ + 1]
    /\ UNCHANGED workerVars

Consume(p) ==
    /\ offset[p] < Len(topic[p])
    /\ FanOutDelivery(Fetched(p))
    /\ offset' = [offset EXCEPT ![p] = @ + 1]
    /\ UNCHANGED workerVars

\* The fan-out fails, or is written and the offset commit fails: run returns,
\* the process with its worker w ends and is restarted, and the reader resumes
\* from the committed offset.
ConsumeFails(p, w) ==
    /\ offset[p] < Len(topic[p])
    /\ FanOutDelivery(Fetched(p)) \/ UNCHANGED rows
    /\ held' = [held EXCEPT ![w] = {}]
    /\ UNCHANGED <<offset, received, failed>>

(***************************************************************************)
(* The delivery worker.                                                    *)
(***************************************************************************)
\* Mutant: only rows that were never tried are claimed.
ClaimFresh(w) ==
    LET due == {d \in Delivery : rows[d].status = "pending" /\ rows[d].due /\ rows[d].attempts = 0}
    IN  /\ held[w] = {}
        /\ due # {}
        /\ held' = [held EXCEPT ![w] = {[d |-> d, attempts |-> 0] : d \in due}]
        /\ rows' = [d \in Delivery |-> IF d \in due THEN [rows[d] EXCEPT !.due = FALSE] ELSE rows[d]]
        /\ UNCHANGED <<offset, received, failed>>

\* The claim pushes next_attempt_at past the lease.
ClaimDueDeliveries(w) ==
    LET due == {d \in Delivery : rows[d].status = "pending" /\ rows[d].due}
    IN  /\ held[w] = {}
        /\ \E claim \in SUBSET due :
             /\ claim # {}
             /\ Cardinality(claim) <= ClaimBatch
             /\ claim = due \/ Cardinality(claim) = ClaimBatch
             /\ held' = [held EXCEPT ![w] = {[d |-> d, attempts |-> rows[d].attempts] : d \in claim}]
             /\ rows' = [d \in Delivery |-> IF d \in claim THEN [rows[d] EXCEPT !.due = FALSE] ELSE rows[d]]
        /\ UNCHANGED <<offset, received, failed>>

\* Mutant: the row is given up one attempt early.
classifyEarly(newAttempts, answered) ==
    IF answered THEN "delivered"
    ELSE IF newAttempts + 1 >= MaxAttempts THEN "dead_letter" ELSE "retry"

\* Mutant: any completed request is a success.
classifyAnswered(newAttempts, answered) == "delivered"

\* answered: a 2xx response came back.
classify(newAttempts, answered) ==
    IF answered THEN "delivered"
    ELSE IF newAttempts >= MaxAttempts THEN "dead_letter" ELSE "retry"

\* The POST of one claimed row: accepted, accepted with the answer lost (a
\* timeout), or not accepted.
Reply == {"2xx", "lost", "refused"}

Send(d, reply) ==
    /\ received' = IF reply = "refused" THEN received ELSE received \cup {d}
    /\ failed' = IF reply = "2xx" \/ failed[d] = MaxAttempts THEN failed
                 ELSE [failed EXCEPT ![d] = @ + 1]

\* Mutant: a retry writes its outcome into the status too.
MarkedAlways(row, newAttempts, outcome) ==
    [row EXCEPT !.status = outcome, !.attempts = newAttempts, !.due = FALSE]

\* MarkDeliverySucceeded, MarkDeliveryDeadLettered, MarkDeliveryRetry: by id,
\* whatever the row has become since; a retry leaves the status alone.
Marked(row, newAttempts, outcome) ==
    IF outcome = "retry" THEN [row EXCEPT !.attempts = newAttempts, !.due = FALSE]
    ELSE [row EXCEPT !.status = outcome, !.attempts = newAttempts]

\* The steps between the POST and the mark change nothing others see.
deliver(w, h, reply) ==
    LET newAttempts == h.attempts + 1
    IN  /\ h \in held[w]
        /\ Send(h.d, reply)
        /\ rows' = [rows EXCEPT ![h.d] = Marked(@, newAttempts, classify(newAttempts, reply = "2xx"))]
        /\ held' = [held EXCEPT ![w] = @ \ {h}]
        /\ UNCHANGED offset

\* The mark fails after the POST, or the process crashes before or after it:
\* the rest of the batch is left to its lease.
deliverFails(w) ==
    /\ held[w] # {}
    /\ \/ \E h \in held[w], reply \in Reply : Send(h.d, reply)
       \/ UNCHANGED <<received, failed>>
    /\ held' = [held EXCEPT ![w] = {}]
    /\ UNCHANGED <<offset, rows>>

\* next_attempt_at passes: a backoff or a lease has run out.
Due(d) ==
    /\ rows[d].status = "pending"
    /\ ~rows[d].due
    /\ rows' = [rows EXCEPT ![d].due = TRUE]
    /\ UNCHANGED <<offset, workerVars>>

\* paymentrailctl replay-webhook
ReplayDeadLettered(s) ==
    LET dead == {d \in Delivery : d[2] = s /\ rows[d].status = "dead_letter"}
    IN  /\ dead # {}
        /\ rows' = [d \in Delivery |-> IF d \in dead THEN NewRow ELSE rows[d]]
        /\ UNCHANGED <<offset, workerVars>>
=============================================================================
