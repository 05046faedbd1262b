------------------------------- MODULE Outbox -------------------------------
(***************************************************************************)
(* internal/outbox and cmd/outboxrelay: domain transactions append events  *)
(* to the outbox table, relays move them to the Kafka topic.  An event     *)
(* becomes visible when its transaction commits, while its created_at is   *)
(* the time the transaction began.  A relay claims, publishes and marks    *)
(* inside one transaction; the broker does not take part in it.            *)
(***************************************************************************)
EXTENDS Integers, Sequences, FiniteSets, Functions

CONSTANTS
    Event,          \* the outbox rows that are ever written
    Prior,          \* Prior[e]: the earlier events of e's aggregate
    Partition,
    PartitionOf,    \* PartitionOf[e]: where the hash of e's aggregate id leads
    Relay,          \* relay processes
    BatchSize       \* DefaultBatchSize

ASSUME OutboxAssumption ==
    /\ PartitionOf \in [Event -> Partition]
    /\ Prior \in [Event -> SUBSET Event]
    /\ \A e \in Event : \A f \in Prior[e] : PartitionOf[f] = PartitionOf[e]
    /\ BatchSize \in Nat \ {0}

VARIABLES
    created,    \* created[e]: created_at of e, 0 before its transaction begins
    committed,  \* the events whose transactions have committed
    sent,       \* the events with sent_at
    batch,      \* batch[r]: the rows relay r has claimed, oldest first
    published,  \* published[r]: the broker has acknowledged all of them
    topic       \* topic[p]: the messages of partition p

emitVars == <<created, committed>>
relayVars == <<sent, batch, published>>
outboxVars == <<emitVars, relayVars, topic>>

OutboxInit ==
    /\ created = [e \in Event |-> 0]
    /\ committed = {}
    /\ sent = {}
    /\ batch = [r \in Relay |-> <<>>]
    /\ published = [r \in Relay |-> FALSE]
    /\ topic = [p \in Partition |-> <<>>]

(***************************************************************************)
(* Domain transactions.  Those of one aggregate follow each other (each    *)
(* changes the status the one before it has left); others overlap.         *)
(***************************************************************************)
Open(e) == created[e] # 0 /\ e \notin committed

Latest(t) == \A e \in Event : created[e] < t

Begin(e) ==
    /\ created[e] = 0
    /\ Prior[e] \subseteq committed
    /\ \E t \in 1 .. Cardinality(Event) :
         /\ Latest(t)
         /\ t > 1 => ~Latest(t - 1)
         /\ created' = [created EXCEPT ![e] = t]
    /\ UNCHANGED <<committed, relayVars, topic>>

\* Emit and the change it describes commit together, or neither does.
Emit(e) ==
    /\ Open(e)
    /\ committed' = committed \cup {e}
    /\ UNCHANGED <<created, relayVars, topic>>

Abort(e) ==
    /\ Open(e)
    /\ created' = [created EXCEPT ![e] = 0]
    /\ UNCHANGED <<committed, relayVars, topic>>

(***************************************************************************)
(* drainBatch.                                                             *)
(***************************************************************************)
\* Rows without sent_at that no other relay has locked (SKIP LOCKED).
Claimable == (committed \ sent) \ UNION {Range(batch[q]) : q \in Relay}

\* rows is the result of ORDER BY created_at LIMIT BatchSize over S.
Oldest(rows, S) ==
    /\ Len(rows) <= BatchSize
    /\ \A i, j \in DOMAIN rows : i < j => created[rows[i]] < created[rows[j]]
    /\ \A e \in S \ Range(rows) :
         /\ Len(rows) = BatchSize
         /\ \A i \in DOMAIN rows : created[rows[i]] < created[e]

Batches(S) == UNION {[1 .. n -> S] : n \in 1 .. BatchSize}

\* Mutant: the relay goes on after the last created_at it has sent.
ClaimAfterCursor(r) ==
    LET rest == {e \in Claimable : \A f \in sent : created[f] < created[e]}
    IN  /\ batch[r] = <<>>
        /\ \E rows \in Batches(rest) :
             /\ Oldest(rows, rest)
             /\ batch' = [batch EXCEPT ![r] = rows]
        /\ UNCHANGED <<emitVars, sent, published, topic>>

ClaimUnsentOutbox(r) ==
    /\ batch[r] = <<>>
    /\ \E rows \in Batches(Claimable) :
         /\ Oldest(rows, Claimable)
         /\ batch' = [batch EXCEPT ![r] = rows]
    /\ UNCHANGED <<emitVars, sent, published, topic>>

\* share is what WriteMessages sends to partition p, in the order of the batch.
IsShare(share, p, msgs) ==
    /\ Range(share) = {e \in Range(msgs) : PartitionOf[e] = p}
    /\ \A i, j \in DOMAIN share : i < j =>
         \E m, n \in DOMAIN msgs : m < n /\ msgs[m] = share[i] /\ msgs[n] = share[j]

\* The broker appends the shares of the partitions in W.
WriteMessages(r, W) ==
    \E shares \in [Partition -> Batches(Range(batch[r])) \cup {<<>>}] :
        /\ \A p \in Partition : IsShare(shares[p], p, batch[r])
        /\ topic' = [p \in Partition |-> IF p \in W THEN topic[p] \o shares[p] ELSE topic[p]]

Publish(r) ==
    /\ batch[r] # <<>>
    /\ ~published[r]
    /\ WriteMessages(r, Partition)
    /\ published' = [published EXCEPT ![r] = TRUE]
    /\ UNCHANGED <<emitVars, sent, batch>>

EndBatch(r) ==
    /\ batch' = [batch EXCEPT ![r] = <<>>]
    /\ published' = [published EXCEPT ![r] = FALSE]

\* MarkOutboxSent, and the commit.
MarkOutboxSent(r) ==
    /\ published[r]
    /\ sent' = sent \cup Range(batch[r])
    /\ EndBatch(r)
    /\ UNCHANGED <<emitVars, topic>>

\* The broker did not acknowledge the batch, whatever it has written of it; or
\* the mark or the commit failed; or the relay crashed.  The rows stay unsent.
Rollback(r) ==
    /\ batch[r] # <<>>
    /\ \/ ~published[r] /\ \E W \in SUBSET Partition : WriteMessages(r, W)
       \/ published[r] /\ UNCHANGED topic
    /\ EndBatch(r)
    /\ UNCHANGED <<emitVars, sent>>
=============================================================================
