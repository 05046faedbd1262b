---------------------------- MODULE EventsProofs ----------------------------
(***************************************************************************)
(* No committed event is lost on its way to the subscribers, none is given *)
(* up early, and the whole way implements Notifications; for any number of *)
(* events, relays, partitions, subscriptions, workers and failures.        *)
(***************************************************************************)
EXTENDS Events, TLAPS

(***************************************************************************)
(* The strengthening.  A relay may mark a batch sent only after every      *)
(* event of it is handed over: on the topic ahead of the offset, or in the *)
(* delivery table.  Consuming moves an event from the first to the second. *)
(***************************************************************************)
Stored(e) == \A d \in Delivery : d[1] = e => rows[d].status # "none"

Handed(e) == Ahead(e) \/ Stored(e)

Types ==
    /\ committed \subseteq Event
    /\ batch \in [Relay -> Seq(Event)]
    /\ published \in [Relay -> BOOLEAN]
    /\ topic \in [Partition -> Seq(Event)]
    /\ offset \in [Partition -> Nat]
    /\ \A p \in Partition : offset[p] <= Len(topic[p])
    /\ rows \in [Delivery -> [status : Status, attempts : Nat, due : BOOLEAN]]
    /\ held \in [Worker -> SUBSET [d : Delivery, attempts : Nat]]
    /\ failed \in [Delivery -> 0 .. MaxAttempts]

\* Only committed events are claimed, published or fanned out.
Genuine ==
    /\ sent \subseteq committed
    /\ \A r \in Relay : Range(batch[r]) \subseteq committed
    /\ \A p \in Partition : \A i \in 1 .. Len(topic[p]) :
         topic[p][i] \in committed /\ PartitionOf[topic[p][i]] = p
    /\ \A d \in Delivery : rows[d].status # "none" => d[1] \in committed

\* What leaves the outbox is handed over.
Safe ==
    /\ \A e \in sent : Handed(e)
    /\ \A r \in Relay : published[r] => batch[r] # <<>> /\ \A e \in Range(batch[r]) : Handed(e)

\* The attempts a worker counts on are failures that happened, and a row is
\* delivered only when the subscriber has it.
Counted ==
    /\ \A d \in Delivery :
         /\ rows[d].status = "pending" => rows[d].attempts <= failed[d]
         /\ rows[d].status = "dead_letter" => failed[d] >= MaxAttempts
         /\ rows[d].status = "delivered" => d \in received
    /\ \A w \in Worker : \A h \in held[w] :
         rows[h.d].status # "none" /\ h.attempts <= failed[h.d]

IInv == Types /\ Genuine /\ Safe /\ Counted

\* A delivery is a pair of its event and its subscription.
LEMMA DeliveryPair == \A d \in Delivery : d[1] \in Event /\ d[2] \in Subscription
  BY Zenon DEF Delivery

\* The strengthening holds at the start: nothing has happened.
LEMMA InitIInv == Init => IInv
  <1> SUFFICES ASSUME Init
               PROVE  IInv
    BY Zenon
  <1>1. Types
    BY WebhookAssumption DEF Init, OutboxInit, WebhookInit, Types, NoRow, Status
  <1>2. Genuine
    BY DEF Init, OutboxInit, WebhookInit, Genuine, NoRow, Range
  <1>3. Safe
    BY Zenon DEF Init, OutboxInit, Safe
  <1>4. Counted
    BY Zenon DEF Init, WebhookInit, Counted, NoRow
  <1> QED
    BY <1>1, <1>2, <1>3, <1>4, Zenon DEF IInv

(***************************************************************************)
(* What the steps of the outbox and of the consumer do to the topic.       *)
(***************************************************************************)
\* A batch is a sequence of what it was taken from.
LEMMA BatchesAreSeqs ==
  ASSUME NEW S, NEW b \in Batches(S) \cup {<<>>}
  PROVE  b \in Seq(S)
  <1>1. CASE b = <<>>
    BY <1>1
  <1>2. CASE b \in Batches(S)
    <2>1. PICK n \in 1 .. BatchSize : b \in [1 .. n -> S]
      BY <1>2, Zenon DEF Batches
    <2>2. n \in Nat
      BY OutboxAssumption
    <2> QED
      BY <2>1, <2>2
  <1> QED
    BY <1>1, <1>2, Zenon

\* WriteMessages appends to the partitions, and the partitions in W get every
\* event of the batch that belongs there.
LEMMA TopicGrows ==
  ASSUME Types, NEW r \in Relay, NEW W \in SUBSET Partition, WriteMessages(r, W)
  PROVE  /\ topic' \in [Partition -> Seq(Event)]
         /\ \A p \in Partition :
              /\ Len(topic[p]) <= Len(topic'[p])
              /\ \A i \in 1 .. Len(topic[p]) : topic'[p][i] = topic[p][i]
              /\ \A i \in 1 .. Len(topic'[p]) :
                   \/ i \in 1 .. Len(topic[p])
                   \/ topic'[p][i] \in Range(batch[r]) /\ PartitionOf[topic'[p][i]] = p
         /\ \A p \in W : \A e \in Range(batch[r]) :
              PartitionOf[e] = p =>
                 \E i \in 1 .. Len(topic'[p]) : i > Len(topic[p]) /\ topic'[p][i] = e
  <1>1. PICK shares \in [Partition -> Batches(Range(batch[r])) \cup {<<>>}] :
           /\ \A p \in Partition : IsShare(shares[p], p, batch[r])
           /\ topic' = [p \in Partition |-> IF p \in W THEN topic[p] \o shares[p] ELSE topic[p]]
    BY Zenon DEF WriteMessages
  <1>2. Range(batch[r]) \subseteq Event
    BY DEF Types, Range
  <1>3. ASSUME NEW p \in Partition
        PROVE  /\ shares[p] \in Seq(Event)
               /\ \A i \in 1 .. Len(shares[p]) :
                    shares[p][i] \in Range(batch[r]) /\ PartitionOf[shares[p][i]] = p
               /\ \A e \in Range(batch[r]) :
                    PartitionOf[e] = p => \E i \in 1 .. Len(shares[p]) : shares[p][i] = e
    <2>1. shares[p] \in Seq(Range(batch[r]))
      BY <1>1, BatchesAreSeqs, Zenon
    <2>2. shares[p] \in Seq(Event) /\ DOMAIN shares[p] = 1 .. Len(shares[p])
      BY <1>2, <2>1
    <2>3. Range(shares[p]) = {e \in Range(batch[r]) : PartitionOf[e] = p}
      BY <1>1, Zenon DEF IsShare
    <2>4. Range(shares[p]) = {shares[p][i] : i \in 1 .. Len(shares[p])}
      BY <2>2, Zenon DEF Range
    <2>5. ASSUME NEW i \in 1 .. Len(shares[p])
          PROVE  shares[p][i] \in Range(batch[r]) /\ PartitionOf[shares[p][i]] = p
      BY <2>3, <2>4, Zenon
    <2>6. ASSUME NEW e \in Range(batch[r]), PartitionOf[e] = p
          PROVE  \E i \in 1 .. Len(shares[p]) : shares[p][i] = e
      BY <2>3, <2>4, <2>6
    <2> QED
      BY <2>2, <2>5, <2>6, Zenon
  <1>4. ASSUME NEW p \in Partition, p \in W
        PROVE  /\ topic'[p] \in Seq(Event)
               /\ Len(topic'[p]) = Len(topic[p]) + Len(shares[p])
               /\ Len(topic[p]) \in Nat /\ Len(shares[p]) \in Nat
               /\ \A i \in 1 .. Len(topic[p]) : topic'[p][i] = topic[p][i]
               /\ \A i \in 1 .. Len(shares[p]) : topic'[p][Len(topic[p]) + i] = shares[p][i]
               /\ \A i \in 1 .. Len(topic'[p]) : i \notin 1 .. Len(topic[p]) =>
                    topic'[p][i] = shares[p][i - Len(topic[p])] /\ i - Len(topic[p]) \in 1 .. Len(shares[p])
    <2>1. topic'[p] = topic[p] \o shares[p] /\ topic[p] \in Seq(Event) /\ shares[p] \in Seq(Event)
      BY <1>1, <1>3, <1>4, Zenon DEF Types
    <2> QED
      BY <2>1
  <1>5. ASSUME NEW p \in Partition, p \notin W
        PROVE  topic'[p] = topic[p] /\ topic[p] \in Seq(Event)
      BY <1>1, <1>5, Zenon DEF Types
  <1>6. topic' \in [Partition -> Seq(Event)]
    <2>1. \A p \in Partition : (IF p \in W THEN topic[p] \o shares[p] ELSE topic[p]) \in Seq(Event)
      BY <1>3 DEF Types
    <2> QED
      BY <1>1, <2>1, Zenon
  <1>7. ASSUME NEW p \in Partition
        PROVE  /\ Len(topic[p]) <= Len(topic'[p])
               /\ \A i \in 1 .. Len(topic[p]) : topic'[p][i] = topic[p][i]
               /\ \A i \in 1 .. Len(topic'[p]) :
                    \/ i \in 1 .. Len(topic[p])
                    \/ topic'[p][i] \in Range(batch[r]) /\ PartitionOf[topic'[p][i]] = p
    <2>1. CASE p \in W
      <3>1. ASSUME NEW i \in 1 .. Len(topic'[p]), i \notin 1 .. Len(topic[p])
            PROVE  topic'[p][i] \in Range(batch[r]) /\ PartitionOf[topic'[p][i]] = p
        <4> DEFINE j == i - Len(topic[p])
        <4>1. j \in 1 .. Len(shares[p]) /\ topic'[p][i] = shares[p][j]
          BY <1>4, <2>1, <3>1, Zenon
        <4> HIDE DEF j
        <4> QED
          BY <1>3, <4>1
      <3>2. Len(topic[p]) <= Len(topic'[p]) /\ \A i \in 1 .. Len(topic[p]) : topic'[p][i] = topic[p][i]
        BY <1>4, <2>1
      <3> QED
        BY <3>1, <3>2, Zenon
    <2>2. CASE p \notin W
      BY <1>5, <2>2
    <2> QED
      BY <2>1, <2>2, Zenon
  <1>8. ASSUME NEW p \in W, NEW e \in Range(batch[r]), PartitionOf[e] = p
        PROVE  \E i \in 1 .. Len(topic'[p]) : i > Len(topic[p]) /\ topic'[p][i] = e
    <2>1. PICK i \in 1 .. Len(shares[p]) : shares[p][i] = e
      BY <1>3, <1>8
    <2>2. /\ Len(topic[p]) + i \in 1 .. Len(topic'[p])
          /\ Len(topic[p]) + i > Len(topic[p])
          /\ topic'[p][Len(topic[p]) + i] = e
      BY <1>4, <2>1
    <2> QED
      BY <2>2, Zenon
  <1> QED
    BY <1>6, <1>7, <1>8, Zenon

\* An event handed over stays so while the topic grows and rows stay.
LEMMA HandedKept ==
  ASSUME Types, Types', NEW e \in Event, Handed(e), offset' = offset,
         \A p \in Partition :
            /\ Len(topic[p]) <= Len(topic'[p])
            /\ \A i \in 1 .. Len(topic[p]) : topic'[p][i] = topic[p][i],
         \A d \in Delivery : rows[d].status # "none" => rows'[d].status # "none"
  PROVE  Handed(e)'
  <1>1. PartitionOf[e] \in Partition
    BY OutboxAssumption, Zenon
  <1>2. CASE Ahead(e)
    <2> DEFINE p == PartitionOf[e]
    <2>1. PICK i \in DOMAIN topic[p] : i > offset[p] /\ topic[p][i] = e
      BY <1>2, Zenon DEF Ahead
    <2>2. /\ i \in 1 .. Len(topic[p]) /\ i \in 1 .. Len(topic'[p])
          /\ DOMAIN topic'[p] = 1 .. Len(topic'[p])
      <3>1. topic[p] \in Seq(Event) /\ topic'[p] \in Seq(Event)
        BY <1>1, Zenon DEF Types
      <3>2. Len(topic[p]) <= Len(topic'[p])
        BY <1>1, Zenon
      <3> HIDE DEF p
      <3> QED
        BY <2>1, <3>1, <3>2
    <2>3. i > offset'[p] /\ topic'[p][i] = e
      BY <1>1, <2>1, <2>2, Zenon
    <2> QED
      BY <2>2, <2>3, Zenon DEF Handed, Ahead
  <1>3. CASE Stored(e)
    BY <1>3, Zenon DEF Handed, Stored
  <1> QED
    BY <1>2, <1>3, Zenon DEF Handed

(***************************************************************************)
(* The steps of the outbox.                                                *)
(***************************************************************************)
\* Steps that leave the delivery side alone keep what is known of it.
LEMMA CountedKept ==
  ASSUME Counted, UNCHANGED <<rows, held, received, failed>>
  PROVE  Counted'
  BY Zenon DEF Counted

\* A domain transaction begins, commits or aborts.
LEMMA DomainStep ==
  ASSUME IInv, NEW e \in Event, Domain(e)
  PROVE  IInv'
  <1>1. /\ committed \subseteq committed' /\ committed' \subseteq Event
        /\ UNCHANGED <<sent, batch, published, topic, offset, rows, held, received, failed>>
    BY Zenon DEF Domain, Begin, Emit, Abort, relayVars, webhookVars, workerVars, IInv, Types
  <1>2. Types'
    BY <1>1, Zenon DEF IInv, Types
  <1>3. Genuine'
    BY <1>1, Zenon DEF IInv, Genuine
  <1>4. Safe'
    BY <1>1, Zenon DEF IInv, Safe, Handed, Ahead, Stored
  <1>5. Counted'
    BY <1>1, CountedKept, Zenon DEF IInv
  <1> QED
    BY <1>2, <1>3, <1>4, <1>5, Zenon DEF IInv

\* A relay claims committed, unsent rows.
LEMMA ClaimStep ==
  ASSUME IInv, NEW r \in Relay, ClaimUnsentOutbox(r), UNCHANGED webhookVars
  PROVE  IInv'
  <1>1. PICK b \in Batches(Claimable) : batch[r] = <<>> /\ batch' = [batch EXCEPT ![r] = b]
    BY Zenon DEF ClaimUnsentOutbox
  <1>2. b \in Seq(Claimable)
    BY <1>1, BatchesAreSeqs, Zenon
  <1>3. b \in Seq(Event) /\ Range(b) \subseteq committed
    <2>1. Claimable \subseteq committed /\ Claimable \subseteq Event
      BY Zenon DEF Claimable, IInv, Types
    <2>2. \A i \in DOMAIN b : b[i] \in Claimable
      BY <1>2
    <2>3. b \in Seq(Event)
      BY <1>2, <2>1
    <2> QED
      BY <2>1, <2>2, <2>3, Zenon DEF Range
  <1>4. UNCHANGED <<committed, sent, published, topic, offset, rows, held, received, failed>>
    BY Zenon DEF ClaimUnsentOutbox, emitVars, webhookVars, workerVars
  <1>5. Types'
    BY <1>1, <1>3, <1>4, Zenon DEF IInv, Types
  <1>6. \A q \in Relay : Range(batch'[q]) \subseteq committed
    BY <1>1, <1>3, Zenon DEF IInv, Types, Genuine
  <1>7. Genuine'
    BY <1>4, <1>6, Zenon DEF IInv, Genuine
  <1>8. Safe'
    <2>1. \A e : Handed(e)' <=> Handed(e)
      BY <1>4, Zenon DEF Handed, Ahead, Stored
    <2>2. ~published[r]
      BY <1>1, Zenon DEF IInv, Safe
    <2> QED
      BY <1>1, <1>4, <2>1, <2>2, Zenon DEF IInv, Safe, Types
  <1>9. Counted'
    BY <1>4, CountedKept, Zenon DEF IInv
  <1> QED
    BY <1>5, <1>7, <1>8, <1>9, Zenon DEF IInv

\* Writing messages, all of them or a part, keeps what is known of the topic.
LEMMA WriteKeeps ==
  ASSUME IInv, NEW r \in Relay, NEW W \in SUBSET Partition, WriteMessages(r, W),
         UNCHANGED <<committed, sent, offset, rows, held, received, failed>>,
         batch' \in [Relay -> Seq(Event)], published' \in [Relay -> BOOLEAN],
         \A q \in Relay : Range(batch'[q]) \subseteq committed
  PROVE  /\ Types'
         /\ Genuine'
         /\ \A e \in Event : Handed(e) => Handed(e)'
  <1>1. Types
    BY Zenon DEF IInv
  <1>2. /\ topic' \in [Partition -> Seq(Event)]
        /\ \A p \in Partition :
             /\ Len(topic[p]) <= Len(topic'[p])
             /\ \A i \in 1 .. Len(topic[p]) : topic'[p][i] = topic[p][i]
             /\ \A i \in 1 .. Len(topic'[p]) :
                  \/ i \in 1 .. Len(topic[p])
                  \/ topic'[p][i] \in Range(batch[r]) /\ PartitionOf[topic'[p][i]] = p
    BY <1>1, TopicGrows, Zenon
  <1>3. \A p \in Partition : offset'[p] <= Len(topic'[p])
    <2> SUFFICES ASSUME NEW p \in Partition
                 PROVE  offset[p] <= Len(topic'[p])
      BY Zenon
    <2>1. topic[p] \in Seq(Event) /\ topic'[p] \in Seq(Event) /\ offset[p] \in Nat
      BY <1>1, <1>2 DEF Types
    <2>2. Len(topic[p]) \in Nat /\ Len(topic'[p]) \in Nat
      BY <2>1
    <2>3. offset[p] <= Len(topic[p]) /\ Len(topic[p]) <= Len(topic'[p])
      BY <1>1, <1>2, Zenon DEF Types
    <2> QED
      BY <2>1, <2>2, <2>3
  <1>4. Types'
    BY <1>1, <1>2, <1>3, Zenon DEF Types
  <1>5. \A p \in Partition : \A i \in 1 .. Len(topic'[p]) :
          topic'[p][i] \in committed /\ PartitionOf[topic'[p][i]] = p
    BY <1>2 DEF IInv, Genuine
  <1>6. Genuine'
    BY <1>5, Zenon DEF IInv, Genuine
  <1>7. ASSUME NEW e \in Event, Handed(e)
        PROVE  Handed(e)'
    BY <1>1, <1>2, <1>4, <1>7, HandedKept, Zenon
  <1> QED
    BY <1>4, <1>6, <1>7, Zenon

\* An acknowledged batch is handed over.
LEMMA PublishStep ==
  ASSUME IInv, NEW r \in Relay, Publish(r), UNCHANGED webhookVars
  PROVE  IInv'
  <1>1. /\ WriteMessages(r, Partition) /\ batch[r] # <<>>
        /\ published' = [published EXCEPT ![r] = TRUE]
        /\ UNCHANGED <<committed, sent, batch, offset, rows, held, received, failed>>
    BY Zenon DEF Publish, emitVars, webhookVars, workerVars
  <1>2. /\ Types'
        /\ Genuine'
        /\ \A e \in Event : Handed(e) => Handed(e)'
    <2>1. /\ batch' \in [Relay -> Seq(Event)] /\ published' \in [Relay -> BOOLEAN]
          /\ \A q \in Relay : Range(batch'[q]) \subseteq committed
      BY <1>1, Zenon DEF IInv, Types, Genuine
    <2> QED
      BY <1>1, <2>1, WriteKeeps, Zenon
  <1>3. ASSUME NEW e \in Range(batch[r])
        PROVE  Handed(e)'
    <2> DEFINE p == PartitionOf[e]
    <2>1. e \in Event /\ p \in Partition
      BY OutboxAssumption, Zenon DEF IInv, Types, Genuine
    <2>2. \E i \in 1 .. Len(topic'[p]) : i > Len(topic[p]) /\ topic'[p][i] = e
      <3>1. \A q \in Partition : \A f \in Range(batch[r]) :
               PartitionOf[f] = q =>
                  \E i \in 1 .. Len(topic'[q]) : i > Len(topic[q]) /\ topic'[q][i] = f
        <4>1. Types /\ Partition \in SUBSET Partition
          BY Zenon DEF IInv
        <4> QED
          BY <1>1, <4>1, TopicGrows
      <3> QED
        BY <2>1, <3>1, Zenon
    <2>3. PICK i \in 1 .. Len(topic'[p]) : i > Len(topic[p]) /\ topic'[p][i] = e
      BY <2>2, Zenon
    <2>4. DOMAIN topic'[p] = 1 .. Len(topic'[p])
      BY <1>2, <2>1 DEF Types
    <2>5. offset'[p] \in Nat /\ Len(topic[p]) \in Nat /\ offset'[p] <= Len(topic[p])
      BY <1>1, <2>1 DEF IInv, Types
    <2>6. i > offset'[p]
      BY <2>3, <2>5
    <2> QED
      BY <2>3, <2>4, <2>6, Zenon DEF Handed, Ahead
  <1>4. Safe'
    <2>1. \A e \in sent : Handed(e)'
      BY <1>2, Zenon DEF IInv, Safe, Genuine, Types
    <2>2. ASSUME NEW q \in Relay, published'[q]
          PROVE  batch[q] # <<>> /\ \A e \in Range(batch[q]) : Handed(e)'
      <3>1. CASE q = r
        BY <1>1, <1>3, <3>1, Zenon
      <3>2. CASE q # r
        <4>1. published[q] /\ Range(batch[q]) \subseteq Event
          BY <1>1, <2>2, <3>2, Zenon DEF IInv, Types, Genuine
        <4> QED
          BY <1>2, <4>1, Zenon DEF IInv, Safe
      <3> QED
        BY <3>1, <3>2, Zenon
    <2> QED
      BY <1>1, <2>1, <2>2, Zenon DEF Safe
  <1>5. Counted'
    BY <1>1, CountedKept, Zenon DEF IInv
  <1> QED
    BY <1>2, <1>4, <1>5, Zenon DEF IInv

\* Only a handed-over batch is marked sent.
LEMMA MarkSentStep ==
  ASSUME IInv, NEW r \in Relay, MarkOutboxSent(r), UNCHANGED webhookVars
  PROVE  IInv'
  <1>1. /\ published[r] /\ sent' = sent \cup Range(batch[r])
        /\ batch' = [batch EXCEPT ![r] = <<>>]
        /\ published' = [published EXCEPT ![r] = FALSE]
        /\ UNCHANGED <<committed, topic, offset, rows, held, received, failed>>
    BY Zenon DEF MarkOutboxSent, EndBatch, emitVars, webhookVars, workerVars
  <1>2. Types'
    BY <1>1 DEF IInv, Types
  <1>3. \A q \in Relay : batch'[q] = <<>> \/ batch'[q] = batch[q]
    BY <1>1, Zenon DEF IInv, Types
  <1>4. Genuine'
    BY <1>1, <1>3 DEF IInv, Genuine, Range
  <1>5. \A e : Handed(e)' <=> Handed(e)
    BY <1>1, Zenon DEF Handed, Ahead, Stored
  <1>6. Safe'
    BY <1>1, <1>5, Zenon DEF IInv, Safe, Types
  <1>7. Counted'
    BY <1>1, CountedKept, Zenon DEF IInv
  <1> QED
    BY <1>2, <1>4, <1>6, <1>7, Zenon DEF IInv

\* A batch rolled back leaves its rows unsent.
LEMMA RollbackStep ==
  ASSUME IInv, NEW r \in Relay, Rollback(r), UNCHANGED webhookVars
  PROVE  IInv'
  <1>1. /\ batch' = [batch EXCEPT ![r] = <<>>]
        /\ published' = [published EXCEPT ![r] = FALSE]
        /\ UNCHANGED <<committed, sent, offset, rows, held, received, failed>>
        /\ UNCHANGED topic \/ \E W \in SUBSET Partition : WriteMessages(r, W)
    BY Zenon DEF Rollback, EndBatch, emitVars, webhookVars, workerVars
  <1>2. /\ batch' \in [Relay -> Seq(Event)] /\ published' \in [Relay -> BOOLEAN]
        /\ \A q \in Relay : batch'[q] = <<>> \/ batch'[q] = batch[q]
    BY <1>1 DEF IInv, Types
  <1>3. \A q \in Relay : Range(batch'[q]) \subseteq committed
    <2>1. Range(<<>>) = {}
      BY DEF Range
    <2> QED
      BY <1>2, <2>1, Zenon DEF IInv, Genuine
  <1>4. /\ Types'
        /\ Genuine'
        /\ \A e \in Event : Handed(e) => Handed(e)'
    <2>1. CASE UNCHANGED topic
      <3>1. Types'
        BY <1>1, <1>2, <2>1, Zenon DEF IInv, Types
      <3>2. Genuine'
        BY <1>1, <1>3, <2>1, Zenon DEF IInv, Genuine
      <3>3. \A e : Handed(e) => Handed(e)'
        BY <1>1, <2>1, Zenon DEF Handed, Ahead, Stored
      <3> QED
        BY <3>1, <3>2, <3>3, Zenon
    <2>2. CASE \E W \in SUBSET Partition : WriteMessages(r, W)
      BY <1>1, <1>2, <1>3, <2>2, WriteKeeps, Zenon
    <2> QED
      BY <1>1, <2>1, <2>2, Zenon
  <1>5. Safe'
    <2>1. \A e \in sent : Handed(e)'
      BY <1>4, Zenon DEF IInv, Safe, Genuine, Types
    <2>2. ASSUME NEW q \in Relay, published'[q]
          PROVE  batch'[q] # <<>> /\ \A e \in Range(batch'[q]) : Handed(e)'
      <3>1. q # r /\ published[q] /\ batch'[q] = batch[q] /\ Range(batch[q]) \subseteq Event
        BY <1>1, <2>2, Zenon DEF IInv, Types, Genuine
      <3> QED
        BY <1>4, <3>1, Zenon DEF IInv, Safe
    <2> QED
      BY <1>1, <2>1, <2>2, Zenon DEF Safe
  <1>6. Counted'
    BY <1>1, CountedKept, Zenon DEF IInv
  <1> QED
    BY <1>4, <1>5, <1>6, Zenon DEF IInv

(***************************************************************************)
(* The steps of the consumer.                                              *)
(***************************************************************************)
Row == [status : Status, attempts : Nat, due : BOOLEAN]

\* The fan-out adds fresh rows for its event and touches no other.
LEMMA FanOutFacts ==
  ASSUME IInv, NEW e \in committed, FanOutDelivery(e)
  PROVE  /\ rows' \in [Delivery -> Row]
         /\ \A d \in Delivery :
              \/ rows'[d] = rows[d]
              \/ rows'[d] = NewRow /\ d[1] = e /\ rows[d].status = "none"
         /\ \A d \in Delivery : d[1] = e => rows'[d].status # "none"
         /\ \A d \in Delivery : rows[d].status # "none" => rows'[d] = rows[d]
  <1>1. NewRow \in Row /\ NewRow.status = "pending"
    BY Zenon DEF NewRow, Row, Status
  <1>2. rows \in [Delivery -> Row]
    BY Zenon DEF IInv, Types, Row
  <1> QED
    BY <1>1, <1>2, Zenon DEF FanOutDelivery

\* The rows of a fan-out and a restarted worker keep the counts.
LEMMA FanOutCounted ==
  ASSUME IInv, NEW e \in committed, FanOutDelivery(e), UNCHANGED <<received, failed>>,
         \A w \in Worker : held'[w] \subseteq held[w]
  PROVE  Counted'
  <1>1. /\ \A d \in Delivery :
             \/ rows'[d] = rows[d]
             \/ rows'[d] = NewRow /\ d[1] = e /\ rows[d].status = "none"
        /\ \A d \in Delivery : rows[d].status # "none" => rows'[d] = rows[d]
    BY FanOutFacts, Zenon
  <1>2. NewRow.status = "pending" /\ NewRow.attempts = 0
    BY Zenon DEF NewRow
  <1>3. \A d \in Delivery : failed[d] \in Nat
    BY WebhookAssumption DEF IInv, Types
  <1>4. ASSUME NEW d \in Delivery
        PROVE  /\ rows'[d].status = "pending" => rows'[d].attempts <= failed[d]
               /\ rows'[d].status = "dead_letter" => failed[d] >= MaxAttempts
               /\ rows'[d].status = "delivered" => d \in received
    <2>1. CASE rows'[d] = rows[d]
      BY <2>1, Zenon DEF IInv, Counted
    <2>2. CASE rows'[d] = NewRow
      BY <1>2, <1>3, <2>2
    <2> QED
      BY <1>1, <2>1, <2>2, Zenon
  <1>5. \A w \in Worker : \A h \in held'[w] :
           rows'[h.d].status # "none" /\ h.attempts <= failed[h.d]
    <2> SUFFICES ASSUME NEW w \in Worker, NEW h \in held[w]
                 PROVE  rows'[h.d].status # "none" /\ h.attempts <= failed[h.d]
      BY Zenon
    <2>1. h.d \in Delivery
      BY DEF IInv, Types
    <2> QED
      BY <1>1, <2>1, Zenon DEF IInv, Counted
  <1> QED
    BY <1>4, <1>5, Zenon DEF Counted

\* The fetched message is a committed event of its partition.
LEMMA FetchedCommitted ==
  ASSUME IInv, NEW p \in Partition, offset[p] < Len(topic[p])
  PROVE  /\ Fetched(p) \in committed /\ PartitionOf[Fetched(p)] = p
         /\ offset[p] + 1 \in 1 .. Len(topic[p]) /\ offset[p] \in Nat /\ Len(topic[p]) \in Nat
  <1>1. offset[p] \in Nat /\ Len(topic[p]) \in Nat
    BY DEF IInv, Types
  <1>2. offset[p] + 1 \in 1 .. Len(topic[p])
    BY <1>1
  <1> QED
    BY <1>1, <1>2, Zenon DEF IInv, Genuine, Fetched

\* Consuming moves an event from the topic into the delivery table.
LEMMA ConsumeStep ==
  ASSUME IInv, NEW p \in Partition, Consume(p), UNCHANGED outboxVars
  PROVE  IInv'
  <1> DEFINE e0 == Fetched(p)
  <1>1. /\ offset[p] < Len(topic[p])
        /\ FanOutDelivery(e0)
        /\ offset' = [offset EXCEPT ![p] = @ + 1]
        /\ UNCHANGED <<committed, sent, batch, published, topic, held, received, failed>>
    BY Zenon DEF Consume, workerVars, outboxVars, emitVars, relayVars
  <1>2. /\ e0 \in committed /\ PartitionOf[e0] = p
        /\ offset[p] + 1 \in 1 .. Len(topic[p]) /\ offset[p] \in Nat /\ Len(topic[p]) \in Nat
    BY <1>1, FetchedCommitted, Zenon
  <1>3. /\ rows' \in [Delivery -> Row]
        /\ \A d \in Delivery :
             \/ rows'[d] = rows[d]
             \/ rows'[d] = NewRow /\ d[1] = e0 /\ rows[d].status = "none"
        /\ \A d \in Delivery : d[1] = e0 => rows'[d].status # "none"
        /\ \A d \in Delivery : rows[d].status # "none" => rows'[d] = rows[d]
    BY <1>1, <1>2, FanOutFacts, Zenon
  <1>4. Types'
    <2>1. offset' \in [Partition -> Nat] /\ \A q \in Partition : offset'[q] <= Len(topic[q])
      BY <1>1, <1>2 DEF IInv, Types
    <2> QED
      BY <1>1, <1>3, <2>1, Zenon DEF IInv, Types, Row
  <1>5. Genuine'
    BY <1>1, <1>2, <1>3, Zenon DEF IInv, Genuine
  <1>6. ASSUME NEW e \in Event, Handed(e)
        PROVE  Handed(e)'
    <2>1. CASE Stored(e)
      BY <1>3, <2>1, Zenon DEF Handed, Stored
    <2>2. CASE e = e0
      BY <1>3, <2>2, Zenon DEF Handed, Stored
    <2>3. CASE Ahead(e) /\ e # e0
      <3> DEFINE q == PartitionOf[e]
      <3>1. PICK i \in DOMAIN topic[q] : i > offset[q] /\ topic[q][i] = e
        BY <2>3, Zenon DEF Ahead
      <3>2. q \in Partition
        BY OutboxAssumption, Zenon
      <3>3. i \in Nat /\ offset[q] \in Nat
        <4>1. DOMAIN topic[q] = 1 .. Len(topic[q])
          BY <3>2 DEF IInv, Types
        <4> QED
          BY <3>1, <3>2, <4>1 DEF IInv, Types
      <3>4. i > offset'[q]
        <4>1. CASE q # p
          BY <1>1, <3>1, <4>1 DEF IInv, Types
        <4>2. CASE q = p
          <5>1. i # offset[p] + 1
            BY <2>3, <3>1, <4>2, Zenon DEF Fetched
          <5>2. offset'[p] = offset[p] + 1
            BY <1>1, Zenon DEF IInv, Types
          <5> HIDE DEF q
          <5> QED
            BY <1>2, <3>1, <3>3, <4>2, <5>1, <5>2
        <4> QED
          BY <4>1, <4>2, Zenon
      <3> QED
        BY <1>1, <3>1, <3>4, Zenon DEF Handed, Ahead
    <2> QED
      BY <1>6, <2>1, <2>2, <2>3, Zenon DEF Handed
  <1>7. Safe'
    BY <1>1, <1>6, Zenon DEF IInv, Safe, Genuine, Types
  <1>8. Counted'
    BY <1>1, <1>2, FanOutCounted, Zenon
  <1> QED
    BY <1>4, <1>5, <1>7, <1>8, Zenon DEF IInv

(***************************************************************************)
(* The steps of the workers, of time and of the operator.                  *)
(***************************************************************************)
\* They keep what is handed over: no row disappears, and a new one belongs to
\* a committed event.
LEMMA OutboxKept ==
  ASSUME IInv, UNCHANGED <<committed, sent, batch, published, topic, offset>>,
         rows' \in [Delivery -> Row],
         held' \in [Worker -> SUBSET [d : Delivery, attempts : Nat]],
         failed' \in [Delivery -> 0 .. MaxAttempts],
         \A d \in Delivery : rows[d].status # "none" => rows'[d].status # "none",
         \A d \in Delivery : rows'[d].status # "none" => d[1] \in committed
  PROVE  Types' /\ Genuine' /\ Safe'
  <1>1. Types'
    BY Zenon DEF IInv, Types, Row
  <1>2. Genuine'
    BY Zenon DEF IInv, Genuine
  <1>3. \A e : Handed(e) => Handed(e)'
    BY Zenon DEF Handed, Ahead, Stored
  <1>4. Safe'
    BY <1>3, Zenon DEF IInv, Safe
  <1> QED
    BY <1>1, <1>2, <1>4, Zenon

\* A failed consumer may have written the rows of its message.
LEMMA ConsumeFailsStep ==
  ASSUME IInv, NEW p \in Partition, NEW w \in Worker, ConsumeFails(p, w), UNCHANGED outboxVars
  PROVE  IInv'
  <1> DEFINE e0 == Fetched(p)
  <1>1. /\ offset[p] < Len(topic[p])
        /\ FanOutDelivery(e0) \/ UNCHANGED rows
        /\ held' = [held EXCEPT ![w] = {}]
        /\ UNCHANGED <<committed, sent, batch, published, topic, offset, received, failed>>
    BY Zenon DEF ConsumeFails, outboxVars, emitVars, relayVars
  <1>2. e0 \in committed
    BY <1>1, FetchedCommitted, Zenon
  <1>3. /\ held' \in [Worker -> SUBSET [d : Delivery, attempts : Nat]]
        /\ \A v \in Worker : held'[v] \subseteq held[v]
    BY <1>1, Zenon DEF IInv, Types
  <1>4. CASE FanOutDelivery(e0)
    <2>1. /\ rows' \in [Delivery -> Row]
          /\ \A d \in Delivery :
               \/ rows'[d] = rows[d]
               \/ rows'[d] = NewRow /\ d[1] = e0 /\ rows[d].status = "none"
      BY <1>2, <1>4, FanOutFacts, Zenon
    <2>2. \A d \in Delivery : rows[d].status # "none" => rows'[d].status # "none"
      BY <2>1, Zenon
    <2>3. \A d \in Delivery : rows'[d].status # "none" => d[1] \in committed
      BY <1>2, <2>1, Zenon DEF IInv, Genuine
    <2>4. failed' \in [Delivery -> 0 .. MaxAttempts]
      BY <1>1, Zenon DEF IInv, Types
    <2>5. Types' /\ Genuine' /\ Safe'
      BY <1>1, <1>3, <2>1, <2>2, <2>3, <2>4, OutboxKept, Zenon
    <2>6. Counted'
      BY <1>1, <1>2, <1>3, <1>4, FanOutCounted, Zenon
    <2> QED
      BY <2>5, <2>6, Zenon DEF IInv
  <1>5. CASE UNCHANGED rows
    <2>1. Types' /\ Genuine' /\ Safe'
      <3>1. rows' \in [Delivery -> Row] /\ failed' \in [Delivery -> 0 .. MaxAttempts]
        BY <1>1, <1>5, Zenon DEF IInv, Types, Row
      <3>2. \A d \in Delivery : rows'[d].status # "none" => d[1] \in committed
        BY <1>5, Zenon DEF IInv, Genuine
      <3> QED
        BY <1>1, <1>3, <1>5, <3>1, <3>2, OutboxKept, Zenon
    <2>2. Counted'
      BY <1>1, <1>3, <1>5, Zenon DEF IInv, Counted
    <2> QED
      BY <2>1, <2>2, Zenon DEF IInv
  <1> QED
    BY <1>1, <1>4, <1>5, Zenon

\* Claiming takes the attempts of pending rows, and moves their time.
LEMMA ClaimDueStep ==
  ASSUME IInv, NEW w \in Worker, ClaimDueDeliveries(w), UNCHANGED outboxVars
  PROVE  IInv'
  <1>1. PICK claim \in SUBSET {d \in Delivery : rows[d].status = "pending" /\ rows[d].due} :
          /\ held' = [held EXCEPT ![w] = {[d |-> d, attempts |-> rows[d].attempts] : d \in claim}]
          /\ rows' = [d \in Delivery |-> IF d \in claim THEN [rows[d] EXCEPT !.due = FALSE] ELSE rows[d]]
    BY Zenon DEF ClaimDueDeliveries
  <1>2. UNCHANGED <<committed, sent, batch, published, topic, offset, received, failed>>
    BY Zenon DEF ClaimDueDeliveries, outboxVars, emitVars, relayVars
  <1>3. rows \in [Delivery -> Row]
    BY Zenon DEF IInv, Types, Row
  <1>4. ASSUME NEW d \in Delivery
        PROVE  /\ rows'[d] \in Row
               /\ rows'[d].status = rows[d].status
               /\ rows'[d].attempts = rows[d].attempts
    <2>1. rows[d] \in Row
      BY <1>3, Zenon
    <2> QED
      BY <1>1, <2>1, Zenon DEF Row
  <1>5. rows' \in [Delivery -> Row]
    BY <1>1, <1>4, Zenon
  <1>6. \A h \in {[d |-> d, attempts |-> rows[d].attempts] : d \in claim} :
          /\ h \in [d : Delivery, attempts : Nat]
          /\ rows[h.d].status = "pending" /\ h.attempts = rows[h.d].attempts
    BY <1>3 DEF Row
  <1>7. held' \in [Worker -> SUBSET [d : Delivery, attempts : Nat]]
    BY <1>1, <1>6, Zenon DEF IInv, Types
  <1>8. Types' /\ Genuine' /\ Safe'
    <2>1. failed' \in [Delivery -> 0 .. MaxAttempts]
      BY <1>2, Zenon DEF IInv, Types
    <2>2. \A d \in Delivery : rows'[d].status # "none" => d[1] \in committed
      BY <1>4, Zenon DEF IInv, Genuine
    <2> QED
      BY <1>2, <1>4, <1>5, <1>7, <2>1, <2>2, OutboxKept, Zenon
  <1>9. Counted'
    <2>1. ASSUME NEW v \in Worker, NEW h \in held'[v]
          PROVE  rows'[h.d].status # "none" /\ h.attempts <= failed[h.d]
      <3>1. h.d \in Delivery
        BY <1>7
      <3>2. CASE v = w
        <4>1. rows[h.d].status = "pending" /\ h.attempts = rows[h.d].attempts
          BY <1>1, <1>6, <2>1, <3>2, Zenon DEF IInv, Types
        <4> QED
          BY <1>4, <3>1, <4>1, Zenon DEF IInv, Counted
      <3>3. CASE v # w
        <4>1. h \in held[v]
          BY <1>1, <2>1, <3>3, Zenon DEF IInv, Types
        <4> QED
          BY <1>4, <3>1, <4>1, Zenon DEF IInv, Counted
      <3> QED
        BY <3>2, <3>3, Zenon
    <2>2. ASSUME NEW d \in Delivery
          PROVE  /\ rows'[d].status = "pending" => rows'[d].attempts <= failed[d]
                 /\ rows'[d].status = "dead_letter" => failed[d] >= MaxAttempts
                 /\ rows'[d].status = "delivered" => d \in received
      BY <1>4, Zenon DEF IInv, Counted
    <2> QED
      BY <1>2, <2>1, <2>2, Zenon DEF Counted
  <1> QED
    BY <1>8, <1>9, Zenon DEF IInv

\* A send counts at most one failure, and counts it unless it was answered.
LEMMA SendFacts ==
  ASSUME IInv, NEW d \in Delivery, NEW reply \in Reply, Send(d, reply)
  PROVE  /\ failed' \in [Delivery -> 0 .. MaxAttempts]
         /\ \A f \in Delivery : failed[f] <= failed'[f]
         /\ reply # "2xx" => failed'[d] = MaxAttempts \/ failed'[d] = failed[d] + 1
         /\ received \subseteq received'
         /\ reply = "2xx" => d \in received'
  <1>1. failed \in [Delivery -> 0 .. MaxAttempts] /\ MaxAttempts \in Nat
    BY WebhookAssumption, Zenon DEF IInv, Types
  <1>2. CASE reply = "2xx" \/ failed[d] = MaxAttempts
    BY <1>1, <1>2 DEF Send
  <1>3. CASE ~(reply = "2xx" \/ failed[d] = MaxAttempts)
    <2>1. failed' = [failed EXCEPT ![d] = @ + 1]
      BY <1>3, Zenon DEF Send
    <2>2. failed[d] + 1 \in 0 .. MaxAttempts
      BY <1>1, <1>3
    <2> QED
      BY <1>1, <1>3, <2>1, <2>2 DEF Send
  <1> QED
    BY <1>2, <1>3, Zenon

\* What is still held keeps its counts when failures are added.
LEMMA HeldKept ==
  ASSUME IInv, failed' \in [Delivery -> 0 .. MaxAttempts],
         \A f \in Delivery : failed[f] <= failed'[f],
         \A v \in Worker : held'[v] \subseteq held[v],
         \A f \in Delivery : rows[f].status # "none" => rows'[f].status # "none"
  PROVE  \A v \in Worker : \A h \in held'[v] :
            rows'[h.d].status # "none" /\ h.attempts <= failed'[h.d]
  <1> SUFFICES ASSUME NEW v \in Worker, NEW h \in held[v]
               PROVE  rows'[h.d].status # "none" /\ h.attempts <= failed'[h.d]
    BY Zenon
  <1>1. h.d \in Delivery /\ h.attempts \in Nat
    BY DEF IInv, Types
  <1>2. rows[h.d].status # "none" /\ h.attempts <= failed[h.d]
    BY Zenon DEF IInv, Counted
  <1>3. failed[h.d] \in Nat /\ failed'[h.d] \in Nat /\ failed[h.d] <= failed'[h.d]
    BY <1>1, WebhookAssumption DEF IInv, Types
  <1> QED
    BY <1>1, <1>2, <1>3

\* An attempt settles the row only as its answer and its count allow.
LEMMA DeliverStep ==
  ASSUME IInv, NEW w \in Worker, NEW h \in held[w], NEW reply \in Reply,
         deliver(w, h, reply), UNCHANGED outboxVars
  PROVE  IInv'
  <1> DEFINE d == h.d
             n == h.attempts + 1
             out == classify(n, reply = "2xx")
  <1>1. /\ Send(d, reply)
        /\ rows' = [rows EXCEPT ![d] = Marked(rows[d], n, out)]
        /\ held' = [held EXCEPT ![w] = @ \ {h}]
        /\ UNCHANGED <<committed, sent, batch, published, topic, offset>>
    BY Zenon DEF deliver, outboxVars, emitVars, relayVars
  <1>2. /\ d \in Delivery /\ h.attempts \in Nat /\ n \in Nat
        /\ rows[d].status # "none" /\ h.attempts <= failed[d]
        /\ rows \in [Delivery -> Row]
        /\ MaxAttempts \in Nat
        /\ failed \in [Delivery -> 0 .. MaxAttempts]
    BY WebhookAssumption DEF IInv, Types, Counted, Row
  <1>3. /\ failed' \in [Delivery -> 0 .. MaxAttempts]
        /\ \A f \in Delivery : failed[f] <= failed'[f]
        /\ reply # "2xx" => failed'[d] = MaxAttempts \/ failed'[d] = failed[d] + 1
        /\ received \subseteq received'
        /\ reply = "2xx" => d \in received'
    BY <1>1, <1>2, SendFacts, Zenon
  <1>4. /\ out \in {"delivered", "dead_letter", "retry"}
        /\ out = "delivered" => d \in received'
        /\ out = "dead_letter" => failed'[d] >= MaxAttempts
        /\ out = "retry" => n <= failed'[d]
    <2>1. \/ out = "delivered" /\ reply = "2xx"
          \/ out = "dead_letter" /\ reply # "2xx" /\ n >= MaxAttempts
          \/ out = "retry" /\ reply # "2xx" /\ ~(n >= MaxAttempts)
      BY Zenon DEF classify
    <2>2. failed'[d] \in 0 .. MaxAttempts /\ failed[d] \in 0 .. MaxAttempts
      BY <1>2, <1>3, Zenon
    <2> HIDE DEF out, d
    <2> QED
      BY <1>2, <1>3, <2>1, <2>2
  <1> HIDE DEF out
  <1>5. /\ rows'[d] \in Row
        /\ out = "retry" => rows'[d].status = rows[d].status /\ rows'[d].attempts = n
        /\ out # "retry" => rows'[d].status = out
    <2>1. rows[d] \in Row /\ rows'[d] = Marked(rows[d], n, out)
      BY <1>1, <1>2, Zenon
    <2> HIDE DEF n, d
    <2> QED
      BY <1>2, <1>4, <2>1, Zenon DEF Marked, Row, Status
  <1>6. \A f \in Delivery \ {d} : rows'[f] = rows[f]
    BY <1>1, <1>2, Zenon
  <1>7. rows' \in [Delivery -> Row]
    <2>1. DOMAIN rows' = Delivery /\ rows' = [f \in Delivery |-> rows'[f]]
      BY <1>1, <1>2, Zenon
    <2>2. \A f \in Delivery : rows'[f] \in Row
      BY <1>2, <1>5, <1>6, Zenon
    <2> QED
      BY <2>1, <2>2, Zenon
  <1>8. \A f \in Delivery : rows'[f].status # "none" <=> rows[f].status # "none"
    BY <1>2, <1>4, <1>5, <1>6, Zenon
  <1>9. /\ held' \in [Worker -> SUBSET [d : Delivery, attempts : Nat]]
        /\ \A v \in Worker : held'[v] \subseteq held[v]
    BY <1>1, Zenon DEF IInv, Types
  <1>10. Types' /\ Genuine' /\ Safe'
    <2>1. \A f \in Delivery : rows'[f].status # "none" => f[1] \in committed
      BY <1>8, Zenon DEF IInv, Genuine
    <2> QED
      BY <1>1, <1>3, <1>7, <1>8, <1>9, <2>1, OutboxKept, Zenon
  <1>11. ASSUME NEW f \in Delivery
         PROVE  /\ rows'[f].status = "pending" => rows'[f].attempts <= failed'[f]
                /\ rows'[f].status = "dead_letter" => failed'[f] >= MaxAttempts
                /\ rows'[f].status = "delivered" => f \in received'
    <2>0. /\ rows[f].status = "pending" => rows[f].attempts <= failed[f]
          /\ rows[f].status = "dead_letter" => failed[f] >= MaxAttempts
          /\ rows[f].status = "delivered" => f \in received
          /\ failed[f] \in Nat /\ failed'[f] \in Nat /\ failed[f] <= failed'[f]
          /\ rows[f].attempts \in Nat
      BY <1>2, <1>3 DEF IInv, Counted, Row
    <2>1. CASE f # d
      <3>1. rows'[f] = rows[f]
        BY <1>6, <2>1, Zenon
      <3>2. received \subseteq received'
        BY <1>3, Zenon
      <3>3. failed[f] >= MaxAttempts => failed'[f] >= MaxAttempts
        BY <1>2, <2>0
      <3> QED
        BY <2>0, <3>1, <3>2, <3>3
    <2>2. CASE f = d /\ out # "retry"
      BY <1>4, <1>5, <2>2, Zenon
    <2>3. CASE f = d /\ out = "retry"
      BY <1>2, <1>3, <1>4, <1>5, <2>0, <2>3
    <2> QED
      BY <2>1, <2>2, <2>3, Zenon
  <1>12. Counted'
    <2>1. \A v \in Worker : \A g \in held'[v] :
             rows'[g.d].status # "none" /\ g.attempts <= failed'[g.d]
      BY <1>3, <1>8, <1>9, HeldKept, Zenon
    <2> QED
      BY <1>11, <2>1, Zenon DEF Counted
  <1> QED
    BY <1>10, <1>12, Zenon DEF IInv

\* A worker that fails forgets its batch; its last send may have arrived.
LEMMA DeliverFailsStep ==
  ASSUME IInv, NEW w \in Worker, deliverFails(w), UNCHANGED outboxVars
  PROVE  IInv'
  <1>1. /\ held' = [held EXCEPT ![w] = {}]
        /\ UNCHANGED <<committed, sent, batch, published, topic, offset, rows>>
        /\ \/ \E h \in held[w], reply \in Reply : Send(h.d, reply)
           \/ UNCHANGED <<received, failed>>
    BY Zenon DEF deliverFails, outboxVars, emitVars, relayVars
  <1>2. /\ failed' \in [Delivery -> 0 .. MaxAttempts]
        /\ \A f \in Delivery : failed[f] <= failed'[f]
        /\ received \subseteq received'
    <2>1. CASE UNCHANGED <<received, failed>>
      BY <2>1, WebhookAssumption DEF IInv, Types
    <2>2. ASSUME NEW h \in held[w], NEW reply \in Reply, Send(h.d, reply)
          PROVE  /\ failed' \in [Delivery -> 0 .. MaxAttempts]
                 /\ \A f \in Delivery : failed[f] <= failed'[f]
                 /\ received \subseteq received'
      <3>1. h.d \in Delivery
        BY DEF IInv, Types
      <3> QED
        BY <2>2, <3>1, SendFacts, Zenon
    <2> QED
      BY <1>1, <2>1, <2>2, Zenon
  <1>3. /\ held' \in [Worker -> SUBSET [d : Delivery, attempts : Nat]]
        /\ \A v \in Worker : held'[v] \subseteq held[v]
        /\ rows' \in [Delivery -> Row]
    BY <1>1, Zenon DEF IInv, Types, Row
  <1>4. Types' /\ Genuine' /\ Safe'
    <2>1. \A f \in Delivery : rows'[f].status # "none" => f[1] \in committed
      BY <1>1, Zenon DEF IInv, Genuine
    <2> QED
      BY <1>1, <1>2, <1>3, <2>1, OutboxKept, Zenon
  <1>5. Counted'
    <2>1. \A v \in Worker : \A g \in held'[v] :
             rows'[g.d].status # "none" /\ g.attempts <= failed'[g.d]
      BY <1>1, <1>2, <1>3, HeldKept, Zenon
    <2>2. ASSUME NEW f \in Delivery
          PROVE  /\ rows[f].status = "pending" => rows[f].attempts <= failed'[f]
                 /\ rows[f].status = "dead_letter" => failed'[f] >= MaxAttempts
                 /\ rows[f].status = "delivered" => f \in received'
      <3>1. /\ failed[f] \in Nat /\ failed'[f] \in Nat /\ failed[f] <= failed'[f]
            /\ rows[f].attempts \in Nat /\ MaxAttempts \in Nat
        BY <1>2, WebhookAssumption DEF IInv, Types
      <3>2. /\ rows[f].status = "pending" => rows[f].attempts <= failed[f]
            /\ rows[f].status = "dead_letter" => failed[f] >= MaxAttempts
            /\ rows[f].status = "delivered" => f \in received
        BY Zenon DEF IInv, Counted
      <3> QED
        BY <1>2, <3>1, <3>2
    <2> QED
      BY <1>1, <2>1, <2>2, Zenon DEF Counted
  <1> QED
    BY <1>4, <1>5, Zenon DEF IInv

\* A lease or a backoff runs out.
LEMMA DueStep ==
  ASSUME IInv, NEW d \in Delivery, Due(d), UNCHANGED outboxVars
  PROVE  IInv'
  <1>1. /\ rows' = [rows EXCEPT ![d].due = TRUE]
        /\ UNCHANGED <<committed, sent, batch, published, topic, offset, held, received, failed>>
    BY Zenon DEF Due, workerVars, outboxVars, emitVars, relayVars
  <1>2. rows \in [Delivery -> Row]
    BY Zenon DEF IInv, Types, Row
  <1>3. ASSUME NEW f \in Delivery
        PROVE  /\ rows'[f] \in Row
               /\ rows'[f].status = rows[f].status
               /\ rows'[f].attempts = rows[f].attempts
    <2>1. rows[f] \in Row
      BY <1>2, Zenon
    <2> QED
      BY <1>1, <1>2, <2>1, Zenon DEF Row
  <1>4. rows' \in [Delivery -> Row]
    BY <1>1, <1>2, <1>3, Zenon
  <1>5. Types' /\ Genuine' /\ Safe'
    <2>1. /\ held' \in [Worker -> SUBSET [d : Delivery, attempts : Nat]]
          /\ failed' \in [Delivery -> 0 .. MaxAttempts]
      BY <1>1, Zenon DEF IInv, Types
    <2>2. \A f \in Delivery : rows'[f].status # "none" => f[1] \in committed
      BY <1>3, Zenon DEF IInv, Genuine
    <2> QED
      BY <1>1, <1>3, <1>4, <2>1, <2>2, OutboxKept, Zenon
  <1>6. Counted'
    <2>1. \A w \in Worker : \A h \in held[w] : h.d \in Delivery
      BY DEF IInv, Types
    <2> QED
      BY <1>1, <1>3, <2>1, Zenon DEF IInv, Counted
  <1> QED
    BY <1>5, <1>6, Zenon DEF IInv

\* A replay starts the dead-lettered rows of a subscription anew.
LEMMA ReplayStep ==
  ASSUME IInv, NEW s \in Subscription, ReplayDeadLettered(s), UNCHANGED outboxVars
  PROVE  IInv'
  <1> DEFINE dead == {d \in Delivery : d[2] = s /\ rows[d].status = "dead_letter"}
  <1>1. /\ rows' = [d \in Delivery |-> IF d \in dead THEN NewRow ELSE rows[d]]
        /\ UNCHANGED <<committed, sent, batch, published, topic, offset, held, received, failed>>
    BY Zenon DEF ReplayDeadLettered, workerVars, outboxVars, emitVars, relayVars
  <1>2. NewRow \in Row /\ NewRow.status = "pending" /\ NewRow.attempts = 0
    BY Zenon DEF NewRow, Row, Status
  <1>3. rows' \in [Delivery -> Row]
    BY <1>1, <1>2, Zenon DEF IInv, Types, Row
  <1>4. \A f \in Delivery : rows'[f].status # "none" <=> rows[f].status # "none"
    BY <1>1, <1>2, Zenon
  <1>5. Types' /\ Genuine' /\ Safe'
    <2>1. /\ held' \in [Worker -> SUBSET [d : Delivery, attempts : Nat]]
          /\ failed' \in [Delivery -> 0 .. MaxAttempts]
      BY <1>1, Zenon DEF IInv, Types
    <2>2. \A f \in Delivery : rows'[f].status # "none" => f[1] \in committed
      BY <1>4, Zenon DEF IInv, Genuine
    <2> QED
      BY <1>1, <1>3, <1>4, <2>1, <2>2, OutboxKept, Zenon
  <1>6. ASSUME NEW f \in Delivery
        PROVE  /\ rows'[f].status = "pending" => rows'[f].attempts <= failed[f]
               /\ rows'[f].status = "dead_letter" => failed[f] >= MaxAttempts
               /\ rows'[f].status = "delivered" => f \in received
    <2>1. failed[f] \in Nat
      BY WebhookAssumption DEF IInv, Types
    <2>2. CASE f \in dead
      BY <1>1, <1>2, <2>1, <2>2
    <2>3. CASE f \notin dead
      BY <1>1, <2>3, Zenon DEF IInv, Counted
    <2> QED
      BY <2>2, <2>3, Zenon
  <1>7. Counted'
    <2>1. \A w \in Worker : \A h \in held[w] : h.d \in Delivery
      BY DEF IInv, Types
    <2> QED
      BY <1>1, <1>4, <1>6, <2>1, Zenon DEF IInv, Counted
  <1> QED
    BY <1>5, <1>7, Zenon DEF IInv

\* Every step keeps the strengthening.
LEMMA IInvStep == IInv /\ [Next]_vars => IInv'
  <1> SUFFICES ASSUME IInv, [Next]_vars
               PROVE  IInv'
    BY Zenon
  <1>1. CASE UNCHANGED vars
    <2>1. UNCHANGED <<committed, sent, batch, published, topic, offset, rows, held, received, failed>>
      BY <1>1, Zenon DEF vars, outboxVars, emitVars, relayVars, webhookVars, workerVars
    <2>2. Types' /\ Genuine'
      BY <2>1, Zenon DEF IInv, Types, Genuine
    <2>3. Safe' /\ Counted'
      BY <2>1, Zenon DEF IInv, Safe, Handed, Ahead, Stored, Counted
    <2> QED
      BY <2>2, <2>3, Zenon DEF IInv
  <1>2. ASSUME NEW e \in Event, Domain(e)
        PROVE  IInv'
    BY <1>2, DomainStep, Zenon
  <1>3. ASSUME NEW r \in Relay, Drain(r)
        PROVE  IInv'
    BY <1>3, ClaimStep, PublishStep, MarkSentStep, Zenon DEF Drain
  <1>4. ASSUME NEW p \in Partition, FanOut(p)
        PROVE  IInv'
    BY <1>4, ConsumeStep, Zenon DEF FanOut
  <1>5. ASSUME NEW w \in Worker, Deliver(w)
        PROVE  IInv'
    BY <1>5, ClaimDueStep, DeliverStep, Zenon DEF Deliver
  <1>6. ASSUME NEW d \in Delivery, Wait(d)
        PROVE  IInv'
    BY <1>6, DueStep, Zenon DEF Wait
  <1>7. ASSUME NEW s \in Subscription, Replay(s)
        PROVE  IInv'
    BY <1>7, ReplayStep, Zenon DEF Replay
  <1>8. CASE Fault
    BY <1>8, RollbackStep, ConsumeFailsStep, DeliverFailsStep, Zenon DEF Fault
  <1> QED
    BY <1>1, <1>2, <1>3, <1>4, <1>5, <1>6, <1>7, <1>8, Zenon DEF Next

\* The strengthening holds throughout every behaviour.
THEOREM Invariance == Spec => []IInv
  BY InitIInv, IInvStep, PTL DEF Spec

\* No committed event is ever out of the table, the topic and the rows.
THEOREM NothingLostHolds == Spec => []NothingLost
  <1>1. IInv => NothingLost
    BY Zenon DEF IInv, Safe, Handed, Stored, NothingLost, Waiting
  <1> QED
    BY <1>1, Invariance, PTL

\* No delivery is dead-lettered before its sends have failed often enough.
THEOREM DeadMeansTriedHolds == Spec => []DeadMeansTried
  <1>1. IInv => DeadMeansTried
    BY Zenon DEF IInv, Counted, DeadMeansTried
  <1> QED
    BY <1>1, Invariance, PTL

(***************************************************************************)
(* The refinement.  Only the commit of an event, an attempt and a replay   *)
(* show; claiming, publishing, marking, consuming and waiting do not.      *)
(***************************************************************************)
Books == [d \in Delivery |-> Outcome(d)]

\* A step shows in the notifier only if it commits an event, settles a row or
\* sends something.
LEMMA Quiet ==
  ASSUME committed' = committed,
         \A d \in Delivery : \/ rows'[d].status = rows[d].status
                             \/ {rows'[d].status, rows[d].status} \subseteq {"none", "pending"}
  PROVE  Books' = Books
  BY Zenon DEF Books, Outcome

\* The fan-out does not show.
LEMMA QuietFanOut ==
  ASSUME IInv, NEW p \in Partition, offset[p] < Len(topic[p]), committed' = committed,
         FanOutDelivery(Fetched(p)) \/ UNCHANGED rows
  PROVE  Books' = Books
  <1>1. Fetched(p) \in committed
    BY FetchedCommitted, Zenon
  <1>2. NewRow.status = "pending"
    BY Zenon DEF NewRow
  <1>3. CASE FanOutDelivery(Fetched(p))
    BY <1>1, <1>2, <1>3, FanOutFacts, Quiet, Zenon
  <1>4. CASE UNCHANGED rows
    BY <1>4, Quiet, Zenon
  <1> QED
    BY <1>3, <1>4, Zenon

\* A commit makes an event owed; beginning and aborting do not show.
LEMMA DomainRefines ==
  ASSUME IInv, NEW e \in Event, Domain(e)
  PROVE  N!Next \/ UNCHANGED <<Books, received>>
  <1>1. UNCHANGED <<rows, received>>
    BY Zenon DEF Domain, webhookVars, workerVars
  <1>2. CASE committed' = committed
    BY <1>1, <1>2, Quiet, Zenon
  <1>3. CASE Emit(e)
    <2>1. e \notin committed /\ committed' = committed \cup {e}
      BY <1>3, Zenon DEF Emit, Open
    <2>2. \A d \in Delivery : d[1] = e => rows[d].status = "none"
      BY <2>1, Zenon DEF IInv, Genuine
    <2>3. \A d \in Delivery : /\ d[1] = e => Outcome(d) = "none" /\ Outcome(d)' = "owed"
                              /\ d[1] # e => Outcome(d)' = Outcome(d)
      BY <1>1, <2>1, <2>2, Zenon DEF Outcome
    <2>4. CASE \E d \in Delivery : d[1] = e
      <3>1. N!Occur(e)
        BY <1>1, <2>3, Zenon DEF N!Occur
      <3> QED
        BY <2>4, <3>1, Zenon DEF N!Next
    <2>5. CASE ~\E d \in Delivery : d[1] = e
      BY <1>1, <2>3, <2>5, Zenon DEF Books
    <2> QED
      BY <2>4, <2>5, Zenon
  <1> QED
    BY <1>2, <1>3, Zenon DEF Domain, Begin, Abort

\* An attempt of the worker is an attempt of the notifier.
LEMMA DeliverRefines ==
  ASSUME IInv, IInv', NEW w \in Worker, NEW h \in held[w], NEW reply \in Reply,
         deliver(w, h, reply), committed' = committed
  PROVE  N!Next
  <1> DEFINE d == h.d
             out == classify(h.attempts + 1, reply = "2xx")
  <1>1. /\ d \in Delivery /\ rows[d].status # "none" /\ d[1] \in committed
        /\ rows \in [Delivery -> Row]
    <2>1. rows \in [Delivery -> Row] /\ held[w] \subseteq [d : Delivery, attempts : Nat]
      BY Zenon DEF IInv, Types, Row
    <2>2. rows[d].status # "none"
      BY Zenon DEF IInv, Counted
    <2> QED
      BY <2>1, <2>2, Zenon DEF IInv, Genuine
  <1>2. /\ rows' = [rows EXCEPT ![d] = Marked(rows[d], h.attempts + 1, out)]
        /\ received' \in {received, received \cup {d}}
    BY Zenon DEF deliver, Send
  <1>3. out \in {"delivered", "dead_letter", "retry"}
    BY Zenon DEF classify
  <1> HIDE DEF out
  <1>4. rows'[d].status = IF out = "retry" THEN rows[d].status ELSE out
    <2>1. rows[d] \in Row /\ rows'[d] = Marked(rows[d], h.attempts + 1, out)
      BY <1>1, <1>2, Zenon
    <2> HIDE DEF d
    <2> QED
      BY <2>1, Zenon DEF Marked, Row
  <1>5. Outcome(d)' \in {Outcome(d), "delivered", "dead_letter"} /\ Outcome(d) # "none"
    <2>1. rows[d].status \in Status
      BY <1>1, Zenon DEF Row
    <2> QED
      BY <1>1, <1>3, <1>4, <2>1, Zenon DEF Outcome, Status
  <1>6. Outcome(d)' = "delivered" => d \in received'
    BY <1>1, Zenon DEF Outcome, IInv, Counted
  <1>7. \A f \in Delivery : f # d => Outcome(f)' = Outcome(f)
    BY <1>1, <1>2, Zenon DEF Outcome
  <1>8. Books' = [Books EXCEPT ![d] = Outcome(d)']
    BY <1>1, <1>7, Zenon DEF Books
  <1>9. N!Attempt(d)
    BY <1>1, <1>2, <1>5, <1>6, <1>8, Zenon DEF N!Attempt, Books
  <1> QED
    BY <1>1, <1>9, Zenon DEF N!Next

\* A send that is not recorded is an attempt too.
LEMMA DeliverFailsRefines ==
  ASSUME IInv, NEW w \in Worker, deliverFails(w), committed' = committed
  PROVE  N!Next \/ UNCHANGED <<Books, received>>
  <1>1. Books' = Books
    BY Quiet, Zenon DEF deliverFails
  <1>2. ASSUME NEW h \in held[w], NEW reply \in Reply, Send(h.d, reply)
        PROVE  N!Next
    <2> DEFINE d == h.d
    <2>1. d \in Delivery /\ rows[d].status # "none" /\ d[1] \in committed
      BY DEF IInv, Types, Counted, Genuine
    <2>2. received' \in {received, received \cup {d}}
      BY <1>2, Zenon DEF Send
    <2>3. Outcome(d) # "none"
      BY <2>1, Zenon DEF Outcome
    <2>4. Outcome(d) = "delivered" => d \in received'
      BY <2>1, <2>2, Zenon DEF Outcome, IInv, Counted
    <2>5. Books' = [Books EXCEPT ![d] = Outcome(d)]
      BY <1>1, <2>1, Zenon DEF Books
    <2>6. N!Attempt(d)
      BY <2>1, <2>2, <2>3, <2>4, <2>5, Zenon DEF N!Attempt, Books
    <2> QED
      BY <2>1, <2>6, Zenon DEF N!Next
  <1> QED
    BY <1>1, <1>2, Zenon DEF deliverFails

\* A replay is a replay.
LEMMA ReplayRefines ==
  ASSUME IInv, NEW s \in Subscription, ReplayDeadLettered(s), committed' = committed
  PROVE  N!Next
  <1> DEFINE dead == {d \in Delivery : d[2] = s /\ rows[d].status = "dead_letter"}
  <1>1. /\ rows' = [d \in Delivery |-> IF d \in dead THEN NewRow ELSE rows[d]]
        /\ UNCHANGED received /\ dead # {}
    BY Zenon DEF ReplayDeadLettered, workerVars
  <1>2. NewRow.status = "pending"
    BY Zenon DEF NewRow
  <1>3. \A d \in Delivery : Outcome(d)' =
           IF d[2] = s /\ Outcome(d) = "dead_letter" THEN "owed" ELSE Outcome(d)
    <2> SUFFICES ASSUME NEW d \in Delivery
                 PROVE  Outcome(d)' =
                          IF d[2] = s /\ Outcome(d) = "dead_letter" THEN "owed" ELSE Outcome(d)
      BY Zenon
    <2>1. CASE d \in dead
      <3>1. d[1] \in committed
        BY <2>1, Zenon DEF IInv, Genuine
      <3> QED
        BY <1>1, <1>2, <2>1, <3>1, Zenon DEF Outcome
    <2>2. CASE d \notin dead
      BY <1>1, <2>2, Zenon DEF Outcome
    <2> QED
      BY <2>1, <2>2, Zenon
  <1>4. N!Replay(s)
    BY <1>1, <1>3, Zenon DEF N!Replay
  <1>5. s \in {d[2] : d \in Delivery}
    BY <1>1, Zenon
  <1> QED
    BY <1>4, <1>5, Zenon DEF N!Next

\* Every step is a step of the notifier, or does not show.
LEMMA StepRefines == IInv /\ IInv' /\ [Next]_vars => [N!Next]_(N!notifyVars)
  <1> SUFFICES ASSUME IInv, IInv', [Next]_vars
               PROVE  N!Next \/ UNCHANGED <<Books, received>>
    BY Zenon DEF N!notifyVars, Books
  <1>1. CASE UNCHANGED vars
    <2>1. UNCHANGED <<committed, rows, received>>
      BY <1>1, Zenon DEF vars, outboxVars, emitVars, webhookVars, workerVars
    <2> QED
      BY <2>1, Quiet, Zenon
  <1>2. ASSUME NEW e \in Event, Domain(e)
        PROVE  N!Next \/ UNCHANGED <<Books, received>>
    BY <1>2, DomainRefines, Zenon
  <1>3. ASSUME NEW r \in Relay, Drain(r) \/ (Rollback(r) /\ UNCHANGED webhookVars)
        PROVE  UNCHANGED <<Books, received>>
    <2>1. UNCHANGED <<committed, rows, received>>
      BY <1>3, Zenon DEF Drain, ClaimUnsentOutbox, Publish, MarkOutboxSent, Rollback, emitVars,
                  webhookVars, workerVars
    <2> QED
      BY <2>1, Quiet, Zenon
  <1>4. ASSUME NEW p \in Partition,
               FanOut(p) \/ ((\E w \in Worker : ConsumeFails(p, w)) /\ UNCHANGED outboxVars)
        PROVE  UNCHANGED <<Books, received>>
    <2>1. /\ UNCHANGED <<committed, received>>
          /\ offset[p] < Len(topic[p])
          /\ FanOutDelivery(Fetched(p)) \/ UNCHANGED rows
      BY <1>4, Zenon DEF FanOut, Consume, ConsumeFails, outboxVars, emitVars, workerVars
    <2> QED
      BY <2>1, QuietFanOut, Zenon
  <1>5. ASSUME NEW w \in Worker, Deliver(w)
        PROVE  N!Next \/ UNCHANGED <<Books, received>>
    <2>1. committed' = committed
      BY <1>5, Zenon DEF Deliver, outboxVars, emitVars
    <2>2. CASE ClaimDueDeliveries(w)
      <3>1. PICK claim \in SUBSET Delivery :
              rows' = [d \in Delivery |-> IF d \in claim THEN [rows[d] EXCEPT !.due = FALSE] ELSE rows[d]]
        BY <2>2, Zenon DEF ClaimDueDeliveries
      <3>2. \A d \in Delivery : rows'[d].status = rows[d].status
        <4>1. \A d \in Delivery : rows[d] \in Row
          BY Zenon DEF IInv, Types, Row
        <4> QED
          BY <3>1, <4>1, Zenon DEF Row
      <3> QED
        BY <2>1, <2>2, <3>2, Quiet, Zenon DEF ClaimDueDeliveries
    <2> QED
      BY <1>5, <2>1, <2>2, DeliverRefines, Zenon DEF Deliver
  <1>6. ASSUME NEW d \in Delivery, Wait(d)
        PROVE  UNCHANGED <<Books, received>>
    <2>1. /\ UNCHANGED <<committed, received>>
          /\ rows' = [rows EXCEPT ![d].due = TRUE]
      BY <1>6, Zenon DEF Wait, Due, outboxVars, emitVars, workerVars
    <2>2. \A f \in Delivery : rows'[f].status = rows[f].status
      <3>1. rows \in [Delivery -> Row]
        BY Zenon DEF IInv, Types, Row
      <3> QED
        BY <2>1, <3>1, Zenon DEF Row
    <2> QED
      BY <2>1, <2>2, Quiet, Zenon
  <1>7. ASSUME NEW s \in Subscription, Replay(s)
        PROVE  N!Next
    BY <1>7, ReplayRefines, Zenon DEF Replay, outboxVars, emitVars
  <1>8. ASSUME NEW w \in Worker, deliverFails(w), UNCHANGED outboxVars
        PROVE  N!Next \/ UNCHANGED <<Books, received>>
    BY <1>8, DeliverFailsRefines, Zenon DEF outboxVars, emitVars
  <1>9. CASE Fault
    <2>1. ASSUME NEW r \in Relay, Rollback(r), UNCHANGED webhookVars
          PROVE  UNCHANGED <<Books, received>>
      BY <2>1, <1>3, Zenon
    <2>2. ASSUME NEW p \in Partition, NEW w \in Worker, ConsumeFails(p, w), UNCHANGED outboxVars
          PROVE  UNCHANGED <<Books, received>>
      BY <2>2, <1>4, Zenon
    <2> QED
      BY <1>8, <1>9, <2>1, <2>2, Zenon DEF Fault
  <1> QED
    BY <1>1, <1>2, <1>3, <1>4, <1>5, <1>6, <1>7, <1>9, Zenon DEF Next

\* The outbox, the relays, the topic and webhookd implement Notifications.
THEOREM Implementation == Spec => ImplementsNotifications
  <1>1. Init => N!Init
    BY Zenon DEF Init, OutboxInit, WebhookInit, N!Init, Outcome
  <1> QED
    BY <1>1, StepRefines, Invariance, PTL DEF Spec, ImplementsNotifications, N!Spec

(***************************************************************************)
(* Order.  An event is claimed only together with, or after, the earlier   *)
(* ones of its aggregate: they are committed, older, and a sole relay sees *)
(* every row that is not sent.                                             *)
(***************************************************************************)
Sole == \A q, r \in Relay : q = r

OnTopic(e) == \E m \in 1 .. Len(topic[PartitionOf[e]]) : topic[PartitionOf[e]][m] = e

\* The transactions of an aggregate follow each other.
Dated ==
    /\ created \in [Event -> Nat]
    /\ \A e \in committed : created[e] # 0
    /\ \A e \in Event : created[e] # 0 =>
         \A f \in Prior[e] : f \in committed /\ created[f] < created[e]

\* A batch is ordered by age, and holds what is unsent before its events.
Queued(r) ==
    /\ \A i, j \in 1 .. Len(batch[r]) : i < j => created[batch[r][i]] < created[batch[r][j]]
    /\ \A e \in Range(batch[r]) : Sole => Prior[e] \subseteq sent \cup Range(batch[r])
    /\ published[r] => \A e \in Range(batch[r]) : OnTopic(e)

OInv ==
    /\ Dated
    /\ \A r \in Relay : Queued(r)
    /\ \A e \in sent : OnTopic(e)
    /\ PublishedInOrder

\* Nothing has happened at the start.
LEMMA InitOrder == Init => OInv
  BY DEF Init, OutboxInit, OInv, Dated, Queued, OnTopic, PublishedInOrder, Range

\* The events of a batch are a sequence's members.
LEMMA InBatch ==
  ASSUME Types, NEW r \in Relay
  PROVE  /\ \A i \in 1 .. Len(batch[r]) : batch[r][i] \in Range(batch[r])
         /\ \A e \in Range(batch[r]) : e \in Event /\ \E i \in 1 .. Len(batch[r]) : batch[r][i] = e
         /\ DOMAIN batch[r] = 1 .. Len(batch[r])
  <1>1. batch[r] \in Seq(Event)
    BY Zenon DEF Types
  <1> DEFINE s == batch[r]
  <1> HIDE DEF s
  <1>2. ASSUME s \in Seq(Event)
        PROVE  DOMAIN s = 1 .. Len(s) /\ \A i \in 1 .. Len(s) : s[i] \in Event
    BY <1>2
  <1> QED
    BY <1>1, <1>2, Zenon DEF s, Range

\* Domain transactions change no committed event.
LEMMA DomainOrder ==
  ASSUME IInv, OInv, NEW e \in Event, Domain(e)
  PROVE  OInv'
  <1>1. /\ committed \subseteq committed' /\ committed \subseteq Event
        /\ UNCHANGED <<sent, batch, published, topic>>
    BY Zenon DEF Domain, Begin, Emit, Abort, relayVars, IInv, Types
  <1>2. Dated' /\ \A f \in committed : created'[f] = created[f]
    <2>1. CASE Begin(e)
      <3>1. PICK t \in 1 .. Cardinality(Event) :
               Latest(t) /\ created' = [created EXCEPT ![e] = t]
        BY <2>1, Zenon DEF Begin
      <3>2. /\ t \in Nat /\ t # 0 /\ \A f \in Event : created[f] < t
            /\ created[e] = 0 /\ Prior[e] \subseteq committed /\ committed' = committed
        BY <2>1, <3>1 DEF Begin, Latest
      <3>3. e \notin committed /\ \A f \in Event : created[f] # 0 => e \notin Prior[f]
        BY <3>2, Zenon DEF OInv, Dated
      <3> QED BY <1>1, <3>1, <3>2, <3>3, Zenon DEF OInv, Dated
    <2>2. CASE Emit(e)
      BY <2>2, Zenon DEF Emit, Open, OInv, Dated
    <2>3. CASE Abort(e)
      BY <1>1, <2>3, Zenon DEF Abort, Open, OInv, Dated
    <2> QED BY <2>1, <2>2, <2>3, Zenon DEF Domain
  <1>3. \A r \in Relay : Queued(r)'
    <2> SUFFICES ASSUME NEW r \in Relay PROVE Queued(r)'
      BY Zenon
    <2>1. \A i \in 1 .. Len(batch[r]) : batch[r][i] \in committed
      BY InBatch, Zenon DEF IInv, Genuine
    <2>2. Queued(r)
      BY Zenon DEF OInv
    <2> QED BY <1>1, <1>2, <2>1, <2>2 DEF Queued, OnTopic
  <1> QED BY <1>1, <1>2, <1>3 DEF OInv, OnTopic, PublishedInOrder

\* A sole relay claims, before an event, all that is unsent of its aggregate.
LEMMA ClaimOrder ==
  ASSUME IInv, OInv, NEW r \in Relay, ClaimUnsentOutbox(r)
  PROVE  OInv'
  <1>1. PICK b \in Batches(Claimable) :
           Oldest(b, Claimable) /\ batch[r] = <<>> /\ batch' = [batch EXCEPT ![r] = b]
    BY Zenon DEF ClaimUnsentOutbox
  <1>2. UNCHANGED <<created, committed, sent, published, topic>>
    BY Zenon DEF ClaimUnsentOutbox, emitVars
  <1>3. b \in Seq(Claimable) /\ DOMAIN b = 1 .. Len(b) /\ Claimable \subseteq committed
    BY <1>1, BatchesAreSeqs DEF Claimable
  <1>4. batch' \in [Relay -> Seq(Event)] /\ batch'[r] = b
    BY <1>1, <1>3 DEF IInv, Types, Claimable
  <1>5. ~published[r]
    BY <1>1, Zenon DEF IInv, Safe
  <1>6. ASSUME NEW e \in Range(b), Sole, NEW f \in Prior[e], f \notin sent PROVE f \in Range(b)
    <2>1. PICK i \in 1 .. Len(b) : b[i] = e
      BY <1>3, Zenon DEF Range
    <2>2. e \in committed /\ e \in Event
      BY <1>3, <2>1 DEF IInv, Types
    <2>3. f \in committed /\ created[f] < created[e]
      BY <1>6, <2>2, Zenon DEF OInv, Dated
    <2>4. f \in Claimable
      <3>1. \A q \in Relay : Range(batch[q]) = {}
        BY <1>1, <1>6 DEF Sole, Range
      <3> QED BY <1>6, <2>3, <3>1, Zenon DEF Claimable
    <2>5. f \notin Range(b) => created[e] < created[f]
      BY <1>1, <1>3, <2>1, <2>4, Zenon DEF Oldest
    <2>6. created[e] \in Nat /\ created[f] \in Nat
      BY <2>2, <2>3, Zenon DEF OInv, Dated, IInv, Types
    <2> QED BY <2>3, <2>5, <2>6
  <1>7. ASSUME NEW q \in Relay PROVE Queued(q)'
    <2>1. CASE q = r
      <3>1. \A i, j \in 1 .. Len(b) : i < j => created[b[i]] < created[b[j]]
        BY <1>1, <1>3, Zenon DEF Oldest
      <3>2. \A e \in Range(b) : Sole => Prior[e] \subseteq sent \cup Range(b)
        BY <1>6, Zenon
      <3> QED BY <1>2, <1>4, <1>5, <2>1, <3>1, <3>2, Zenon DEF Queued, Sole
    <2>2. CASE q # r
      <3>1. batch'[q] = batch[q] /\ Queued(q)
        BY <1>1, <2>2, Zenon DEF IInv, Types, OInv
      <3> QED BY <1>2, <3>1, Zenon DEF Queued, OnTopic, Sole
    <2> QED BY <2>1, <2>2, Zenon
  <1> QED BY <1>2, <1>7 DEF OInv, Dated, OnTopic, PublishedInOrder

\* What a relay writes follows what it depends on.
LEMMA WriteInOrder ==
  ASSUME IInv, OInv, Sole, NEW r \in Relay, NEW W \in SUBSET Partition, WriteMessages(r, W),
         NEW p \in Partition, NEW n \in 1 .. Len(topic'[p]), NEW f \in Prior[topic'[p][n]]
  PROVE  \E m \in 1 .. n - 1 : topic'[p][m] = f
  <1> DEFINE old == Len(topic[p])
  <1>1. PICK shares \in [Partition -> Batches(Range(batch[r])) \cup {<<>>}] :
           /\ \A q \in Partition : IsShare(shares[q], q, batch[r])
           /\ topic' = [q \in Partition |-> IF q \in W THEN topic[q] \o shares[q] ELSE topic[q]]
    BY Zenon DEF WriteMessages
  <1>2. /\ topic[p] \in Seq(Event) /\ topic'[p] \in Seq(Event) /\ old <= Len(topic'[p])
        /\ \A i \in 1 .. old : topic'[p][i] = topic[p][i]
    BY TopicGrows, Zenon DEF IInv, Types
  <1>3. old \in Nat /\ Len(topic'[p]) \in Nat /\ DOMAIN topic[p] = 1 .. old
    BY <1>2
  <1>4. CASE n \in 1 .. old
    <2>1. PICK m \in 1 .. n - 1 : topic[p][m] = f
      <3>1. n \in DOMAIN topic[p] /\ f \in Prior[topic[p][n]]
        BY <1>2, <1>3, <1>4, Zenon
      <3>2. \A i \in DOMAIN topic[p] : \A g \in Prior[topic[p][i]] :
              \E m \in 1 .. i - 1 : topic[p][m] = g
        BY Zenon DEF OInv, PublishedInOrder, Sole
      <3> QED BY <3>1, <3>2, Zenon
    <2> QED BY <1>2, <1>3, <1>4, <2>1
  <1>5. CASE n \notin 1 .. old
    <2> DEFINE share == shares[p]
               k == n - old
    <2>1. share \in Seq(Range(batch[r]))
      BY <1>1, BatchesAreSeqs, Zenon
    <2>2. topic'[p] = topic[p] \o share
      BY <1>1, <1>3, <1>5, Zenon
    <2> HIDE DEF share
    <2>3. /\ Len(share) \in Nat /\ DOMAIN share = 1 .. Len(share)
          /\ Len(topic'[p]) = old + Len(share)
          /\ \A i \in 1 .. Len(share) : topic'[p][old + i] = share[i]
      <3>1. share \in Seq(Event)
        <4>1. Range(batch[r]) \subseteq Event
          BY InBatch, Zenon DEF IInv
        <4> QED BY <2>1, <4>1
      <3> QED BY <1>2, <2>2, <3>1
    <2>4. k \in 1 .. Len(share) /\ n = old + k
      BY <1>3, <1>5, <2>3
    <2> HIDE DEF k
    <2>5. topic'[p][n] = share[k]
      BY <2>3, <2>4, Zenon
    <2> DEFINE e == share[k]
    <2>6. IsShare(share, p, batch[r])
      BY <1>1, Zenon DEF share
    <2>7. e \in Range(batch[r]) /\ PartitionOf[e] = p
      <3>1. e \in Range(share)
        BY <2>3, <2>4, Zenon DEF Range
      <3> QED BY <2>6, <3>1, Zenon DEF IsShare
    <2>8. e \in committed /\ e \in Event /\ f \in Prior[e]
      BY <2>5, <2>7, Zenon DEF IInv, Genuine, Types
    <2>9. f \in Event /\ PartitionOf[f] = p /\ created[f] < created[e]
      BY <2>7, <2>8, OutboxAssumption, Zenon DEF OInv, Dated
    <2>10. created[f] \in Nat /\ created[e] \in Nat
      BY <2>8, <2>9, Zenon DEF OInv, Dated
    <2>11. CASE f \in sent
      <3>1. PICK m \in 1 .. old : topic[p][m] = f
        BY <2>9, <2>11, Zenon DEF OInv, OnTopic
      <3>2. m \in 1 .. n - 1 /\ topic'[p][m] = f
        BY <1>2, <1>3, <2>4, <3>1
      <3> QED BY <3>2, Zenon
    <2>12. CASE f \in Range(batch[r])
      <3>1. f \in Range(share)
        BY <2>6, <2>9, <2>12, Zenon DEF IsShare
      <3>2. PICK l \in 1 .. Len(share) : share[l] = f
        BY <2>3, <3>1, Zenon DEF Range
      <3>3. ~(k < l)
        <4> SUFFICES ASSUME k < l PROVE FALSE
          BY Zenon
        <4>1. PICK i, j \in DOMAIN batch[r] : i < j /\ batch[r][i] = e /\ batch[r][j] = f
          <5>1. k \in DOMAIN share /\ l \in DOMAIN share
            BY <2>3, <2>4, Zenon
          <5>2. \E m, o \in DOMAIN batch[r] : m < o /\ batch[r][m] = share[k] /\ batch[r][o] = share[l]
            BY <2>6, <5>1, Zenon DEF IsShare
          <5> QED BY <3>2, <5>2, Zenon
        <4>2. i \in 1 .. Len(batch[r]) /\ j \in 1 .. Len(batch[r])
          BY <4>1, InBatch, Zenon DEF IInv
        <4>3. created[batch[r][i]] < created[batch[r][j]]
          <5>1. Queued(r)
            BY Zenon DEF OInv
          <5> HIDE DEF e
          <5> QED BY <4>1, <4>2, <5>1, Zenon DEF Queued
        <4> QED BY <2>9, <2>10, <4>1, <4>3
      <3>4. k # l
        BY <2>9, <2>10, <3>2
      <3>5. old + l \in 1 .. n - 1 /\ topic'[p][old + l] = f
        BY <1>3, <2>3, <2>4, <3>2, <3>3, <3>4
      <3> QED BY <3>5, Zenon
    <2>13. f \in sent \cup Range(batch[r])
      BY <2>7, <2>8, Zenon DEF OInv, Queued
    <2> QED BY <2>11, <2>12, <2>13, Zenon
  <1> QED BY <1>4, <1>5, Zenon

\* Writing keeps the order on the topic, and what is on it.
LEMMA WriteOrder ==
  ASSUME IInv, OInv, NEW r \in Relay, NEW W \in SUBSET Partition, WriteMessages(r, W)
  PROVE  PublishedInOrder' /\ \A e \in Event : OnTopic(e) => OnTopic(e)'
  <1>1. /\ topic' \in [Partition -> Seq(Event)]
        /\ \A p \in Partition :
             /\ Len(topic[p]) <= Len(topic'[p])
             /\ \A i \in 1 .. Len(topic[p]) : topic'[p][i] = topic[p][i]
    BY TopicGrows, Zenon DEF IInv
  <1>2. PublishedInOrder'
    <2> SUFFICES ASSUME Sole, NEW p \in Partition, NEW n \in DOMAIN topic'[p],
                        NEW f \in Prior[topic'[p][n]]
                 PROVE  \E m \in 1 .. n - 1 : topic'[p][m] = f
      BY Zenon DEF PublishedInOrder, Sole
    <2>1. n \in 1 .. Len(topic'[p])
      BY <1>1
    <2> QED BY <2>1, WriteInOrder, Zenon
  <1>3. ASSUME NEW e \in Event, OnTopic(e) PROVE OnTopic(e)'
    <2>1. PartitionOf[e] \in Partition
      BY OutboxAssumption, Zenon
    <2>2. PICK m \in 1 .. Len(topic[PartitionOf[e]]) : topic[PartitionOf[e]][m] = e
      BY <1>3, Zenon DEF OnTopic
    <2>3. /\ Len(topic[PartitionOf[e]]) \in Nat /\ Len(topic'[PartitionOf[e]]) \in Nat
          /\ Len(topic[PartitionOf[e]]) <= Len(topic'[PartitionOf[e]])
          /\ topic'[PartitionOf[e]][m] = e
      BY <1>1, <2>1, <2>2 DEF IInv, Types
    <2>4. m \in 1 .. Len(topic'[PartitionOf[e]])
      BY <2>2, <2>3
    <2> QED BY <2>3, <2>4, Zenon DEF OnTopic
  <1> QED BY <1>2, <1>3, Zenon

\* The steps of a relay after its claim.
LEMMA RelayOrder ==
  ASSUME IInv, OInv, NEW r \in Relay, Publish(r) \/ MarkOutboxSent(r) \/ Rollback(r)
  PROVE  OInv'
  <1>0. /\ UNCHANGED <<created, committed>> /\ Types
        /\ \A q \in Relay : Range(batch[q]) \subseteq Event
    BY Zenon DEF Publish, MarkOutboxSent, Rollback, emitVars, IInv, Types, Genuine
  <1>1. Dated'
    BY <1>0, Zenon DEF OInv, Dated
  <1>2. CASE Publish(r)
    <2>1. /\ WriteMessages(r, Partition) /\ published' = [published EXCEPT ![r] = TRUE]
          /\ UNCHANGED <<sent, batch>>
      BY <1>2, Zenon DEF Publish
    <2>2. PublishedInOrder' /\ \A e \in Event : OnTopic(e) => OnTopic(e)'
      BY <2>1, WriteOrder, Zenon
    <2>3. ASSUME NEW e \in Range(batch[r]) PROVE OnTopic(e)'
      <3>1. e \in Event /\ PartitionOf[e] \in Partition
        BY <1>0, OutboxAssumption, Zenon
      <3>2. \E i \in 1 .. Len(topic'[PartitionOf[e]]) : topic'[PartitionOf[e]][i] = e
        BY <1>0, <2>1, <3>1, TopicGrows
      <3> QED BY <3>2, Zenon DEF OnTopic
    <2>4. ASSUME NEW q \in Relay PROVE Queued(q)'
      <3>1. Queued(q) /\ (published'[q] => q = r \/ published[q])
        BY <1>0, <2>1, Zenon DEF OInv, Types
      <3>2. published'[q] => \A e \in Range(batch[q]) : OnTopic(e)'
        BY <1>0, <2>2, <2>3, <3>1, Zenon DEF Queued
      <3> QED BY <1>0, <2>1, <3>1, <3>2, Zenon DEF Queued, Sole
    <2>5. \A e \in sent' : OnTopic(e)'
      BY <2>1, <2>2, Zenon DEF OInv, IInv, Genuine, Types
    <2> QED BY <1>1, <2>2, <2>4, <2>5, Zenon DEF OInv
  <1>3. CASE MarkOutboxSent(r) \/ Rollback(r)
    <2>1. /\ batch' = [batch EXCEPT ![r] = <<>>] /\ published' = [published EXCEPT ![r] = FALSE]
      BY <1>3, Zenon DEF MarkOutboxSent, Rollback, EndBatch
    <2>2. /\ sent \subseteq sent' /\ sent' \subseteq Event
          /\ PublishedInOrder' /\ \A e \in Event : OnTopic(e) => OnTopic(e)'
      <3>1. CASE UNCHANGED topic
        <4>1. sent \subseteq sent' /\ sent' \subseteq Event
          <5>1. sent \subseteq Event /\ Range(batch[r]) \subseteq Event
            BY <1>0, Zenon DEF IInv, Genuine, Types
          <5>2. sent' = sent \/ sent' = sent \cup Range(batch[r])
            BY <1>3, Zenon DEF MarkOutboxSent, Rollback
          <5> QED BY <5>1, <5>2, Zenon
        <4>2. \A e \in Event : OnTopic(e) => OnTopic(e)'
          BY <3>1, Zenon DEF OnTopic
        <4>3. PublishedInOrder'
          BY <3>1 DEF OInv, PublishedInOrder
        <4> QED BY <4>1, <4>2, <4>3, Zenon
      <3>2. CASE Rollback(r) /\ \E W \in SUBSET Partition : WriteMessages(r, W)
        BY <3>2, WriteOrder, Zenon DEF Rollback, IInv, Genuine, Types
      <3> QED BY <1>3, <3>1, <3>2, Zenon DEF MarkOutboxSent, Rollback
    <2>3. \A e \in sent' : OnTopic(e)'
      <3>1. \A e \in sent' : OnTopic(e)
        BY <1>3, Zenon DEF MarkOutboxSent, Rollback, OInv, Queued
      <3> QED BY <2>2, <3>1, Zenon
    <2>4. ASSUME NEW q \in Relay PROVE Queued(q)'
      <3>1. CASE q = r
        <4>1. batch'[q] = <<>> /\ ~published'[q]
          BY <1>0, <2>1, <3>1, Zenon DEF Types
        <4> QED BY <4>1 DEF Queued, Range
      <3>2. CASE q # r
        <4>1. batch'[q] = batch[q] /\ published'[q] = published[q] /\ Queued(q)
          BY <1>0, <2>1, <3>2, Zenon DEF Types, OInv
        <4>2. \A e \in Range(batch[q]) : OnTopic(e) => OnTopic(e)'
          BY <1>0, <2>2, Zenon
        <4> QED BY <1>0, <2>2, <4>1, <4>2, Zenon DEF Queued, Sole
      <3> QED BY <3>1, <3>2, Zenon
    <2> QED BY <1>1, <2>2, <2>3, <2>4, Zenon DEF OInv
  <1> QED BY <1>2, <1>3, Zenon

\* Every step keeps the order.
LEMMA OrderStep == IInv /\ OInv /\ [Next]_vars => OInv'
  <1> SUFFICES ASSUME IInv, OInv, [Next]_vars PROVE OInv'
    BY Zenon
  <1>1. ASSUME UNCHANGED outboxVars PROVE OInv'
    <2>1. UNCHANGED <<created, committed, sent, batch, published, topic>>
      BY <1>1, Zenon DEF outboxVars, emitVars, relayVars
    <2> QED BY <2>1 DEF OInv, Dated, Queued, Sole, OnTopic, PublishedInOrder
  <1> QED
    BY <1>1, DomainOrder, ClaimOrder, RelayOrder, Zenon
    DEF Next, Drain, FanOut, Deliver, Wait, Replay, Fault, vars

\* With a sole relay, however often its batches are rolled back after the
\* broker has taken a part of them, no event overtakes an earlier one of its
\* aggregate.
THEOREM PublishedInOrderHolds == Spec => []PublishedInOrder
  <1>1. OInv => PublishedInOrder
    BY Zenon DEF OInv
  <1> QED
    BY <1>1, InitOrder, OrderStep, Invariance, PTL DEF Spec

\* Only what a worker holds is ever received.
LEMMA RestStep ==
  ASSUME IInv, received \subseteq Delivery, faults \in Nat, [Next]_vars
  PROVE  received' \subseteq Delivery /\ faults' \in Nat
  <1>1. faults' \in Nat
    BY EventsAssumption DEF Next, Domain, Drain, FanOut, Deliver, Wait, Replay, Fault, vars
  <1>2. CASE UNCHANGED received
    BY <1>1, <1>2, Zenon
  <1>3. ASSUME NEW w \in Worker, NEW h \in held[w], NEW reply \in Reply, Send(h.d, reply)
        PROVE  received' \subseteq Delivery
    <2>1. h.d \in Delivery
      BY DEF IInv, Types
    <2> QED BY <1>3, <2>1, Zenon DEF Send
  <1>4. ASSUME NEW w \in Worker, Deliver(w) PROVE received' \subseteq Delivery
    BY <1>2, <1>3, <1>4, Zenon DEF Deliver, ClaimDueDeliveries, deliver
  <1>5. CASE Fault
    BY <1>2, <1>3, <1>5
    DEF Fault, webhookVars, workerVars, ConsumeFails, deliverFails
  <1>6. CASE \/ \E e \in Event : Domain(e)
             \/ \E r \in Relay : Drain(r)
             \/ \E p \in Partition : FanOut(p)
             \/ \E d \in Delivery : Wait(d)
             \/ \E s \in Subscription : Replay(s)
             \/ UNCHANGED vars
    BY <1>2, <1>6, Zenon
    DEF Domain, Drain, FanOut, Wait, Replay, Consume, Due, ReplayDeadLettered, vars, webhookVars, workerVars
  <1> QED BY <1>1, <1>4, <1>5, <1>6, Zenon DEF Next

\* Every variable has its type throughout every behaviour.
THEOREM TypeCorrect == Spec => []TypeOK
  <1> DEFINE Rest == received \subseteq Delivery /\ faults \in Nat
  <1>1. Init => Rest
    BY DEF Init, WebhookInit
  <1>2. IInv /\ Rest /\ [Next]_vars => Rest'
    BY RestStep, Zenon
  <1>3. IInv /\ OInv /\ Rest => TypeOK
    BY WebhookAssumption DEF IInv, Types, Genuine, OInv, Dated, TypeOK
  <1> HIDE DEF Rest
  <1> QED
    BY <1>1, <1>2, <1>3, InitOrder, OrderStep, Invariance, PTL DEF Spec
=============================================================================
