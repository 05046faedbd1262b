------------------------------ MODULE Payments ------------------------------
(***************************************************************************)
(* internal/payments: creating and cancelling payments over the ledger,    *)
(* and listing them page by page.  A payment and its journal entry are     *)
(* written in one transaction (LedgerPosting shows that such a transaction *)
(* is atomic), which also writes the outbox event and, with the same       *)
(* content, the audit row; both are the one member of facts.               *)
(*                                                                         *)
(* Every request may call Create once, with a fresh uuid for the payment:  *)
(* a payment is named after the request that creates it.  Its created_at   *)
(* is the time its transaction began, so payments may become visible in    *)
(* another order than that of their timestamps, and timestamps may tie.    *)
(***************************************************************************)
EXTENDS Ledger, FiniteSets

CONSTANTS
    Attempt,    \* the create requests; numbers, for the order of uuids
    BodyOf,     \* BodyOf[a]: what request a asks for, [source, dest, amount]
    Canceller,  \* the concurrent cancel requests
    Times,      \* the timestamps transactions may begin at
    PageLimit,  \* the page size of the list requests
    NoPayment

ASSUME PaymentsAssumption ==
    /\ Attempt \subseteq Nat
    /\ IsFiniteSet(Attempt)
    /\ DOMAIN BodyOf = Attempt
    /\ \A a \in Attempt : /\ DOMAIN BodyOf[a] = {"source", "dest", "amount"}
                          /\ BodyOf[a].source \in Account
                          /\ BodyOf[a].dest \in Account \ {BodyOf[a].source}
                          /\ BodyOf[a].amount \in Int
    /\ Times \subseteq Nat
    /\ PageLimit \in Nat \ {0}
    /\ NoPayment \notin Attempt

VARIABLES
    payments,   \* the status of every payment row, "none" before it is inserted
    created,    \* its created_at
    facts,      \* the outbox and audit rows: records [type, payment]
    cancelling, \* the payment each cancel request has read as completed
    walk        \* a client that lists the payments page by page

paymentVars == <<payments, created, facts, cancelling, walk>>

Existing == {p \in Attempt : payments[p] # "none"}

PaymentsInit ==
    /\ payments = [a \in Attempt |-> "none"]
    /\ created = [a \in Attempt |-> 0]
    /\ facts = {}
    /\ cancelling = [c \in Canceller |-> NoPayment]
    /\ walk = [state |-> "new", at |-> 0, id |-> NoPayment,
               start |-> {}, listed |-> [a \in Attempt |-> 0]]

(***************************************************************************)
(* Create: the entry, the payment row, the event and the audit row, or     *)
(* nothing.                                                                *)
(***************************************************************************)
PaymentEntry(p) ==
    [kind |-> "payment", ref |-> p,
     lines |-> Transfer(BodyOf[p].source, BodyOf[p].dest, BodyOf[p].amount)]

Create(p) ==
    /\ PostWithin(PaymentEntry(p))
    /\ payments' = [payments EXCEPT ![p] = "completed"]
    /\ \E t \in Times : created' = [created EXCEPT ![p] = t]
    /\ facts' = facts \cup {[type |-> "payment.created", payment |-> p]}
    /\ UNCHANGED <<cancelling, walk>>

(***************************************************************************)
(* Cancel reads the payment without a lock, then posts the reversal and    *)
(* marks the row if it is still completed.  The request that finds nothing *)
(* to cancel ends there.                                                   *)
(***************************************************************************)
ReversalEntry(p) ==
    [kind |-> "payment.reversal", ref |-> p,
     lines |-> Transfer(BodyOf[p].dest, BodyOf[p].source, BodyOf[p].amount)]

CancelRead(c, p) ==
    /\ cancelling[c] = NoPayment
    /\ payments[p] = "completed"
    /\ cancelling' = [cancelling EXCEPT ![c] = p]
    /\ UNCHANGED <<ledgerVars, payments, created, facts, walk>>

\* Mutant: a destination without funds does not stop the cancellation.
CancelUnfunded(c) ==
    LET p == cancelling[c]
    IN  /\ p # NoPayment
        /\ payments[p] = "completed"
        /\ IF Accepts(ReversalEntry(p)) THEN PostWithin(ReversalEntry(p)) ELSE UNCHANGED ledgerVars
        /\ payments' = [payments EXCEPT ![p] = "canceled"]
        /\ facts' = facts \cup {[type |-> "payment.canceled", payment |-> p]}
        /\ cancelling' = [cancelling EXCEPT ![c] = NoPayment]
        /\ UNCHANGED <<created, walk>>

CancelCommit(c) ==
    LET p == cancelling[c]
    IN  /\ p # NoPayment
        /\ PostWithin(ReversalEntry(p))
        /\ payments[p] = "completed"
        /\ payments' = [payments EXCEPT ![p] = "canceled"]
        /\ facts' = facts \cup {[type |-> "payment.canceled", payment |-> p]}
        /\ cancelling' = [cancelling EXCEPT ![c] = NoPayment]
        /\ UNCHANGED <<created, walk>>

\* The reversal is refused, the row is no longer completed, or the database
\* or the connection fails: ROLLBACK.
CancelRollback(c) ==
    /\ cancelling[c] # NoPayment
    /\ cancelling' = [cancelling EXCEPT ![c] = NoPayment]
    /\ UNCHANGED <<ledgerVars, payments, created, facts, walk>>

(***************************************************************************)
(* List: the newest rows past the cursor, one more than the page to know   *)
(* whether there is a next one.  The opaque cursor keeps the timestamp and *)
(* the id of the last row exactly.                                         *)
(***************************************************************************)
Older(at, id, bt, jd) == at < bt \/ (at = bt /\ id < jd)

Newer(p, rows) == {q \in rows : Older(created[p], p, created[q], q)}

\* Mutant: the cursor is the timestamp alone.
ListPaymentsAfterTime(at, id) == {p \in Existing : created[p] < at}

\* WHERE (created_at, id) < cursor
ListPaymentsAfter(at, id) == {p \in Existing : Older(created[p], p, at, id)}

ListPage(rows) ==
    LET page == {p \in rows : Cardinality(Newer(p, rows)) < PageLimit}
        last == CHOOSE p \in page : Newer(p, page) = page \ {p}
    IN  walk' = [walk EXCEPT
            !.state  = IF Cardinality(rows) > PageLimit THEN "more" ELSE "end",
            !.at     = IF Cardinality(rows) > PageLimit THEN created[last] ELSE @,
            !.id     = IF Cardinality(rows) > PageLimit THEN last ELSE @,
            !.start  = IF walk.state = "new" THEN Existing ELSE @,
            !.listed = [p \in Attempt |-> IF p \in page THEN @[p] + 1 ELSE @[p]]]

List ==
    /\ \/ walk.state = "new" /\ ListPage(Existing)
       \/ walk.state = "more" /\ ListPage(ListPaymentsAfter(walk.at, walk.id))
    /\ UNCHANGED <<ledgerVars, payments, created, facts, cancelling>>

PaymentsNext ==
    \/ \E c \in Canceller :
         \/ \E p \in Attempt : CancelRead(c, p)
         \/ CancelCommit(c)
         \/ CancelRollback(c)
    \/ List

(***************************************************************************)
(* Properties.                                                             *)
(***************************************************************************)
PaymentsTypeOK ==
    /\ payments \in [Attempt -> {"none", "completed", "canceled"}]
    /\ created \in [Attempt -> Times \cup {0}]
    /\ facts \subseteq [type : {"payment.created", "payment.canceled"}, payment : Attempt]
    /\ cancelling \in [Canceller -> Attempt \cup {NoPayment}]
    /\ walk.state \in {"new", "more", "end"}
    /\ walk.listed \in [Attempt -> Nat]

\* "a payment and its ledger footprint are one-to-one": a payment has its
\* entry and its event exactly when its row exists, and its reversal and its
\* event exactly when it is canceled, however creations, racing cancellations
\* and other postings on the same accounts interleave.
BooksMatch ==
    \A p \in Attempt :
        /\ payments[p] # "none" <=> PaymentEntry(p) \in journal
        /\ payments[p] # "none" <=> [type |-> "payment.created", payment |-> p] \in facts
        /\ payments[p] = "canceled" <=> ReversalEntry(p) \in journal
        /\ payments[p] = "canceled" <=> [type |-> "payment.canceled", payment |-> p] \in facts

\* handleList, "a keyset page of payments, newest first": a client that
\* follows next_cursor to the end sees every payment that existed when it
\* began exactly once, and none twice, whatever is created or cancelled while
\* it pages, timestamps that tie included.
WalkComplete ==
    /\ \A p \in Attempt : walk.listed[p] <= 1
    /\ walk.state = "end" => \A p \in walk.start : walk.listed[p] = 1
=============================================================================
