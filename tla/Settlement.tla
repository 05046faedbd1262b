----------------------------- MODULE Settlement -----------------------------
(***************************************************************************)
(* internal/settlement: the settlements table, the Recorder that links a   *)
(* broadcast transaction to its payment, and the Sink that applies each    *)
(* watcher status to the ledger.  Every Sink handler is one database       *)
(* transaction: the journal entry, the row's status, the outbox event and  *)
(* the audit record commit together or not at all, unless the Mark finds   *)
(* no row to change: then the journal entry commits alone.                 *)
(***************************************************************************)
EXTENDS Chain, Ledger, Sequences

CONSTANTS
    Payment,
    House,      \* the onchain_settlement clearing account
    DestOf,     \* DestOf[p]: the destination account of payment p
    Amount,     \* Amount[p]: the amount of payment p
    Opening,    \* the balances after the payments were created
    NoPayment

ASSUME SettlementAssumption ==
    /\ IsFiniteSet(Tx)
    /\ House \in Account
    /\ DestOf \in [Payment -> Account]
    /\ Amount \in [Payment -> Nat \ {0}]
    /\ Opening \in [Account -> Nat]
    /\ NoPayment \notin Payment

VARIABLES
    rows,       \* the settlements table, by tx_hash
    events      \* per tx, the events written to outbox_events and audit_log

settlementVars == <<rows, events, journal, balance>>

RowStatus == {"none", "pending", "settled", "reorged", "finalized"}

Row(status, payment, block) == [status |-> status, payment |-> payment, block |-> block]

SettlementInit ==
    /\ rows = [t \in Tx |-> Row("none", NoPayment, NoBlock)]
    /\ events = [t \in Tx |-> << >>]
    /\ journal = {}
    /\ balance = Opening

(***************************************************************************)
(* Recorder.Link: ON CONFLICT (tx_hash) DO NOTHING; the second link of a   *)
(* transaction changes nothing, whichever payment it names.                *)
(***************************************************************************)
Link(t, p) ==
    /\ rows[t].status = "none"
    /\ rows' = [rows EXCEPT ![t] = Row("pending", p, NoBlock)]
    /\ UNCHANGED <<events, journal, balance>>

(***************************************************************************)
(* The journal entries.  The external_ref of both names the payment and    *)
(* the block of the status, not the transaction.                           *)
(***************************************************************************)
SettleEntry(p, b) ==
    [kind |-> "settle", ref |-> <<p, b>>, lines |-> Transfer(DestOf[p], House, Amount[p])]

ReversalEntry(p, b) ==
    [kind |-> "reversal", ref |-> <<p, b>>, lines |-> Transfer(House, DestOf[p], Amount[p])]

\* outbox.Emit and audit.Append, the last two writes of each handler.
EmitEvent(t, type) == events' = [events EXCEPT ![t] = Append(@, type)]

(***************************************************************************)
(* settle: the status guard, the posting, the guarded Mark.  When the Mark *)
(* matches no row the handler returns nil, so the posting commits alone.   *)
(***************************************************************************)
\* Mutant: the anchor is not stored.
MarkNoAnchor(t, b) ==
    IF rows[t].status \in {"pending", "reorged"}
    THEN /\ rows' = [rows EXCEPT ![t] = Row("settled", @.payment, NoBlock)]
         /\ EmitEvent(t, "confirmed")
    ELSE UNCHANGED <<rows, events>>

\* Mutant: the guard of the UPDATE forgets the reorged rows.
MarkPendingOnly(t, b) ==
    IF rows[t].status = "pending"
    THEN /\ rows' = [rows EXCEPT ![t] = Row("settled", @.payment, b)]
         /\ EmitEvent(t, "confirmed")
    ELSE UNCHANGED <<rows, events>>

MarkSettlementSettled(t, b) ==
    IF rows[t].status \in {"pending", "reorged"}
    THEN /\ rows' = [rows EXCEPT ![t] = Row("settled", @.payment, b)]
         /\ EmitEvent(t, "confirmed")
    ELSE UNCHANGED <<rows, events>>

Settle(t, b) ==
    \/ /\ rows[t].status = "settled"
       /\ UNCHANGED settlementVars
    \/ /\ rows[t].status # "settled"
       /\ PostWithin(SettleEntry(rows[t].payment, b))
       /\ MarkSettlementSettled(t, b)

(***************************************************************************)
(* reverse: only a settled row; the posting, then the Mark, which also     *)
(* clears the anchor.                                                      *)
(***************************************************************************)
\* Mutant: the posting without the Mark.
ReverseUnmarked(t, b) ==
    \/ /\ rows[t].status # "settled"
       /\ UNCHANGED settlementVars
    \/ /\ rows[t].status = "settled"
       /\ PostWithin(ReversalEntry(rows[t].payment, b))
       /\ EmitEvent(t, "reorged")
       /\ UNCHANGED rows

Reverse(t, b) ==
    \/ /\ rows[t].status # "settled"
       /\ UNCHANGED settlementVars
    \/ /\ rows[t].status = "settled"
       /\ PostWithin(ReversalEntry(rows[t].payment, b))
       /\ rows' = [rows EXCEPT ![t] = Row("reorged", @.payment, NoBlock)]
       /\ EmitEvent(t, "reorged")

\* Mutant: the UPDATE has no status guard.
FinalizeUnguarded(t) ==
    /\ rows' = [rows EXCEPT ![t] = Row("finalized", @.payment, @.block)]
    /\ EmitEvent(t, "finalized")
    /\ UNCHANGED ledgerVars

\* finalize: a guarded UPDATE that moves no money.
Finalize(t) ==
    \/ /\ rows[t].status # "settled"
       /\ UNCHANGED settlementVars
    \/ /\ rows[t].status = "settled"
       /\ rows' = [rows EXCEPT ![t] = Row("finalized", @.payment, @.block)]
       /\ EmitEvent(t, "finalized")
       /\ UNCHANGED ledgerVars

(***************************************************************************)
(* Sink.OnStatus: what commits when the transaction of status s succeeds.  *)
(* A transaction nobody linked, and a pending or mined status, are ignored.*)
(***************************************************************************)
OnStatus(s) ==
    \/ /\ rows[s.tx].status = "none" \/ s.phase = "mined"
       /\ UNCHANGED settlementVars
    \/ /\ rows[s.tx].status # "none"
       /\ \/ s.phase = "confirmed" /\ Settle(s.tx, s.block)
          \/ s.phase = "reorged" /\ Reverse(s.tx, s.block)
          \/ s.phase = "finalized" /\ Finalize(s.tx)

\* The posting of status s is refused: OnStatus returns an error and rolls back.
Refused(s) ==
    LET row == rows[s.tx]
    IN  \/ /\ s.phase = "confirmed"
           /\ row.status \notin {"none", "settled"}
           /\ ~Accepts(SettleEntry(row.payment, s.block))
        \/ /\ s.phase = "reorged"
           /\ row.status = "settled"
           /\ ~Accepts(ReversalEntry(row.payment, s.block))

(***************************************************************************)
(* payments.Create and payments.Cancel move money between any two accounts *)
(* that hold it, the clearing account among them: an account id is all the *)
(* API asks for.  (Their own entries never meet the sink's references.)    *)
(***************************************************************************)
Pay(x, y, n) ==
    LET e == [kind |-> "payment", lines |-> Transfer(x, y, n)]
    IN  /\ Funded(e)
        /\ balance' = ApplyToBalances(e.lines)
        /\ UNCHANGED <<rows, events, journal>>
=============================================================================
