---------------------------- MODULE Chainwatcher ----------------------------
(***************************************************************************)
(* cmd/chainwatcher: the watcher's loop, the settlement sink it drives and *)
(* the re-scan goroutine, over a moving chain and a shared database.  The  *)
(* loop and the re-scan run concurrently; the process may be restarted at  *)
(* any point, and a sink transaction may fail or lose its commit answer.   *)
(***************************************************************************)
EXTENDS Settlement, Watcher, Functions

CONSTANTS
    MaxFaults,      \* how many sink transactions may fail
    MaxRestarts,    \* how often the process is restarted
    MaxPayments     \* how often other payments move money

ASSUME BoundAssumption == MaxFaults \in Nat /\ MaxRestarts \in Nat /\ MaxPayments \in Nat

VARIABLES
    listed,     \* the rows the re-scan has read and not seeded yet
    faults, restarts, payments,
    drawn       \* what payments have taken out of the clearing account

envVars == <<faults, restarts, payments, drawn>>

vars == <<chainVars, settlementVars, watcherVars, listed, envVars>>

Init ==
    /\ ChainInit
    /\ SettlementInit
    /\ WatcherInit
    /\ listed = {}
    /\ faults = 0
    /\ restarts = 0
    /\ payments = 0
    /\ drawn = 0

(***************************************************************************)
(* The re-scan: ListPendingSettlements, then seed row by row.  A row may   *)
(* have changed by the time it is seeded.                                  *)
(***************************************************************************)
\* Mutant: settled rows are not listed.
PendingRowsUnsettled ==
    {[tx |-> t, status |-> rows[t].status, block |-> rows[t].block] :
        t \in {u \in Tx : rows[u].status \in {"pending", "reorged"}}}

PendingRows ==
    {[tx |-> t, status |-> rows[t].status, block |-> rows[t].block] :
        t \in {u \in Tx : rows[u].status \in {"pending", "settled", "reorged"}}}

\* Mutant: every row is tracked afresh, its anchor ignored.
SeedAfresh(row) == Track

Seed(row) ==
    IF row.status = "settled" /\ row.block # NoBlock THEN Resume(row.block) ELSE Track

RescanList ==
    /\ listed = {}
    /\ listed' = PendingRows
    /\ UNCHANGED <<chainVars, settlementVars, watcherVars, envVars>>

RescanSeed(row) ==
    /\ row \in listed
    /\ listed' = listed \ {row}
    /\ entry' = IF entry[row.tx].phase = "untracked"
                THEN [entry EXCEPT ![row.tx] = Seed(row)]
                ELSE entry
    /\ UNCHANGED <<chainVars, settlementVars, head, todo, cur, emitted, envVars>>

(***************************************************************************)
(* The process stops anywhere, losing the tracked map and the statuses of  *)
(* the pass; main seeds a new watcher from the rows before it polls.       *)
(***************************************************************************)
Restart ==
    /\ restarts < MaxRestarts
    /\ restarts' = restarts + 1
    /\ entry' = [t \in Tx |-> IF \E row \in PendingRows : row.tx = t
                              THEN Seed(CHOOSE row \in PendingRows : row.tx = t)
                              ELSE Untracked]
    /\ head' = 0
    /\ todo' = {}
    /\ cur' = NoTx
    /\ emitted' = << >>
    /\ listed' = {}
    /\ UNCHANGED <<chainVars, settlementVars, faults, payments, drawn>>

(***************************************************************************)
(* Dispatching one status: the sink's transaction commits; its posting is  *)
(* refused; it fails for another reason and rolls back; or it commits but  *)
(* the answer is lost and Run sees an error.                               *)
(***************************************************************************)
Deliver ==
    /\ Dispatch
    /\ OnStatus(NextStatus)
    /\ UNCHANGED <<chainVars, entry, listed, envVars>>

DeliverRefused ==
    /\ Dispatch
    /\ Refused(NextStatus)
    /\ RollBack(NextStatus)
    /\ UNCHANGED <<chainVars, settlementVars, listed, envVars>>

DeliverFault ==
    /\ Dispatch
    /\ NextStatus.phase # "mined"
    /\ faults < MaxFaults
    /\ faults' = faults + 1
    /\ RollBack(NextStatus)
    /\ \/ UNCHANGED settlementVars
       \/ OnStatus(NextStatus)
    /\ UNCHANGED <<chainVars, listed, restarts, payments, drawn>>

(***************************************************************************)
(* The other processes: the node, the operator's link, the payments API.   *)
(***************************************************************************)
ChainStep ==
    /\ \E b \in Block : MoveTip(b)
    /\ UNCHANGED <<settlementVars, watcherVars, listed, envVars>>

LinkStep ==
    /\ \E t \in Tx, p \in Payment : Link(t, p)
    /\ UNCHANGED <<chainVars, watcherVars, listed, envVars>>

PaymentStep ==
    /\ payments < MaxPayments
    /\ payments' = payments + 1
    /\ \E p \in Payment, x, y \in Account :
         /\ x # y
         /\ Pay(x, y, Amount[p])
         /\ drawn' = IF x = House THEN drawn + Amount[p] ELSE drawn
    /\ UNCHANGED <<chainVars, watcherVars, listed, faults, restarts>>

PollStep ==
    /\ Poll
    /\ UNCHANGED <<chainVars, settlementVars, listed, envVars>>

Next ==
    \/ ChainStep
    \/ LinkStep
    \/ PaymentStep
    \/ PollStep
    \/ Deliver
    \/ DeliverRefused
    \/ DeliverFault
    \/ RescanList
    \/ \E row \in listed : RescanSeed(row)
    \/ Restart

Spec == Init /\ [][Next]_vars

(***************************************************************************)
(* Fairness.  The ticker keeps the loop and the re-scan running, so each   *)
(* of their steps that stays possible is taken.  A node read may fail any  *)
(* number of times, but not every time: the steps a failed read skips are  *)
(* strongly fair.  Nothing is assumed of the node's head, of the operator  *)
(* or of restarts.                                                         *)
(***************************************************************************)
Quiet == UNCHANGED <<chainVars, settlementVars, listed, envVars>>

ReceiptStep(t) == (PollPending(t) \/ PollReceipt(t)) /\ Quiet

HeaderStep == PollHeader /\ Quiet

Fairness ==
    /\ WF_vars(PollStep)
    /\ \A t \in Tx : SF_vars(ReceiptStep(t))
    /\ SF_vars(HeaderStep)
    /\ WF_vars(Deliver \/ DeliverRefused)
    /\ WF_vars(RescanList)
    /\ WF_vars(\E row \in listed : RescanSeed(row))

FairSpec == Spec /\ Fairness

(***************************************************************************)
(* Properties.                                                             *)
(***************************************************************************)
RowType == [status : RowStatus, payment : Payment \cup {NoPayment}, block : Block \cup {NoBlock}]

SinkEntry(e) ==
    \E p \in Payment, b \in Block : e \in {SettleEntry(p, b), ReversalEntry(p, b)}

StatusType == [tx : Tx, phase : StatusPhase, block : Block]

ListedType == [tx : Tx, status : {"pending", "settled", "reorged"}, block : Block \cup {NoBlock}]

EntryType ==
    [phase : EntryPhase, block : Block \cup {NoBlock},
     lastPhase : StatusPhase \cup {"pending"}, lastDepth : Nat]

SettlementTypeOK ==
    /\ rows \in [Tx -> RowType]
    /\ \A t \in Tx :
        /\ rows[t].status # "none" => rows[t].payment \in Payment
        /\ rows[t].status = "settled" => rows[t].block \in Block
    /\ events \in [Tx -> Seq({"confirmed", "reorged", "finalized"})]
    /\ \A e \in journal : SinkEntry(e)
    /\ balance \in [Account -> Int]

WatcherTypeOK ==
    /\ entry \in [Tx -> EntryType]
    /\ \A t \in Tx : entry[t].phase \in {"mined", "confirmed"} => entry[t].block \in Block
    /\ head \in Nat
    /\ todo \subseteq Tracked \ {cur}
    /\ cur \in Tx \cup {NoTx}
    /\ cur # NoTx => entry[cur].phase \in {"mined", "confirmed"}
    /\ emitted \in Seq(StatusType)

\* Every variable has its type, and a row, an entry or a status that must
\* carry a block or a payment does.
TypeOK ==
    /\ ChainTypeOK
    /\ SettlementTypeOK
    /\ WatcherTypeOK
    /\ listed \subseteq ListedType
    /\ faults \in 0..MaxFaults
    /\ restarts \in 0..MaxRestarts
    /\ payments \in 0..MaxPayments
    /\ drawn \in Nat

EntriesOf(kind, p) == {e \in journal : e.kind = kind /\ e.ref[1] = p}

RowsOf(p, statuses) == {t \in Tx : rows[t].payment = p /\ rows[t].status \in statuses}

NetSettled(p) == Cardinality(EntriesOf("settle", p)) - Cardinality(EntriesOf("reversal", p))

\* settlement.go settle and reverse: whatever the chain does and however
\* statuses are lost, repeated or late, the settle entries of a payment not
\* undone by a reversal are one per settled row, and until one of its rows is
\* final never more.
PostingsMatchRows ==
    \A p \in Payment :
        LET live == Cardinality(RowsOf(p, {"settled", "finalized"}))
        IN  /\ NetSettled(p) >= live
            /\ RowsOf(p, {"finalized"}) = {} => NetSettled(p) = live

\* settlement.go:223-224 "already settled; idempotent no-op": a payment is
\* never settled more often in the ledger than its rows say, final or not.
SettledOnce ==
    \A p \in Payment : NetSettled(p) = Cardinality(RowsOf(p, {"settled", "finalized"}))

\* No sink transaction failed, and payments left the clearing account alone,
\* so that no reversal was refused for funds.
NoLapse == faults = 0 /\ drawn = 0

\* While nothing lapses the promise is kept: restarts, stale re-scans,
\* reorganisations and refused settles never settle a payment twice.
SettledOnceUnlessFaults == NoLapse => SettledOnce

\* watcher.go poll against the head it read first: no row is settled at a
\* block that never had Depth confirmations on its own branch, and none is
\* final unless a block holding its transaction was buried FinalityDepth deep.
DeepEnough ==
    \A t \in Tx :
        /\ rows[t].status = "settled" => Buried(rows[t].block, Depth)
        /\ rows[t].status = "finalized" =>
               \E b \in Block : t \in Includes[b] /\ Buried(b, FinalityDepth)

\* outbox.Emit inside the sink's transactions: a subscriber that folds the
\* events of a transaction in order always ends in the row's status, and
\* learns of a finalisation once.
EventsTellTheRow ==
    \A t \in Tx :
        LET n == Len(events[t])
            s == rows[t].status
        IN  /\ s \in {"none", "pending"} <=> n = 0
            /\ n > 0 => s = (IF events[t][n] = "confirmed" THEN "settled" ELSE events[t][n])
            /\ \A i \in 1..n : events[t][i] = "confirmed" <=> i % 2 = 1

\* settlement.go settle and reverse: the sink never takes more out of the
\* clearing account than settled rows moved into it.  What is missing for a
\* reversal was taken by payments, which may name that account as any other;
\* while they do not, ErrInsufficientFunds never stops a reversal.
HouseCovers ==
    LET live == {t \in Tx : /\ rows[t].status \in {"settled", "finalized"}
                            /\ DestOf[rows[t].payment] # House}
    IN  balance[House] + drawn
            >= SumFunctionOnSet([t \in live |-> Amount[rows[t].payment]], live)

\* t is on the canonical chain, as deep as finality asks.
Final(t) == \E b \in ReceiptBlocks(t) : Confirmations(tip, b) >= FinalityDepth

\* A linked transaction that is buried for good is finalised in the end,
\* through failed sink transactions, restarts and evictions.
EventuallyFinalized ==
    \A t \in Tx : (rows[t].status # "none" /\ Final(t)) ~> (rows[t].status = "finalized")

\* watcher.go:239-240: a failed Reorged needs no rollback, its anchor "is the
\* persisted row, re-derived on the next pass".  A settled transaction that
\* has left the chain for good does not stay settled.
EventuallyReversed ==
    \A t \in Tx : <>[](ReceiptBlocks(t) = {}) => <>[](rows[t].status # "settled")

\* It is kept while nothing lapses: a Reorged lost with the process
\* that saw it is found again from the row the restart resumes.
ReversedUnlessFaults == []NoLapse => EventuallyReversed
=============================================================================
