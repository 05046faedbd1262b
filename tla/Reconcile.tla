----------------------------- MODULE Reconcile ------------------------------
(***************************************************************************)
(* paymentrailctl reconcile: a run pages through the settlements, reads    *)
(* the treasuries' balances on chain, sums what the ledger owes, and exits *)
(* with what the three say together.  Nothing holds them still: the        *)
(* watcher's sink settles, reverses and finalises rows (Settlement),       *)
(* payments move money between accounts and tokens move on chain between   *)
(* any two of the reads.                                                   *)
(***************************************************************************)
EXTENDS Settlement, Functions

CONSTANTS
    Asset,
    AssetOf,        \* AssetOf[a]: the asset of account a
    IdOf,           \* IdOf[t]: where the row's id sorts
    Links,          \* the rows submit may insert: transaction, payment, created_at
    Address,        \* an address as a manifest spells it
    Lower,          \* Lower[s]: the holder s spells, whatever its case
    Malformed,      \* the spellings that are not hex addresses
    NoAsset,        \* the empty asset of an entry
    Manifest,       \* the treasury lists an operator may give
    Holdings,       \* the balances on chain at the start, by token and holder
    Transfers,      \* the transfers on chain that may happen: where, how much
    PageSize,       \* reconcilePageSize
    MaxTransfers,   \* transfers into or out of a treasury on chain
    MaxPayments     \* payments between accounts

\* TreasuryEntry
Entry == [address : Address, asset : Asset \cup {NoAsset}, token : Address]

ASSUME ReconcileAssumption ==
    /\ IsFiniteSet(Account)
    /\ AssetOf \in [Account -> Asset]
    /\ \A p \in Payment : AssetOf[DestOf[p]] = AssetOf[House]
    /\ IdOf \in [Tx -> Int]
    /\ \A t, u \in Tx : IdOf[t] = IdOf[u] => t = u
    /\ Links \subseteq [tx : Tx, payment : Payment, at : Int]
    /\ Malformed \subseteq Address
    /\ DOMAIN Lower = Address
    /\ NoAsset \notin Asset
    /\ Manifest \subseteq Seq(Entry)
    /\ Holdings \in [Range(Lower) \X Range(Lower) -> Nat]
    /\ Transfers \subseteq [at : DOMAIN Holdings, amount : Int]
    /\ PageSize \in Nat \ {0}
    /\ MaxTransfers \in Nat /\ MaxPayments \in Nat

VARIABLES
    created,    \* created_at of the rows
    holdings,   \* the balances on chain, by token and holder
    pc, registry, cursor, sums, actuals, liabilities, exit,  \* the run
    moved,      \* rows that began or ceased to count since the run began
    shifted,   \* has a treasury's balance moved since the run began?
    transfers, paid

runVars == <<pc, registry, cursor, sums, actuals, liabilities, exit>>

vars == <<chainVars, settlementVars, created, holdings, runVars, moved, shifted,
          transfers, paid>>

NoCursor == << >>

NoExit == -1

ExitClean == 0

ExitDiscrepancy == 1

ExitError == 2

Init ==
    /\ ChainInit
    /\ SettlementInit
    /\ created = [t \in Tx |-> 0]
    /\ holdings = Holdings
    /\ pc = "start"
    /\ registry = << >>
    /\ cursor = NoCursor
    /\ sums = [a \in Asset |-> [finalized |-> 0, confirmed |-> 0]]
    /\ actuals = << >>
    /\ liabilities = << >>
    /\ exit = NoExit
    /\ moved = {}
    /\ shifted = FALSE
    /\ transfers = 0
    /\ paid = 0

(***************************************************************************)
(* buildReconcileRegistry.  A manifest without entries, with an entry      *)
(* without an asset or with a malformed address or token, or with one      *)
(* holder listed twice for an asset is refused before anything is read; two*)
(* spellings of an address are one holder.                                 *)
(***************************************************************************)
Validate(e) == e.asset # NoAsset /\ {e.address, e.token} \cap Malformed = {}

\* Mutant: the addresses are compared as they are spelt.
SamePairAsSpelt(e, f) == e.address = f.address /\ e.asset = f.asset

SamePair(e, f) == Lower[e.address] = Lower[f.address] /\ e.asset = f.asset

LoadRegistry(entries) ==
    /\ entries # << >>
    /\ \A i \in DOMAIN entries : Validate(entries[i])
    /\ \A i, j \in DOMAIN entries : i # j => ~SamePair(entries[i], entries[j])

Quit(code) ==
    /\ pc' = "done"
    /\ exit' = code
    /\ UNCHANGED <<registry, cursor, sums, actuals, liabilities>>

Unmoved == UNCHANGED <<chainVars, settlementVars, created, holdings, moved, shifted,
                       transfers, paid>>

Begin(entries) ==
    /\ pc = "start"
    /\ IF LoadRegistry(entries)
       THEN /\ pc' = "scan"
            /\ registry' = entries
            /\ UNCHANGED <<cursor, sums, actuals, liabilities, exit>>
       ELSE Quit(ExitError)
    /\ Unmoved

(***************************************************************************)
(* AggregateSettlements: pages in the order of (created_at, id), each its  *)
(* own statement, until one comes back short.                              *)
(***************************************************************************)
Counts(t) == rows[t].status \in {"settled", "finalized"}

SortKey(t) == <<created[t], IdOf[t]>>

Precedes(k, l) == k[1] < l[1] \/ (k[1] = l[1] /\ k[2] < l[2])

\* Mutant: the cursor is compared by created_at alone.
ListAfterTime(c) == {t \in Tx : Counts(t) /\ (c = NoCursor \/ c[1] < created[t])}

ListSettlementsForReconcile(c) ==
    {t \in Tx : Counts(t) /\ (c = NoCursor \/ Precedes(c, SortKey(t)))}

Page(listed) ==
    {t \in listed : Cardinality({u \in listed : Precedes(SortKey(u), SortKey(t))}) < PageSize}

IsIn(t, a) == AssetOf[DestOf[rows[t].payment]] = a

Total(txs, a) ==
    LET of == {t \in txs : IsIn(t, a)}
    IN  SumFunctionOnSet([t \in of |-> Amount[rows[t].payment]], of)

accumulate(page) ==
    [a \in Asset |->
        [finalized |-> sums[a].finalized
                       + Total({t \in page : rows[t].status = "finalized"}, a),
         confirmed |-> sums[a].confirmed
                       + Total({t \in page : rows[t].status = "settled"}, a)]]

ReadPage ==
    /\ pc = "scan"
    /\ LET page == Page(ListSettlementsForReconcile(cursor))
       IN  /\ sums' = accumulate(page)
           /\ cursor' = IF page = {} THEN cursor
                        ELSE CHOOSE k \in {SortKey(t) : t \in page} :
                                \A t \in page : ~Precedes(k, SortKey(t))
           /\ pc' = IF Cardinality(page) = PageSize THEN "scan" ELSE "balances"
    /\ UNCHANGED <<registry, actuals, liabilities, exit>>
    /\ Unmoved

(***************************************************************************)
(* BalanceOf of each entry in turn, then SumNonHouseLiabilities of each    *)
(* asset listed, in the order of a Go map.                                 *)
(***************************************************************************)
\* Where the money of an entry is: the token asked, and the holder.
Place(e) == <<Lower[e.token], Lower[e.address]>>

BalanceOf ==
    /\ pc = "balances"
    /\ Len(actuals) < Len(registry)
    /\ LET e == registry[Len(actuals) + 1]
       IN  actuals' = Append(actuals, [asset |-> e.asset, actual |-> holdings[Place(e)]])
    /\ UNCHANGED <<pc, registry, cursor, sums, liabilities, exit>>
    /\ Unmoved

Listed == {registry[i].asset : i \in DOMAIN registry}

SumNonHouseLiabilities(a) ==
    SumFunctionOnSet(balance, {x \in Account \ {House} : AssetOf[x] = a})

SumLiabilities(a) ==
    /\ pc = "balances"
    /\ Len(actuals) = Len(registry)
    /\ a \in Listed \ DOMAIN liabilities
    /\ liabilities' = [x \in DOMAIN liabilities \cup {a} |->
                        IF x = a THEN -SumNonHouseLiabilities(a) ELSE liabilities[x]]
    /\ UNCHANGED <<pc, registry, cursor, sums, actuals, exit>>
    /\ Unmoved

(***************************************************************************)
(* BuildReport.  An asset the registry does not list owes 0 and holds 0;   *)
(* one that appears in none of the three maps would be a clean line.       *)
(***************************************************************************)
Actual(a) ==
    SumFunctionOnSet([i \in DOMAIN actuals |-> actuals[i].actual],
                     {i \in DOMAIN actuals : actuals[i].asset = a})

Owed(a) == IF a \in DOMAIN liabilities THEN liabilities[a] ELSE 0

Discrepancy(a) == Actual(a) - sums[a].finalized - sums[a].confirmed

Clean == \A a \in Asset : Discrepancy(a) = 0 /\ Actual(a) >= Owed(a)

reconcileExitCode == IF Clean THEN ExitClean ELSE ExitDiscrepancy

BuildReport ==
    /\ pc = "balances"
    /\ Len(actuals) = Len(registry)
    /\ DOMAIN liabilities = Listed
    /\ Quit(reconcileExitCode)
    /\ Unmoved

\* Any query, or any call of the node, fails: no report, exit 2.
Fails ==
    /\ pc \in {"scan", "balances"}
    /\ Quit(ExitError)
    /\ Unmoved

(***************************************************************************)
(* What happens meanwhile.  created_at is the start of the transaction     *)
(* that inserts the row, so a row may appear among older ones.             *)
(***************************************************************************)
Running == pc \in {"scan", "balances"}

\* The system is followed until the run exits.
Followed == pc # "done"

LinkRow(l) ==
    /\ Followed
    /\ Link(l.tx, l.payment)
    /\ created' = [created EXCEPT ![l.tx] = l.at]
    /\ UNCHANGED <<chainVars, holdings, runVars, moved, shifted, transfers, paid>>

\* The statuses the sink acts on.  A confirmation may have been observed at any
\* head so far, and come when the row is final in another block.
Delivered(s) ==
    LET row == rows[s.tx]
    IN  \/ /\ s.phase = "confirmed"
           /\ row.status \in {"pending", "reorged", "finalized"}
           /\ s.tx \in Includes[s.block] /\ Buried(s.block, Depth)
        \/ /\ s.phase = "reorged"
           /\ row.status = "settled" /\ row.block = s.block
           /\ ~Canonical(s.block)
        \/ /\ s.phase = "finalized"
           /\ row.status = "settled" /\ row.block = s.block
           /\ Canonical(s.block)
           /\ Confirmations(tip, s.block) >= FinalityDepth

SinkStep(s) ==
    /\ Followed
    /\ Delivered(s)
    /\ OnStatus(s)
    /\ moved' = IF Running /\ Counts(s.tx) # Counts(s.tx)' THEN moved \cup {s.tx} ELSE moved
    /\ UNCHANGED <<chainVars, created, holdings, runVars, shifted, transfers, paid>>

ChainStep ==
    /\ Followed
    /\ \E b \in Block : MoveTip(b)
    /\ UNCHANGED <<settlementVars, created, holdings, runVars, moved, shifted, transfers,
                   paid>>

\* A payment between any two accounts of an asset, the clearing account too.
PaymentStep(x, y) ==
    /\ Followed
    /\ paid < MaxPayments
    /\ x # y
    /\ AssetOf[x] = AssetOf[y]
    /\ Pay(x, y, 1)
    /\ paid' = paid + 1
    /\ UNCHANGED <<chainVars, created, holdings, runVars, moved, shifted, transfers>>

TokenTransfer(m) ==
    /\ Followed
    /\ transfers < MaxTransfers
    /\ holdings[m.at] + m.amount >= 0
    /\ holdings' = [holdings EXCEPT ![m.at] = @ + m.amount]
    /\ shifted' = (shifted \/ Running)
    /\ transfers' = transfers + 1
    /\ UNCHANGED <<chainVars, settlementVars, created, runVars, moved, paid>>

RunStep ==
    \/ \E entries \in Manifest : Begin(entries)
    \/ ReadPage
    \/ BalanceOf
    \/ \E a \in Asset : SumLiabilities(a)
    \/ BuildReport
    \/ Fails

Meanwhile ==
    \/ \E l \in Links : LinkRow(l)
    \/ \E t \in Tx, b \in Block, phase \in {"confirmed", "reorged", "finalized"} :
            SinkStep([tx |-> t, phase |-> phase, block |-> b])
    \/ ChainStep
    \/ \E x, y \in Account : PaymentStep(x, y)
    \/ \E m \in Transfers : TokenTransfer(m)

Next == RunStep \/ Meanwhile

Spec == Init /\ [][Next]_vars

-----------------------------------------------------------------------------
(***************************************************************************)
(* AggregateSettlements counts every row that counts from the beginning of *)
(* the run to now exactly once, and no row twice: what the sums hold beyond*)
(* those rows is a set of rows that moved during the run.  A row may be    *)
(* inserted among older ones, finalised between two pages, or share its    *)
(* created_at with the last row of a page.                                 *)
(***************************************************************************)
CountedOnce ==
    pc = "balances" =>
        \A a \in Asset : \E extra \in SUBSET moved :
            sums[a].finalized + sums[a].confirmed
                = Total({t \in Tx \ moved : Counts(t)} \cup extra, a)

(***************************************************************************)
(* reconcileReport's exit code is true of a run during which no treasury's *)
(* balance moved, whatever the sink and the payments did meanwhile.  Exit  *)
(* 0: what the places the registry lists for an asset hold, each once, is  *)
(* the amount of every row that counted throughout and of some rows that   *)
(* moved.  And when no row moved, nothing else makes a run exit 1: the     *)
(* proof-of-reserves verdict never does, because no posting leaves an      *)
(* account below 0, so that what the report calls liabilities, minus the   *)
(* sum of the other accounts' balances, is never above 0.                  *)
(***************************************************************************)
Held(a) ==
    SumFunctionOnSet(holdings, {Place(registry[i]) : i \in {j \in DOMAIN registry : registry[j].asset = a}})

Backed(a) ==
    \E extra \in SUBSET moved : Held(a) = Total({t \in Tx \ moved : Counts(t)} \cup extra, a)

TrueExit ==
    [][BuildReport /\ ~shifted
        => /\ exit' = ExitClean => \A a \in Asset : Backed(a)
           /\ moved = {} /\ (\A a \in Asset : Backed(a)) => exit' = ExitClean]_vars
=============================================================================
