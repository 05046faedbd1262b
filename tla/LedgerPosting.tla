--------------------------- MODULE LedgerPosting ----------------------------
(***************************************************************************)
(* internal/ledger under concurrency: the steps of the database            *)
(* transactions that post entries, at READ COMMITTED.  A transaction locks *)
(* the accounts it touches one by one (SELECT ... ORDER BY id FOR UPDATE), *)
(* checks them, reads their balances, inserts the entry (the unique index  *)
(* makes it wait for another open transaction that inserted the same key), *)
(* lets the caller write its rows, appends to the audit log (Audit) under  *)
(* the advisory lock that it holds until it ends, and commits.  Any step   *)
(* may fail and roll back.                                                 *)
(*                                                                         *)
(* Not every posting is audited: PostEntry appends nothing, nor do settle  *)
(* and reverse when the row they would mark is not in the status it needs. *)
(* And not every audited transaction posts: finalize, Propose and Claim    *)
(* write one row of their own, which only one of them can, and append.     *)
(* Such a note is an entry without lines.                                  *)
(*                                                                         *)
(* Ledger is the abstract view: one atomic posting.                        *)
(***************************************************************************)
EXTENDS Ledger, Audit, FiniteSets, Functions

CONSTANTS
    Proc,       \* concurrent callers
    Entries,    \* what they may write: records [kind, ref, asset, lines, audited]
    AssetOf,    \* AssetOf[a]: the asset account a is denominated in
    Opening,    \* the balances before the first posting
    NoEntry, NoProc

\* Account ids are numbers, for the order in which rows are locked.
ASSUME PostingAssumption ==
    /\ Account \subseteq Nat
    /\ IsFiniteSet(Account)
    /\ \A e \in Entries : /\ DOMAIN e = {"kind", "ref", "asset", "lines", "audited"}
                          /\ DOMAIN e.lines \subseteq Account
                          /\ \A a \in DOMAIN e.lines : e.lines[a] \in Int
                          /\ e.audited \in BOOLEAN
    /\ Opening \in [Account -> Nat]
    /\ NoEntry \notin Entries
    /\ NoProc \notin Proc

VARIABLES
    pc,         \* where each caller's transaction is
    job,        \* the entry it posts, or the note it makes
    owner,      \* the transaction that holds each account's row lock
    seen,       \* the balances it read
    marks,      \* the committed notes
    auditor,    \* the transaction that holds the audit advisory lock
    draft,      \* the audit row it has built and inserted, not yet committed
    log         \* the committed audit log, in the order of seq

auditVars == <<auditor, draft, log>>
postingVars == <<pc, job, owner, seen, marks, auditVars>>
vars == <<ledgerVars, postingVars>>

Init ==
    /\ journal = {}
    /\ balance = Opening
    /\ pc = [p \in Proc |-> "idle"]
    /\ job = [p \in Proc |-> NoEntry]
    /\ owner = [a \in Account |-> NoProc]
    /\ seen = [p \in Proc |-> Opening]
    /\ marks = {}
    /\ auditor = NoProc
    /\ draft = [p \in Proc |-> NoEntry]
    /\ log = <<>>

(***************************************************************************)
(* The entry's own checks.  Balanced is asset-blind; checkAccounts, under  *)
(* the locks, is what keeps a posting within one asset.                    *)
(***************************************************************************)
Balanced(e) == SumFunction(e.lines) = 0

\* Mutant: one account of the right asset is enough.
checkOneAccount(e) == \E a \in DOMAIN e.lines : AssetOf[a] = e.asset

checkAccounts(e) == \A a \in DOMAIN e.lines : AssetOf[a] = e.asset

Holds(p) == {a \in Account : owner[a] = p}

\* Transactions that have inserted their entry and not committed it.
Inserted(p) == pc[p] \in {"audit", "head", "commit"}

SameKey(e, f) == e.kind = f.kind /\ e.ref = f.ref

Posts(e) == DOMAIN e.lines # {}

\* The entry's key is in the journal, or the row of the note is written.  (The
\* kind of a note is its audit action, which no entry has.)
Taken(e) == Duplicate(e) \/ \E f \in marks : SameKey(f, e)

Goto(p, label) == pc' = [pc EXCEPT ![p] = label]

(***************************************************************************)
(* The steps of PostWithin and of the transaction around it.               *)
(***************************************************************************)
Begin(p, e) ==
    /\ pc[p] = "idle"
    /\ Balanced(e)
    /\ job' = [job EXCEPT ![p] = e]
    /\ Goto(p, IF Posts(e) THEN "lock" ELSE "check")
    /\ UNCHANGED <<ledgerVars, owner, seen, marks, auditVars>>

\* Mutant: the rows are locked in any order.
LockAny(p) ==
    /\ pc[p] = "lock"
    /\ \E a \in DOMAIN job[p].lines \ Holds(p) :
         /\ owner[a] = NoProc
         /\ owner' = [owner EXCEPT ![a] = p]
    /\ UNCHANGED <<ledgerVars, pc, job, seen, marks, auditVars>>

\* The next row in id order, once nobody else holds it.
LockNext(p) ==
    LET missing == DOMAIN job[p].lines \ Holds(p)
    IN  /\ pc[p] = "lock"
        /\ \E a \in missing :
             /\ \A b \in missing : a <= b
             /\ owner[a] = NoProc
             /\ owner' = [owner EXCEPT ![a] = p]
        /\ UNCHANGED <<ledgerVars, pc, job, seen, marks, auditVars>>

\* Mutant: the balances are read before the rows are locked.
ReadUnlocked(p) ==
    /\ pc[p] = "lock"
    /\ checkAccounts(job[p])
    /\ seen' = [seen EXCEPT ![p] = balance]
    /\ Goto(p, "check")
    /\ UNCHANGED <<ledgerVars, job, owner, marks, auditVars>>

ReadBalances(p) ==
    /\ pc[p] = "lock"
    /\ DOMAIN job[p].lines \subseteq Holds(p)
    /\ checkAccounts(job[p])
    /\ seen' = [seen EXCEPT ![p] = balance]
    /\ Goto(p, "check")
    /\ UNCHANGED <<ledgerVars, job, owner, marks, auditVars>>

\* Mutant: only committed keys are compared.
InsertNoWait(p) ==
    LET e == job[p]
    IN  /\ pc[p] = "check"
        /\ \A a \in DOMAIN e.lines : seen[p][a] + e.lines[a] >= 0
        /\ ~Taken(e)
        /\ Goto(p, IF e.audited THEN "audit" ELSE "commit")
        /\ UNCHANGED <<ledgerVars, job, owner, seen, marks, auditVars>>

\* ApplyToBalances on the balances read, then InsertJournalEntry and the
\* caller's own rows, which nobody else sees before the commit.
Insert(p) ==
    LET e == job[p]
    IN  /\ pc[p] = "check"
        /\ \A a \in DOMAIN e.lines : seen[p][a] + e.lines[a] >= 0
        /\ ~Taken(e)
        /\ \A q \in Proc \ {p} : Inserted(q) => ~SameKey(job[q], e)
        /\ Goto(p, IF e.audited THEN "audit" ELSE "commit")
        /\ UNCHANGED <<ledgerVars, job, owner, seen, marks, auditVars>>

AuditLock(p) ==
    /\ pc[p] = "audit"
    /\ auditor = NoProc
    /\ auditor' = p
    /\ Goto(p, "head")
    /\ UNCHANGED <<ledgerVars, job, owner, seen, marks, draft, log>>

\* What the audit row of a posting or a note says.
Fact(e) == [kind |-> e.kind, ref |-> e.ref]

\* Mutant: the head is read before the lock is taken.
ReadHeadUnlocked(p) ==
    /\ pc[p] \in {"audit", "head"}
    /\ draft' = [draft EXCEPT ![p] = IF @ = NoEntry THEN NextRow(log, Fact(job[p])) ELSE @]
    /\ Goto(p, IF pc[p] = "head" THEN "commit" ELSE "audit")
    /\ UNCHANGED <<ledgerVars, job, owner, seen, marks, auditor, log>>

\* GetAuditHead, then InsertAuditEntry.  The primary key on seq would refuse a
\* row that another transaction has inserted: FreshHead shows that the lock
\* never lets it come to that.
ReadHead(p) ==
    /\ pc[p] = "head"
    /\ draft' = [draft EXCEPT ![p] = NextRow(log, Fact(job[p]))]
    /\ Goto(p, "commit")
    /\ UNCHANGED <<ledgerVars, job, owner, seen, marks, auditor, log>>

\* Leaving the transaction releases its locks.
Release(p) ==
    /\ Goto(p, "idle")
    /\ job' = [job EXCEPT ![p] = NoEntry]
    /\ owner' = [a \in Account |-> IF owner[a] = p THEN NoProc ELSE owner[a]]
    /\ seen' = [seen EXCEPT ![p] = Opening]
    /\ auditor' = IF auditor = p THEN NoProc ELSE auditor
    /\ draft' = [draft EXCEPT ![p] = NoEntry]

Commit(p) ==
    /\ pc[p] = "commit"
    /\ \/ /\ Posts(job[p])
          /\ journal' = journal \cup {job[p]}
          /\ balance' = ApplyToBalances(job[p].lines)
          /\ marks' = marks
       \/ /\ ~Posts(job[p])
          /\ marks' = marks \cup {job[p]}
          /\ UNCHANGED ledgerVars
    /\ log' = IF job[p].audited THEN Append(log, draft[p]) ELSE log
    /\ Release(p)

\* A refused posting (asset, funds, duplicate) or any failure: ROLLBACK.
Rollback(p) ==
    /\ pc[p] # "idle"
    /\ Release(p)
    /\ UNCHANGED <<ledgerVars, marks, log>>

\* The rollbacks the checks themselves ask for.
Refuse(p) ==
    LET e == job[p]
    IN  /\ \/ /\ pc[p] = "lock"
              /\ DOMAIN e.lines \subseteq Holds(p)
              /\ ~checkAccounts(e)
           \/ /\ pc[p] = "check"
              /\ \/ \E a \in DOMAIN e.lines : seen[p][a] + e.lines[a] < 0
                 \/ Taken(e)
        /\ Rollback(p)

Step(p) ==
    \/ LockNext(p)
    \/ ReadBalances(p)
    \/ Insert(p)
    \/ AuditLock(p)
    \/ ReadHead(p)
    \/ Commit(p)
    \/ Refuse(p)

Next == \E p \in Proc : (\E e \in Entries : Begin(p, e)) \/ Step(p) \/ Rollback(p)

\* Postgres runs every transaction that is not waiting, and grants a released
\* lock to those that queued for it, so nobody waits for it forever.
Spec == Init /\ [][Next]_vars /\ \A p \in Proc : SF_vars(Step(p))

(***************************************************************************)
(* Properties.                                                             *)
(***************************************************************************)
Label == {"idle", "lock", "check", "audit", "head", "commit"}

\* Every variable has its type.
TypeOK ==
    /\ journal \subseteq Entries
    /\ balance \in [Account -> Int]
    /\ pc \in [Proc -> Label]
    /\ job \in [Proc -> Entries \cup {NoEntry}]
    /\ owner \in [Account -> Proc \cup {NoProc}]
    /\ seen \in [Proc -> [Account -> Int]]
    /\ marks \subseteq Entries
    /\ auditor \in Proc \cup {NoProc}
    /\ DOMAIN draft = Proc

\* PostWithin, "either every row lands or none does" and the balance check
\* under the row locks: whatever the interleaving, each change of the ledger
\* is one whole posting that the balances and the journal of that very moment
\* accept, although they were read several steps earlier.
AtomicPosting == [][\E e \in Entries : PostWithin(e)]_ledgerVars

\* ErrInsufficientFunds: no interleaving of postings leaves an account below
\* zero, although each reads the balances before it writes.
Solvent == \A a \in Account : balance[a] >= 0

\* "Balanced is asset-blind": no interleaving of postings creates, destroys
\* or converts money; the total of every asset stays what it was.
Conserved ==
    \A s \in Range(AssetOf) :
        LET holders == {a \in Account : AssetOf[a] = s}
        IN  SumFunctionOnSet(balance, holders) = SumFunctionOnSet(Opening, holders)

\* "The fixed order (by id) is what prevents deadlocks": a transaction that
\* has begun always ends, whatever accounts, keys and audit lock it meets.
PostingsEnd == \A p \in Proc : pc[p] # "idle" ~> pc[p] = "idle"

\* AcquireAuditChainLock, "concurrent appenders can't both read the same head
\* and fork the chain": the row a transaction is about to commit still
\* continues the log as it is then, although the head was read earlier, and a
\* transaction that rolled back has left no gap.
FreshHead ==
    \A p \in Proc : pc[p] = "commit" /\ job[p].audited => draft[p] = NextRow(log, Fact(job[p]))

\* What the audited transactions have committed.
Audited == {e \in journal \cup marks : e.audited}

\* Append, "the log fails closed": the log passes Verify at every moment, and
\* it tells exactly what the audited transactions have committed, postings and
\* notes, each of them once, whatever others commit without a row in between.
ChainIntact ==
    /\ Verify(log, NoAnchor) = "ok"
    /\ {log[i].fact : i \in DOMAIN log} = {Fact(e) : e \in Audited}
    /\ \A i, j \in DOMAIN log : log[i].fact = log[j].fact => i = j

\* WithExpectedHead, "the ONLY anchor": against the head hash that the log has
\* at any moment, Verify reports every log that lacks a row, has rows out of
\* order, or has a fact rewritten, however the hashes after it were redone.
\* (Every log is one that some moment without open transactions has.)
TamperEvident ==
    (\A p \in Proc : pc[p] = "idle") =>
    \A rows \in Altered(log, {Fact(e) : e \in Entries}) :
        Verify(rows, GetAuditHead(log).hash) # "ok"
=============================================================================
