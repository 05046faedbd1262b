------------------------- MODULE LedgerPostingProofs ------------------------
(***************************************************************************)
(* Every ledger change is one accepted posting, for any number of callers, *)
(* accounts and entries.                                                   *)
(***************************************************************************)
EXTENDS LedgerPosting, Sums, TLAPS

(***************************************************************************)
(* The strengthening.  A transaction past its balance read holds the row   *)
(* locks of everything it touches, so what it read is still true; one that *)
(* has inserted its entry knows that it is funded and that its key is new, *)
(* in the journal and among the other open transactions.                   *)
(***************************************************************************)
Locked(p) ==
    pc[p] \in {"check", "audit", "head", "commit"} =>
        \A a \in DOMAIN job[p].lines : owner[a] = p /\ seen[p][a] = balance[a]

Accepted(p) == Inserted(p) => Funded(job[p]) /\ ~Taken(job[p])

IInv ==
    /\ TypeOK
    /\ Solvent
    /\ \A p \in Proc : pc[p] # "idle" => job[p] \in Entries
    /\ \A p \in Proc : Locked(p)
    /\ \A p \in Proc : Accepted(p)
    /\ \A p, q \in Proc : p # q /\ Inserted(p) /\ Inserted(q) => ~SameKey(job[p], job[q])

\* The initial state satisfies the strengthening: nobody has begun.
LEMMA InitIInv == Init => IInv
  BY PostingAssumption
  DEF Init, IInv, TypeOK, Solvent, Label, Locked, Accepted, Inserted

\* Applying lines to typed balances leaves typed balances.
LEMMA ApplyType ==
  ASSUME TypeOK, NEW e \in Entries
  PROVE  ApplyToBalances(e.lines) \in [Account -> Int]
  BY PostingAssumption DEF TypeOK, ApplyToBalances

\* Type correctness of every step.
LEMMA TypeStep == TypeOK /\ (\A p \in Proc : pc[p] # "idle" => job[p] \in Entries) /\ [Next]_vars => TypeOK'
  <1> SUFFICES ASSUME TypeOK, \A p \in Proc : pc[p] # "idle" => job[p] \in Entries, [Next]_vars
               PROVE  TypeOK'
    BY Zenon
  <1>1. CASE UNCHANGED vars
    BY <1>1, Zenon DEF TypeOK, vars, ledgerVars, postingVars, auditVars
  <1>2. ASSUME NEW p \in Proc, NEW e \in Entries, Begin(p, e)
        PROVE  TypeOK'
    BY <1>2, Zenon DEF TypeOK, Begin, Goto, Label, ledgerVars, auditVars
  <1>3. ASSUME NEW p \in Proc, LockNext(p)
        PROVE  TypeOK'
    <2>1. PICK a \in DOMAIN job[p].lines : owner' = [owner EXCEPT ![a] = p]
      BY <1>3, Zenon DEF LockNext
    <2> QED
      BY <1>3, <2>1, Zenon DEF TypeOK, LockNext, ledgerVars, auditVars
  <1>4. ASSUME NEW p \in Proc, ReadBalances(p)
        PROVE  TypeOK'
    BY <1>4, Zenon DEF TypeOK, ReadBalances, Goto, Label, ledgerVars, auditVars
  <1>5. ASSUME NEW p \in Proc, Insert(p)
        PROVE  TypeOK'
    BY <1>5, Zenon DEF TypeOK, Insert, Goto, Label, ledgerVars, auditVars
  <1>6. ASSUME NEW p \in Proc, AuditLock(p) \/ ReadHead(p)
        PROVE  TypeOK'
    BY <1>6, Zenon DEF TypeOK, AuditLock, ReadHead, Goto, Label, ledgerVars
  <1>7. ASSUME NEW p \in Proc, Commit(p)
        PROVE  TypeOK'
    <2>1. job[p] \in Entries
      BY <1>7, Zenon DEF Commit
    <2>2. balance' \in [Account -> Int]
      BY <1>7, <2>1, ApplyType, Zenon DEF Commit, ledgerVars, TypeOK
    <2>3. journal' \subseteq Entries /\ marks' \subseteq Entries
      BY <1>7, <2>1, Zenon DEF Commit, ledgerVars, TypeOK
    <2> QED
      BY <1>7, <2>2, <2>3, PostingAssumption DEF TypeOK, Commit, Release, Goto, Label
  <1>8. ASSUME NEW p \in Proc, Rollback(p)
        PROVE  TypeOK'
    BY <1>8, PostingAssumption DEF TypeOK, Rollback, Release, Goto, Label, ledgerVars
  <1> QED
    BY <1>1, <1>2, <1>3, <1>4, <1>5, <1>6, <1>7, <1>8, Zenon DEF Next, Step, Refuse

\* Every step keeps the strengthening.  Only Commit changes the ledger, and
\* only where the committing transaction holds the locks.
LEMMA IInvStep == IInv /\ [Next]_vars => IInv'
  <1> SUFFICES ASSUME IInv, [Next]_vars
               PROVE  IInv'
    BY Zenon
  <1>0. TypeOK'
    BY TypeStep, Zenon DEF IInv
  <1>1. CASE UNCHANGED vars
    BY <1>0, <1>1
    DEF IInv, vars, ledgerVars, postingVars, auditVars, Solvent, Locked, Accepted, Inserted,
        Funded, Duplicate, Taken
  <1>2. ASSUME NEW p \in Proc, NEW e \in Entries, Begin(p, e)
        PROVE  IInv'
    <2>1. /\ journal' = journal /\ balance' = balance
          /\ marks' = marks /\ owner' = owner /\ seen' = seen
          /\ \A q \in Proc \ {p} : pc'[q] = pc[q] /\ job'[q] = job[q]
          /\ job'[p] = e
          /\ pc'[p] = "lock" \/ (pc'[p] = "check" /\ DOMAIN e.lines = {})
      BY <1>2, Zenon DEF IInv, TypeOK, Begin, Goto, Posts, ledgerVars
    <2>2. ~Inserted(p)' /\ Locked(p)'
      BY <2>1, Zenon DEF Inserted, Locked
    <2>3. ASSUME NEW q \in Proc \ {p}
          PROVE  Locked(q)' /\ Accepted(q)' /\ (Inserted(q)' => Inserted(q))
      <3>1. pc'[q] = pc[q] /\ job'[q] = job[q]
        BY <2>1, <2>3, Zenon
      <3>2. Locked(q)'
        <4>1. Locked(q)
          BY <2>3, Zenon DEF IInv
        <4> QED
          BY <2>1, <3>1, <4>1 DEF Locked
      <3>3. Funded(job[q])' = Funded(job[q]) /\ Taken(job[q])' = Taken(job[q])
        BY <2>1, <3>1 DEF Funded, Duplicate, Taken, SameKey
      <3> QED
        BY <2>3, <3>1, <3>2, <3>3, Zenon DEF IInv, Accepted, Inserted
    <2>4. \A q \in Proc : Locked(q)' /\ Accepted(q)'
      BY <2>2, <2>3, Zenon DEF Accepted
    <2> QED
      BY <1>0, <2>1, <2>2, <2>3, <2>4, Zenon DEF IInv, ledgerVars, Solvent, SameKey
  <1>3. ASSUME NEW p \in Proc, LockNext(p)
        PROVE  IInv'
    <2>1. \A q \in Proc : Locked(q)'
      BY <1>3, PostingAssumption DEF IInv, TypeOK, LockNext, ledgerVars, Locked
    <2> QED
      BY <1>0, <1>3, <2>1, Zenon
      DEF IInv, LockNext, ledgerVars, Solvent, Accepted, Inserted, Funded, Duplicate, Taken
  <1>4. ASSUME NEW p \in Proc, ReadBalances(p)
        PROVE  IInv'
    <2>1. \A q \in Proc : Locked(q)'
      BY <1>4, PostingAssumption
      DEF IInv, TypeOK, ReadBalances, Goto, Holds, ledgerVars, Locked
    <2> QED
      BY <1>0, <1>4, <2>1, Zenon
      DEF IInv, TypeOK, ReadBalances, Goto, ledgerVars, Solvent, Accepted, Inserted,
          Funded, Duplicate, Taken
  <1>5. ASSUME NEW p \in Proc, Insert(p)
        PROVE  IInv'
    <2>1. Funded(job[p]) /\ ~Taken(job[p])
      BY <1>5, Zenon DEF IInv, Insert, Locked, Funded
    <2>2. \A q \in Proc : Accepted(q)'
      BY <1>5, <2>1
      DEF IInv, TypeOK, Insert, Goto, ledgerVars, Accepted, Inserted, Funded, Duplicate, Taken
    <2>3. \A q \in Proc : Locked(q)'
      BY <1>5 DEF IInv, TypeOK, Insert, Goto, ledgerVars, Locked
    <2> QED
      BY <1>0, <1>5, <2>2, <2>3
      DEF IInv, TypeOK, Insert, Goto, ledgerVars, Solvent, Inserted, SameKey
  <1>6. ASSUME NEW p \in Proc, AuditLock(p) \/ ReadHead(p)
        PROVE  IInv'
    <2>1. /\ ledgerVars' = ledgerVars /\ job' = job /\ owner' = owner /\ seen' = seen
          /\ marks' = marks /\ Inserted(p)
          /\ \A q \in Proc \ {p} : pc'[q] = pc[q]
          /\ pc'[p] \in {"head", "commit"}
      BY <1>6, Zenon DEF IInv, TypeOK, AuditLock, ReadHead, Goto, Inserted
    <2>2. \A q \in Proc : Locked(q)' /\ Accepted(q)'
      BY <2>1 DEF IInv, ledgerVars, Locked, Accepted, Inserted, Funded, Duplicate, Taken
    <2> QED
      BY <1>0, <2>1, <2>2 DEF IInv, ledgerVars, Solvent, Inserted, SameKey
  <1>7. ASSUME NEW p \in Proc, Commit(p)
        PROVE  IInv'
    <2>1. /\ job[p] \in Entries
          /\ \A a \in DOMAIN job[p].lines : owner[a] = p
          /\ Funded(job[p])
          /\ Inserted(p)
      BY <1>7, Zenon DEF IInv, Commit, Locked, Accepted, Inserted
    <2>2. \A a \in Account : owner[a] # p => balance'[a] = balance[a]
      BY <1>7, <2>1, Zenon DEF Commit, ApplyToBalances, ledgerVars
    <2>3. Solvent'
      BY <1>7, <2>1, Zenon DEF IInv, Commit, ApplyToBalances, ledgerVars, Solvent, Funded
    <2>4. \A q \in Proc : pc'[q] # "idle" => q # p /\ pc'[q] = pc[q] /\ job'[q] = job[q] /\ seen'[q] = seen[q]
      BY <1>7, Zenon DEF IInv, TypeOK, Commit, Release, Goto
    <2>5. \A q \in Proc : Locked(q)'
      <3> SUFFICES ASSUME NEW q \in Proc, pc'[q] \in {"check", "audit", "head", "commit"},
                          NEW a \in DOMAIN job'[q].lines
                   PROVE  owner'[a] = q /\ seen'[q][a] = balance'[a]
        BY Zenon DEF Locked
      <3>1. q # p /\ pc[q] = pc'[q] /\ job'[q] = job[q] /\ seen'[q] = seen[q]
        BY <2>4, Zenon
      <3>2. a \in Account /\ owner[a] = q /\ seen[q][a] = balance[a]
        BY <3>1, PostingAssumption DEF IInv, Locked
      <3> QED
        BY <1>7, <2>2, <3>1, <3>2, Zenon DEF Commit, Release
    <2>6. \A q \in Proc : Accepted(q)'
      <3> SUFFICES ASSUME NEW q \in Proc, Inserted(q)'
                   PROVE  Funded(job[q])' /\ ~Taken(job[q])'
        BY Zenon DEF Accepted
      <3>1. q # p /\ pc[q] = pc'[q] /\ job'[q] = job[q] /\ Inserted(q)
        BY <2>4, Zenon DEF Inserted
      <3>2. /\ job[q] \in Entries
            /\ \A a \in DOMAIN job[q].lines : a \in Account /\ owner[a] = q
            /\ Funded(job[q]) /\ ~Taken(job[q])
        BY <3>1, PostingAssumption, Zenon DEF IInv, Locked, Accepted, Inserted
      <3>3. Funded(job[q])'
        BY <2>2, <3>1, <3>2, Zenon DEF Funded
      <3>4. ~SameKey(job[p], job[q])
        BY <2>1, <3>1, Zenon DEF IInv
      <3>5. ~Taken(job[q])'
        BY <1>7, <3>1, <3>2, <3>4, Zenon DEF Commit, ledgerVars, Taken, Duplicate, SameKey
      <3> QED
        BY <3>3, <3>5, Zenon
    <2> QED
      BY <1>0, <2>3, <2>4, <2>5, <2>6 DEF IInv, Inserted, SameKey
  <1>8. ASSUME NEW p \in Proc, Rollback(p)
        PROVE  IInv'
    <2>1. \A q \in Proc : Locked(q)'
      BY <1>8, PostingAssumption DEF IInv, TypeOK, Rollback, Release, Goto, ledgerVars, Locked
    <2> QED
      BY <1>0, <1>8, <2>1
      DEF IInv, TypeOK, Rollback, Release, Goto, ledgerVars, Solvent, Accepted, Inserted,
          Funded, Duplicate, Taken
  <1> QED
    BY <1>1, <1>2, <1>3, <1>4, <1>5, <1>6, <1>7, <1>8, Zenon DEF Next, Step, Refuse

\* Every step that changes the ledger is one posting the ledger accepts.
LEMMA StepIsPosting == IInv /\ [Next]_vars => [\E e \in Entries : PostWithin(e)]_ledgerVars
  <1> SUFFICES ASSUME IInv, [Next]_vars, ~UNCHANGED ledgerVars
               PROVE  \E e \in Entries : PostWithin(e)
    BY Zenon
  <1>1. PICK p \in Proc : Commit(p) /\ Posts(job[p])
    BY Zenon DEF Commit, Next, Step, Refuse, Rollback, Begin, LockNext, ReadBalances, Insert, AuditLock,
           ReadHead, vars
  <1>2. job[p] \in Entries /\ Accepts(job[p])
    BY <1>1, Zenon DEF IInv, Commit, Accepted, Accepts, Taken, Inserted
  <1> QED
    BY <1>1, <1>2, Zenon DEF Commit, PostWithin

\* The invariant holds throughout every behaviour.
THEOREM Invariance == Spec => []IInv
  BY InitIInv, IInvStep, PTL DEF Spec

\* No interleaving of transactions breaks the types.
THEOREM TypeCorrect == Spec => []TypeOK
  BY Invariance, PTL DEF IInv

\* No account is ever below zero, however many transactions race for it.
THEOREM NeverOverdrawn == Spec => []Solvent
  BY Invariance, PTL DEF IInv

\* The locking transactions implement the atomic ledger.
THEOREM ImplementsLedger == Spec => AtomicPosting
  BY Invariance, StepIsPosting, PTL DEF Spec, AtomicPosting

(***************************************************************************)
(* Conservation.  What is posted has passed Balanced before its            *)
(* transaction began, and checkAccounts under the locks: its lines sum to  *)
(* zero and lie within one asset.                                          *)
(***************************************************************************)
Vetted(p) ==
    /\ pc[p] # "idle" => Balanced(job[p])
    /\ pc[p] \in {"check", "audit", "head", "commit"} => checkAccounts(job[p])

\* Lines that sum to zero within one asset change the total of no asset.
LEMMA PostingConserves ==
  ASSUME TypeOK, NEW e \in Entries, Balanced(e), checkAccounts(e),
         balance' = ApplyToBalances(e.lines), NEW s
  PROVE  LET holders == {a \in Account : AssetOf[a] = s}
         IN  SumFunctionOnSet(balance', holders) = SumFunctionOnSet(balance, holders)
  <1> DEFINE holders == {a \in Account : AssetOf[a] = s}
             lines == e.lines
             change == [a \in Account |-> IF a \in DOMAIN lines THEN lines[a] ELSE 0]
  <1>1. /\ DOMAIN lines \subseteq Account /\ \A a \in DOMAIN lines : lines[a] \in Int
        /\ IsFiniteSet(holders) /\ holders \subseteq Account
    <2>1. holders \in SUBSET Account
      BY Zenon
    <2>2. IsFiniteSet(holders)
      BY <2>1, FS_Subset, PostingAssumption, Zenon
    <2> QED
      BY <2>1, <2>2, PostingAssumption, Zenon
  <1>2. /\ SumFunctionOnSet(lines, DOMAIN lines) = 0
        /\ SumFunctionOnSet(lines, {}) = 0
    BY <1>1, SumUnfold, Zenon DEF Balanced, SumFunction
  <1>3. \A a \in holders : balance[a] \in Int /\ change[a] \in Int /\ balance'[a] = balance[a] + change[a]
    BY <1>1 DEF TypeOK, ApplyToBalances
  <1>4. \A a \in holders : change[a] = IF a \in DOMAIN lines THEN lines[a] ELSE 0
    BY <1>1, Zenon
  <1>5. DOMAIN lines \subseteq holders \/ DOMAIN lines \cap holders = {}
    BY <1>1, Zenon DEF checkAccounts
  <1> HIDE DEF holders, lines, change
  <1>6. SumFunctionOnSet(change, holders) = 0
    <2>1. CASE DOMAIN lines \subseteq holders
      <3>1. SumFunctionOnSet(change, holders) = SumFunctionOnSet(lines, DOMAIN lines)
        <4>1. \A a \in DOMAIN lines : lines[a] \in Int /\ change[a] = lines[a]
          BY <1>1, <1>4, <2>1, Zenon
        <4>2. \A a \in holders \ DOMAIN lines : change[a] = 0
          BY <1>4, Zenon
        <4> QED
          BY <1>1, <2>1, <4>1, <4>2, SumExtend
      <3> QED
        BY <1>2, <3>1, Zenon
    <2>2. CASE DOMAIN lines \cap holders = {}
      <3>1. SumFunctionOnSet(change, holders) = SumFunctionOnSet(lines, {})
        <4>1. \A a \in holders \ {} : change[a] = 0
          BY <1>4, <2>2, Zenon
        <4> QED
          BY <1>1, <4>1, SumExtend
      <3> QED
        BY <1>2, <3>1, Zenon
    <2> QED
      BY <1>5, <2>1, <2>2, Zenon
  <1>7. SumFunctionOnSet(balance', holders) = SumFunctionOnSet(balance, holders) + SumFunctionOnSet(change, holders)
    BY <1>1, <1>3, SumPlus
  <1>8. SumFunctionOnSet(balance, holders) \in Int
    BY <1>1, <1>3, SumInt
  <1>9. SumFunctionOnSet(balance', holders) = SumFunctionOnSet(balance, holders)
    BY <1>6, <1>7, <1>8
  <1> QED
    BY <1>9, Zenon DEF holders

\* A transaction keeps its entry until it ends, and begins and passes its
\* locks only with one that meets the checks.
LEMMA VettedStep ==
  ASSUME IInv, [Next]_vars, NEW p \in Proc, Vetted(p)
  PROVE  Vetted(p)'
  <1>1. CASE UNCHANGED vars
    BY <1>1, Zenon DEF Vetted, vars, postingVars
  <1>2. ASSUME NEW q \in Proc, NEW e \in Entries, Begin(q, e)
        PROVE  Vetted(p)'
    BY <1>2, Zenon DEF Vetted, Begin, Goto, Posts, checkAccounts, IInv, TypeOK
  <1>3. ASSUME NEW q \in Proc, LockNext(q)
        PROVE  Vetted(p)'
    BY <1>3, Zenon DEF Vetted, LockNext
  <1>4. ASSUME NEW q \in Proc, ReadBalances(q)
        PROVE  Vetted(p)'
    BY <1>4, Zenon DEF Vetted, ReadBalances, Goto, IInv, TypeOK
  <1>5. ASSUME NEW q \in Proc, Insert(q) \/ AuditLock(q) \/ ReadHead(q)
        PROVE  Vetted(p)'
    BY <1>5, Zenon DEF Vetted, Insert, AuditLock, ReadHead, Goto, IInv, TypeOK
  <1>6. ASSUME NEW q \in Proc, Release(q)
        PROVE  Vetted(p)'
    BY <1>6, Zenon DEF Vetted, Release, Goto, IInv, TypeOK
  <1> QED
    BY <1>1, <1>2, <1>3, <1>4, <1>5, <1>6, Zenon DEF Next, Step, Refuse, Commit, Rollback

\* Only a commit changes balances.
LEMMA ConservedStep ==
  ASSUME IInv, [Next]_vars, \A p \in Proc : Vetted(p), Conserved
  PROVE  Conserved'
  <1>1. CASE UNCHANGED balance
    BY <1>1, Zenon DEF Conserved
  <1>2. ASSUME NEW p \in Proc, Commit(p), Posts(job[p])
        PROVE  Conserved'
    <2>1. /\ TypeOK /\ job[p] \in Entries /\ Balanced(job[p]) /\ checkAccounts(job[p])
          /\ balance' = ApplyToBalances(job[p].lines)
      BY <1>2, Zenon DEF Commit, IInv, Vetted
    <2> QED
      BY <2>1, PostingConserves, Zenon DEF Conserved
  <1> QED
    BY <1>1, <1>2, Zenon
    DEF Next, Step, Refuse, Rollback, Begin, LockNext, ReadBalances, Insert, AuditLock, ReadHead,
        Commit, vars, ledgerVars

\* Whatever is posted, and however the postings interleave, no asset gains or
\* loses, and none is converted into another.
THEOREM MoneyConserved == Spec => []Conserved
  <1>1. Init => (\A p \in Proc : Vetted(p)) /\ Conserved
    BY Zenon DEF Init, Vetted, Conserved
  <1>2. IInv /\ [Next]_vars /\ (\A p \in Proc : Vetted(p)) /\ Conserved
        => ((\A p \in Proc : Vetted(p)) /\ Conserved)'
    BY VettedStep, ConservedStep, Zenon
  <1> QED
    BY <1>1, <1>2, Invariance, PTL DEF Spec

(***************************************************************************)
(* The audit log.  The advisory lock is held from before the head is read  *)
(* until the transaction ends, so the head a transaction has read is still *)
(* the head when it commits, and every row continues the one before it.    *)
(***************************************************************************)
Chained(i) ==
    /\ log[i].seq = i
    /\ log[i].prev = IF i = 1 THEN Genesis ELSE log[i-1].hash
    /\ log[i].hash = entryHash(log[i].prev, log[i].seq, log[i].fact)

IsRow(r) == r = [seq |-> r.seq, prev |-> r.prev, fact |-> r.fact, hash |-> r.hash]

\* p is between taking the audit lock and its end.
Writes(p) == pc[p] = "head" \/ (pc[p] = "commit" /\ job[p].audited)

AuditInv ==
    /\ draft = [p \in Proc |-> draft[p]]
    /\ \E S : log \in Seq(S)
    /\ \A i \in 1 .. Len(log) : IsRow(log[i])
    /\ \A i \in 1 .. Len(log) : Chained(i)
    /\ \A i, j \in 1 .. Len(log) : log[i].fact = log[j].fact => i = j
    /\ {log[i].fact : i \in 1 .. Len(log)} = {Fact(e) : e \in Audited}
    /\ \A p \in Proc : pc[p] \in {"audit", "head"} => job[p].audited
    /\ \A p \in Proc : Writes(p) => auditor = p
    /\ FreshHead

\* Appending a row to a log keeps the rows it has.
LEMMA Appended ==
  ASSUME NEW S, NEW s \in Seq(S), NEW row
  PROVE  /\ \E T : Append(s, row) \in Seq(T)
         /\ Len(Append(s, row)) = Len(s) + 1
         /\ Len(s) \in Nat
         /\ Append(s, row)[Len(s) + 1] = row
         /\ \A i \in 1 .. Len(s) : Append(s, row)[i] = s[i]
  <1>1. s \in Seq(S \cup {row}) /\ row \in S \cup {row}
    OBVIOUS
  <1>2. Append(s, row) \in Seq(S \cup {row})
    BY <1>1
  <1> QED
    BY <1>2

\* At the start the log is empty.
LEMMA AuditInit == Init => AuditInv
  <1> SUFFICES ASSUME Init
               PROVE  AuditInv
    BY Zenon
  <1>1. log = <<>> /\ Len(log) = 0 /\ log \in Seq({}) /\ journal = {} /\ marks = {}
    BY DEF Init
  <1>2. \A p \in Proc : pc[p] = "idle"
    BY Zenon DEF Init
  <1>3. Audited = {} /\ 1 .. Len(log) = {}
    BY <1>1 DEF Audited
  <1>4. draft = [p \in Proc |-> draft[p]] /\ \E S : log \in Seq(S)
    BY <1>1, Zenon DEF Init
  <1> QED
    BY <1>2, <1>3, <1>4, Zenon DEF AuditInv, FreshHead, Writes

\* What a commit adds to what is committed, and which transactions go on.
LEMMA CommitAdds ==
  ASSUME IInv, AuditInv, NEW p \in Proc, Commit(p)
  PROVE  /\ journal' \cup marks' = (journal \cup marks) \cup {job[p]}
         /\ ~Taken(job[p])
         /\ draft' = [q \in Proc |-> draft'[q]]
         /\ \A q \in Proc \ {p} : pc'[q] = pc[q] /\ job'[q] = job[q] /\ draft'[q] = draft[q]
         /\ pc'[p] = "idle"
         /\ auditor # p => auditor' = auditor
  <1>1. journal' \cup marks' = (journal \cup marks) \cup {job[p]}
    BY DEF Commit, ledgerVars
  <1>2. ~Taken(job[p])
    BY Zenon DEF Commit, IInv, Accepted, Inserted
  <1>3. draft' = [q \in Proc |-> draft'[q]]
    BY Zenon DEF Commit, Release, AuditInv
  <1> QED
    BY <1>1, <1>2, <1>3, Zenon DEF Commit, Release, Goto, IInv, TypeOK, AuditInv

\* A committing audited transaction extends the chain by a row that continues it.
LEMMA AuditCommit ==
  ASSUME IInv, AuditInv, NEW p \in Proc, Commit(p), job[p].audited
  PROVE  AuditInv'
  <1> DEFINE row == draft[p]
             n == Len(log)
  <1>1. /\ log' = Append(log, row)
        /\ row = NextRow(log, Fact(job[p]))
        /\ journal' \cup marks' = (journal \cup marks) \cup {job[p]}
        /\ ~Taken(job[p])
    BY CommitAdds, Zenon DEF Commit, AuditInv, FreshHead
  <1>2. PICK S : log \in Seq(S)
    BY Zenon DEF AuditInv
  <1>3. /\ \E T : log' \in Seq(T)
        /\ Len(log') = n + 1
        /\ n \in Nat
        /\ log'[n + 1] = row
        /\ \A i \in 1 .. n : log'[i] = log[i]
    <2>1. /\ \E T : Append(log, row) \in Seq(T)
          /\ Len(Append(log, row)) = n + 1
          /\ n \in Nat
          /\ Append(log, row)[n + 1] = row
          /\ \A i \in 1 .. n : Append(log, row)[i] = log[i]
      BY <1>2, Appended
    <2> QED
      BY <1>1, <2>1, Zenon
  <1>4. /\ GetAuditHead(log).seq = n
        /\ GetAuditHead(log).hash = IF n = 0 THEN Genesis ELSE log[n].hash
    BY <1>2, <1>3 DEF GetAuditHead, AuditInv, Chained
  <1>5. /\ row.seq = n + 1
        /\ row.prev = IF n = 0 THEN Genesis ELSE log[n].hash
        /\ row.fact = Fact(job[p])
        /\ row.hash = entryHash(row.prev, row.seq, row.fact)
    BY <1>1, <1>4 DEF NextRow
  <1>a. \A i \in 1 .. Len(log') : IsRow(log'[i])
    <2>1. IsRow(row)
      BY <1>1 DEF IsRow, NextRow
    <2>2. \A i \in 1 .. n : IsRow(log[i])
      BY Zenon DEF AuditInv
    <2>3. \A i \in 1 .. Len(log') : i \in 1 .. n \/ i = n + 1
      BY <1>3
    <2> QED
      BY <1>3, <2>1, <2>2, <2>3, Zenon
  <1>6. \A i \in 1 .. Len(log') : Chained(i)'
    <2> SUFFICES ASSUME NEW i \in 1 .. n + 1
                 PROVE  Chained(i)'
      BY <1>3, Zenon
    <2>1. CASE i = n + 1
      BY <1>3, <1>5, <2>1 DEF Chained
    <2>2. CASE i # n + 1
      <3>1. i \in 1 .. n /\ (i # 1 => i - 1 \in 1 .. n)
        BY <1>3, <2>2
      <3> QED
        BY <1>3, <3>1 DEF AuditInv, Chained
    <2> QED
      BY <2>1, <2>2, Zenon
  <1>7. \A i \in 1 .. n : log[i].fact # row.fact
    <2> SUFFICES ASSUME NEW i \in 1 .. n, log[i].fact = Fact(job[p])
                 PROVE  FALSE
      BY <1>5, Zenon
    <2>0. {log[j].fact : j \in 1 .. n} = {Fact(e) : e \in Audited}
      BY Zenon DEF AuditInv
    <2>1. PICK e \in Audited : Fact(e) = Fact(job[p])
      BY <2>0, Zenon
    <2>2. e.kind = job[p].kind /\ e.ref = job[p].ref /\ e \in journal \cup marks
      BY <2>1, Zenon DEF Fact, Audited
    <2> QED
      BY <1>1, <2>2, Zenon DEF Taken, Duplicate, SameKey
  <1>8. \A i, j \in 1 .. Len(log') : log'[i].fact = log'[j].fact => i = j
    <2> SUFFICES ASSUME NEW i \in 1 .. n + 1, NEW j \in 1 .. n + 1, log'[i].fact = log'[j].fact
                 PROVE  i = j
      BY <1>3, Zenon
    <2>1. (i \in 1 .. n \/ i = n + 1) /\ (j \in 1 .. n \/ j = n + 1)
      BY <1>3
    <2> QED
      BY <1>3, <1>7, <2>1, Zenon DEF AuditInv
  <1>9. {log'[i].fact : i \in 1 .. Len(log')} = {Fact(e) : e \in Audited'}
    <2>1. {log'[i].fact : i \in 1 .. n + 1} = {log[i].fact : i \in 1 .. n} \cup {row.fact}
      BY <1>3
    <2>0. Audited' = Audited \cup {job[p]}
      BY <1>1, Zenon DEF Audited
    <2>2. {Fact(e) : e \in Audited'} = {Fact(e) : e \in Audited} \cup {Fact(job[p])}
      BY <2>0, Zenon
    <2>3. {log[i].fact : i \in 1 .. n} = {Fact(e) : e \in Audited}
      BY Zenon DEF AuditInv
    <2>4. 1 .. Len(log') = 1 .. n + 1
      BY <1>3, Zenon
    <2> QED
      BY <1>5, <2>1, <2>2, <2>3, <2>4, Zenon
  <1>10. \A q \in Proc : ~Writes(q)' /\ (pc'[q] \in {"audit", "head"} => job'[q].audited)
    <2>1. \A q \in Proc : Writes(q) => q = p
      BY Zenon DEF AuditInv, Writes, Commit
    <2> QED
      BY <2>1, CommitAdds, Zenon DEF AuditInv, Writes
  <1>11. draft' = [q \in Proc |-> draft'[q]]
    BY CommitAdds, Zenon
  <1> QED
    BY <1>3, <1>a, <1>6, <1>8, <1>9, <1>10, <1>11, Zenon DEF AuditInv, FreshHead, Writes

\* The steps that leave the log alone: they keep every fact about the rows,
\* and a transaction between its lock and its end keeps the lock and the row.
LEMMA AuditKept ==
  ASSUME IInv, AuditInv, log' = log, Audited' = Audited,
         draft' = [q \in Proc |-> draft'[q]],
         \A q \in Proc : pc'[q] \in {"audit", "head"} => job'[q].audited,
         \A q \in Proc : Writes(q)' => auditor' = q,
         \A q \in Proc : pc'[q] = "commit" /\ job'[q].audited => draft'[q] = NextRow(log, Fact(job'[q]))
  PROVE  AuditInv'
  <1>1. \A i \in 1 .. Len(log') : Chained(i)'
    BY Zenon DEF AuditInv, Chained
  <1>2. /\ \E S : log' \in Seq(S)
        /\ \A i \in 1 .. Len(log') : IsRow(log'[i])
        /\ \A i, j \in 1 .. Len(log') : log'[i].fact = log'[j].fact => i = j
    BY Zenon DEF AuditInv
  <1>3. {log'[i].fact : i \in 1 .. Len(log')} = {Fact(e) : e \in Audited'}
    BY Zenon DEF AuditInv
  <1>4. FreshHead'
    BY Zenon DEF FreshHead
  <1> QED
    BY <1>1, <1>2, <1>3, <1>4, Zenon DEF AuditInv

\* A step that leaves the audit variables alone, and takes nobody to the end of
\* an audited transaction.
LEMMA AuditApart ==
  ASSUME IInv, AuditInv, UNCHANGED <<journal, marks, auditVars>>,
         \A q \in Proc : pc'[q] \in {"audit", "head"} => job'[q].audited,
         \A q \in Proc : Writes(q)' => pc'[q] = pc[q] /\ job'[q] = job[q]
  PROVE  AuditInv'
  <1>1. log' = log /\ draft' = draft /\ auditor' = auditor /\ Audited' = Audited
    BY Zenon DEF auditVars, Audited
  <1>2. \A q \in Proc : Writes(q)' => auditor' = q
    BY <1>1, Zenon DEF AuditInv, Writes
  <1>3. \A q \in Proc : pc'[q] = "commit" /\ job'[q].audited => draft'[q] = NextRow(log, Fact(job'[q]))
    BY <1>1, Zenon DEF AuditInv, FreshHead, Writes
  <1>4. draft' = [q \in Proc |-> draft'[q]]
    BY <1>1, Zenon DEF AuditInv
  <1> QED
    BY <1>1, <1>2, <1>3, <1>4, AuditKept, Zenon

\* Every step keeps the chain.
LEMMA AuditStep == IInv /\ AuditInv /\ [Next]_vars => AuditInv'
  <1> SUFFICES ASSUME IInv, AuditInv, [Next]_vars
               PROVE  AuditInv'
    BY Zenon
  <1>0. /\ pc \in [Proc -> Label] /\ job \in [Proc -> Entries \cup {NoEntry}]
        /\ \A q \in Proc : pc[q] \in {"audit", "head"} => job[q].audited
    BY Zenon DEF IInv, TypeOK, AuditInv
  <1>1. CASE UNCHANGED vars
    <2>1. UNCHANGED <<journal, marks, auditVars, pc, job>>
      BY <1>1, Zenon DEF vars, ledgerVars, postingVars
    <2> QED
      BY <1>0, <2>1, AuditApart, Zenon
  <1>2. ASSUME NEW p \in Proc, NEW e \in Entries, Begin(p, e)
        PROVE  AuditInv'
    <2>1. /\ UNCHANGED <<journal, marks, auditVars>> /\ pc'[p] \in {"lock", "check"}
          /\ \A q \in Proc \ {p} : pc'[q] = pc[q] /\ job'[q] = job[q]
      BY <1>0, <1>2, Zenon DEF Begin, Goto, ledgerVars
    <2> QED
      BY <1>0, <2>1, AuditApart, Zenon DEF Writes
  <1>3. ASSUME NEW p \in Proc, LockNext(p)
        PROVE  AuditInv'
    <2>1. UNCHANGED <<journal, marks, auditVars, pc, job>>
      BY <1>3, Zenon DEF LockNext, ledgerVars
    <2> QED
      BY <1>0, <2>1, AuditApart, Zenon
  <1>4. ASSUME NEW p \in Proc, ReadBalances(p) \/ Insert(p)
        PROVE  AuditInv'
    <2>1. /\ UNCHANGED <<journal, marks, auditVars, job>>
          /\ \/ pc'[p] = "check"
             \/ pc'[p] = "audit" /\ job[p].audited
             \/ pc'[p] = "commit" /\ ~job[p].audited
          /\ \A q \in Proc \ {p} : pc'[q] = pc[q]
      BY <1>0, <1>4, Zenon DEF ReadBalances, Insert, Goto, ledgerVars
    <2> QED
      BY <1>0, <2>1, AuditApart, Zenon DEF Writes
  <1>5. ASSUME NEW p \in Proc, AuditLock(p)
        PROVE  AuditInv'
    <2>1. /\ log' = log /\ draft' = draft /\ Audited' = Audited /\ job' = job
          /\ pc[p] = "audit" /\ pc'[p] = "head" /\ auditor = NoProc /\ auditor' = p
          /\ \A q \in Proc \ {p} : pc'[q] = pc[q]
      BY <1>0, <1>5, Zenon DEF AuditLock, Goto, ledgerVars, Audited
    <2>2. \A q \in Proc : ~Writes(q)
      BY <2>1, PostingAssumption, Zenon DEF AuditInv
    <2>3. \A q \in Proc : Writes(q)' => q = p
      BY <2>1, <2>2, Zenon DEF Writes
    <2>4. \A q \in Proc : ~(pc'[q] = "commit" /\ job'[q].audited)
      BY <2>1, <2>2, Zenon DEF Writes
    <2>5. draft' = [q \in Proc |-> draft'[q]]
      BY <2>1, Zenon DEF AuditInv
    <2> QED
      BY <1>0, <2>1, <2>3, <2>4, <2>5, AuditKept, Zenon
  <1>6. ASSUME NEW p \in Proc, ReadHead(p)
        PROVE  AuditInv'
    <2>1. /\ log' = log /\ Audited' = Audited /\ job' = job /\ auditor' = auditor
          /\ pc[p] = "head" /\ pc'[p] = "commit"
          /\ draft' = [draft EXCEPT ![p] = NextRow(log, Fact(job[p]))]
          /\ \A q \in Proc \ {p} : pc'[q] = pc[q]
      BY <1>0, <1>6, Zenon DEF ReadHead, Goto, ledgerVars, Audited
    <2>2. /\ draft' = [q \in Proc |-> draft'[q]]
          /\ draft'[p] = NextRow(log, Fact(job[p]))
          /\ \A q \in Proc \ {p} : draft'[q] = draft[q]
      BY <2>1, Zenon DEF AuditInv
    <2>3. \A q \in Proc : Writes(q)' => Writes(q)
      BY <1>0, <2>1, Zenon DEF Writes
    <2>4. \A q \in Proc : Writes(q)' => auditor' = q
      BY <2>1, <2>3, Zenon DEF AuditInv
    <2>5. \A q \in Proc : pc'[q] = "commit" /\ job'[q].audited => draft'[q] = NextRow(log, Fact(job'[q]))
      BY <2>1, <2>2, Zenon DEF AuditInv, FreshHead
    <2> QED
      BY <1>0, <2>1, <2>2, <2>4, <2>5, AuditKept, Zenon
  <1>7. ASSUME NEW p \in Proc, Commit(p)
        PROVE  AuditInv'
    <2>1. CASE job[p].audited
      BY <1>7, <2>1, AuditCommit, Zenon
    <2>2. CASE ~job[p].audited
      <3>1. log' = log /\ Audited' = Audited
        BY <1>7, <2>2, CommitAdds, Zenon DEF Commit, Audited
      <3>2. \A q \in Proc : Writes(q)' => q # p /\ Writes(q)
        BY <1>7, CommitAdds, Zenon DEF Writes
      <3>3. \A q \in Proc : Writes(q)' => auditor' = q
        BY <1>7, <3>2, CommitAdds, Zenon DEF AuditInv
      <3>4. \A q \in Proc : pc'[q] \in {"audit", "head"} => job'[q].audited
        BY <1>0, <1>7, CommitAdds, Zenon
      <3>5. \A q \in Proc : pc'[q] = "commit" /\ job'[q].audited => draft'[q] = NextRow(log, Fact(job'[q]))
        BY <1>7, CommitAdds, Zenon DEF AuditInv, FreshHead
      <3>6. draft' = [q \in Proc |-> draft'[q]]
        BY <1>7, CommitAdds, Zenon
      <3> QED
        BY <3>1, <3>3, <3>4, <3>5, <3>6, AuditKept, Zenon
    <2> QED
      BY <2>1, <2>2, Zenon
  <1>8. ASSUME NEW p \in Proc, Rollback(p)
        PROVE  AuditInv'
    <2>1. /\ log' = log /\ Audited' = Audited /\ pc'[p] = "idle"
          /\ draft' = [draft EXCEPT ![p] = NoEntry]
          /\ auditor # p => auditor' = auditor
          /\ \A q \in Proc \ {p} : pc'[q] = pc[q] /\ job'[q] = job[q]
      BY <1>0, <1>8, Zenon DEF Rollback, Release, Goto, ledgerVars, Audited
    <2>2. draft' = [q \in Proc |-> draft'[q]] /\ \A q \in Proc \ {p} : draft'[q] = draft[q]
      BY <2>1, Zenon DEF AuditInv
    <2>3. \A q \in Proc : Writes(q)' => q # p /\ Writes(q)
      BY <2>1, Zenon DEF Writes
    <2>4. \A q \in Proc : Writes(q)' => auditor' = q
      BY <2>1, <2>3, Zenon DEF AuditInv
    <2>5. \A q \in Proc : pc'[q] = "commit" /\ job'[q].audited => draft'[q] = NextRow(log, Fact(job'[q]))
      BY <2>1, <2>2, Zenon DEF AuditInv, FreshHead
    <2>6. \A q \in Proc : pc'[q] \in {"audit", "head"} => job'[q].audited
      BY <1>0, <2>1, Zenon
    <2> QED
      BY <2>1, <2>2, <2>4, <2>5, <2>6, AuditKept, Zenon
  <1> QED
    BY <1>1, <1>2, <1>3, <1>4, <1>5, <1>6, <1>7, <1>8, Zenon DEF Next, Step, Refuse

\* The walk of Verify finds no fault in a chained log.
LEMMA NoFault ==
  ASSUME AuditInv
  PROVE  DOMAIN log = 1 .. Len(log) /\ Len(log) \in Nat /\ \A i \in DOMAIN log : RowFault(log, i) = "ok"
  <1>1. PICK S : log \in Seq(S)
    BY Zenon DEF AuditInv
  <1>2. DOMAIN log = 1 .. Len(log) /\ Len(log) \in Nat
    BY <1>1
  <1>3. ASSUME NEW i \in DOMAIN log
        PROVE  RowFault(log, i) = "ok"
    <2>1. Chained(i) /\ i \in Nat /\ i >= 1
      BY <1>2 DEF AuditInv
    <2>2. i > 1 => Chained(i - 1)
      BY <1>2 DEF AuditInv
    <2>3. /\ ~(i = 1 /\ (log[i].seq # 1 \/ log[i].prev # Genesis))
          /\ ~(i > 1 /\ log[i].seq # log[i-1].seq + 1)
          /\ ~(i > 1 /\ log[i].prev # log[i-1].hash)
          /\ ~(log[i].hash # entryHash(log[i].prev, log[i].seq, log[i].fact))
      BY <2>1, <2>2 DEF Chained
    <2> QED
      BY <2>3, Zenon DEF RowFault
  <1> QED
    BY <1>2, <1>3, Zenon

\* So it passes Verify, and it tells what was audited.
LEMMA ChainedVerifies == AuditInv => ChainIntact
  <1> SUFFICES ASSUME AuditInv
               PROVE  ChainIntact
    BY Zenon
  <1>1. Verify(log, NoAnchor) = "ok"
    BY NoFault, Zenon DEF Verify
  <1> QED
    BY <1>1, NoFault, Zenon DEF AuditInv, ChainIntact

\* The audit facts hold throughout every behaviour.
THEOREM AuditInvariance == Spec => []AuditInv
  BY AuditInit, AuditStep, Invariance, PTL DEF Spec

\* No transaction ever commits an audit row built on a stale head.
THEOREM HeadsFresh == Spec => []FreshHead
  BY AuditInvariance, PTL DEF AuditInv

\* The audit log verifies at every moment and tells exactly the postings and
\* notes whose transactions audit them, each once, whatever else is committed.
THEOREM LogIntact == Spec => []ChainIntact
  BY AuditInvariance, ChainedVerifies, PTL

(***************************************************************************)
(* Tampering.  A log without a fault is determined by the hash of its last *)
(* row: the hash gives the row, and with it the hash of the row before.    *)
(***************************************************************************)
IsLog(rows) ==
    /\ DOMAIN rows = 1 .. Len(rows) /\ Len(rows) \in Nat
    /\ rows = [i \in 1 .. Len(rows) |-> rows[i]]
    /\ \A i \in 1 .. Len(rows) : IsRow(rows[i])

Faultless(rows) == \A i \in DOMAIN rows : RowFault(rows, i) = "ok"

\* A log that passes against an anchor has no fault and ends at the anchor.
LEMMA Passed ==
  ASSUME NEW rows, IsLog(rows), NEW anchor, anchor # NoAnchor, Verify(rows, anchor) = "ok"
  PROVE  Faultless(rows) /\ GetAuditHead(rows).hash = anchor
  <1> DEFINE faults == {i \in DOMAIN rows : RowFault(rows, i) # "ok"}
  <1>1. faults = {}
    <2> SUFFICES ASSUME faults # {} PROVE FALSE
      BY Zenon
    <2> DEFINE first == CHOOSE i \in faults : \A j \in faults : i <= j
    <2>1. faults \subseteq Nat
      BY DEF IsLog
    <2>2. first \in faults
      <3> HIDE DEF faults
      <3>1. \E i \in faults : \A j \in faults : i <= j
        BY <2>1, LeastNat, Zenon
      <3> QED
        BY <3>1, Zenon
    <2>3. Verify(rows, anchor) = RowFault(rows, first)
      BY Zenon DEF Verify
    <2> HIDE DEF first
    <2> QED
      BY <2>2, <2>3, Zenon
  <1>2. GetAuditHead(rows).hash = anchor
    BY <1>1, Zenon DEF Verify
  <1> QED
    BY <1>1, <1>2, Zenon DEF Faultless

\* A hash tells what was hashed, and is neither the genesis nor no anchor.
LEMMA HashTells ==
  /\ \A a, b, c : entryHash(a, b, c) # Genesis /\ entryHash(a, b, c) # NoAnchor
  /\ \A a, b, c, x, y, z : entryHash(a, b, c) = entryHash(x, y, z) => a = x /\ b = y /\ c = z
  BY DEF entryHash, Genesis, NoAnchor

\* Without a fault, the rows are numbered from one and each holds the hash of
\* the one before.
LEMMA Numbered ==
  ASSUME NEW rows, IsLog(rows), Faultless(rows)
  PROVE  \A i \in 1 .. Len(rows) :
           /\ rows[i].seq = i
           /\ rows[i].prev = IF i = 1 THEN Genesis ELSE rows[i-1].hash
           /\ rows[i].hash = entryHash(rows[i].prev, i, rows[i].fact)
  <1> DEFINE n == Len(rows)
             Bad == {i \in 1 .. n : rows[i].seq # i}
  <1>1. ASSUME NEW i \in 1 .. n
        PROVE  /\ i = 1 => rows[i].seq = 1 /\ rows[i].prev = Genesis
               /\ i > 1 => rows[i].seq = rows[i-1].seq + 1 /\ rows[i].prev = rows[i-1].hash
               /\ rows[i].hash = entryHash(rows[i].prev, rows[i].seq, rows[i].fact)
    <2>1. RowFault(rows, i) = "ok"
      BY Zenon DEF IsLog, Faultless
    <2> QED
      BY <2>1, Zenon DEF RowFault
  <1>2. n \in Nat
    BY Zenon DEF IsLog
  <1> HIDE DEF n
  <1>3. Bad = {}
    <2> SUFFICES ASSUME Bad # {} PROVE FALSE
      BY Zenon
    <2>1. Bad \subseteq Nat
      BY <1>2
    <2>2. PICK i \in Bad : \A j \in Bad : i <= j
      <3> HIDE DEF Bad
      <3> QED
        BY <2>1, LeastNat, Zenon
    <2>3. i \in 1 .. n /\ i > 1 /\ i - 1 \in 1 .. n /\ ~(i <= i - 1)
      BY <1>1, <1>2, <2>2
    <2>4. rows[i - 1].seq = i - 1
      BY <2>2, <2>3, Zenon
    <2>5. rows[i].seq = i
      BY <1>1, <2>3, <2>4
    <2> QED
      BY <2>2, <2>5, Zenon
  <1>4. \A i \in 1 .. n : i = 1 \/ i > 1
    BY <1>2
  <1> QED
    BY <1>1, <1>3, <1>4, Zenon DEF n

\* The last hash determines the log.
LEMMA HeadDetermines ==
  ASSUME NEW rows, IsLog(rows), Faultless(rows), NEW other, IsLog(other), Faultless(other),
         GetAuditHead(rows).hash = GetAuditHead(other).hash
  PROVE  rows = other
  <1> DEFINE n == Len(rows)
             m == Len(other)
  <1>1. /\ n \in Nat /\ m \in Nat
        /\ rows = [i \in 1 .. n |-> rows[i]] /\ other = [i \in 1 .. m |-> other[i]]
    BY Zenon DEF IsLog
  <1>2. /\ n = 0 => GetAuditHead(rows).hash = Genesis
        /\ n # 0 => GetAuditHead(rows).hash = rows[n].hash
        /\ m = 0 => GetAuditHead(other).hash = Genesis
        /\ m # 0 => GetAuditHead(other).hash = other[m].hash
    <2>1. ASSUME NEW w, IsLog(w)
          PROVE  /\ Len(w) = 0 => GetAuditHead(w).hash = Genesis
                 /\ Len(w) # 0 => GetAuditHead(w).hash = w[Len(w)].hash
      BY <2>1 DEF GetAuditHead, IsLog
    <2> QED
      BY <2>1, Zenon
  <1>3. /\ \A i \in 1 .. n : rows[i].seq = i /\ rows[i].hash = entryHash(rows[i].prev, i, rows[i].fact)
        /\ \A i \in 1 .. n : i # 1 => rows[i].prev = rows[i-1].hash
    BY Numbered
  <1>4. /\ \A i \in 1 .. m : other[i].seq = i /\ other[i].hash = entryHash(other[i].prev, i, other[i].fact)
        /\ \A i \in 1 .. m : i # 1 => other[i].prev = other[i-1].hash
    BY Numbered
  <1> HIDE DEF n, m
  <1>6. n = m
    <2>1. n # 0 => n \in 1 .. n
      BY <1>1
    <2>2. m # 0 => m \in 1 .. m
      BY <1>1
    <2>3. n # 0 => rows[n].hash # Genesis
      BY <1>3, <2>1, HashTells
    <2>4. m # 0 => other[m].hash # Genesis
      BY <1>4, <2>2, HashTells
    <2>5. n # 0 /\ m # 0 => n = m
      BY <1>2, <1>3, <1>4, <2>1, <2>2, HashTells
    <2> QED
      BY <1>2, <2>3, <2>4, <2>5, Zenon
  <1> DEFINE Bad == {k \in 0 .. n - 1 : rows[n - k].hash # other[n - k].hash}
  <1>7. Bad = {}
    <2> SUFFICES ASSUME Bad # {} PROVE FALSE
      BY Zenon
    <2>1. Bad \subseteq Nat
      BY <1>1
    <2>2. PICK k \in Bad : \A j \in Bad : k <= j
      <3> HIDE DEF Bad
      <3> QED
        BY <2>1, LeastNat, Zenon
    <2>3. k \in 0 .. n - 1 /\ n # 0
      BY <1>1
    <2>4. k # 0
      <3>1. rows[n].hash = other[n].hash
        BY <1>2, <1>6, <2>3, Zenon
      <3>2. n - 0 = n
        BY <1>1
      <3> QED
        BY <2>2, <3>1, <3>2, Zenon
    <2> DEFINE i == n - k + 1
    <2>5. /\ i \in 1 .. n /\ i # 1 /\ i - 1 = n - k
          /\ k - 1 \in 0 .. n - 1 /\ n - (k - 1) = i /\ ~(k <= k - 1)
      BY <1>1, <2>3, <2>4
    <2> HIDE DEF i
    <2>6. rows[i].hash = other[i].hash
      <3>1. k - 1 \notin Bad
        BY <2>2, <2>5, Zenon
      <3> QED
        BY <2>5, <3>1, Zenon
    <2>7. rows[i].prev = other[i].prev
      BY <1>3, <1>4, <1>6, <2>5, <2>6, HashTells
    <2>8. rows[n - k].hash = other[n - k].hash
      BY <1>3, <1>4, <1>6, <2>5, <2>7
    <2> QED
      BY <2>2, <2>8, Zenon
  <1>8. ASSUME NEW i \in 1 .. n
        PROVE  rows[i] = other[i]
    <2>1. n - i \in 0 .. n - 1 /\ n - (n - i) = i
      BY <1>1
    <2>2. rows[i].hash = other[i].hash
      BY <1>7, <2>1, Zenon
    <2>3. /\ rows[i].seq = other[i].seq /\ rows[i].prev = other[i].prev
          /\ rows[i].fact = other[i].fact
      BY <1>3, <1>4, <1>6, <2>2, HashTells
    <2>4. IsRow(rows[i]) /\ IsRow(other[i])
      BY <1>6, Zenon DEF IsLog, n, m
    <2> QED
      BY <2>2, <2>3, <2>4, Zenon DEF IsRow
  <1> QED
    BY <1>1, <1>6, <1>8, Zenon

\* A function on 1 .. n whose values are rows is a log.
LEMMA LogOfRows ==
  ASSUME NEW w, NEW n \in Nat, w = [i \in 1 .. n |-> w[i]], \A i \in 1 .. n : IsRow(w[i])
  PROVE  IsLog(w) /\ Len(w) = n
  <1> DEFINE S == {w[i] : i \in 1 .. n}
  <1>1. w \in [1 .. n -> S]
    BY Zenon
  <1> HIDE DEF S
  <1>2. w \in Seq(S) /\ Len(w) = n /\ DOMAIN w = 1 .. n
    BY <1>1
  <1> QED
    BY <1>2, Zenon DEF IsLog

\* The row j of a log whose row i is rewritten, after the rows of chain.
Relink(rows, i, fact, chain, j) ==
    LET row  == IF j = i THEN [rows[j] EXCEPT !.fact = fact] ELSE rows[j]
        prev == IF j > i THEN chain[j-1].hash ELSE row.prev
    IN  [row EXCEPT !.prev = prev, !.hash = entryHash(prev, row.seq, row.fact)]

\* A row with another field is a row.
LEMMA RowUpdated ==
  ASSUME NEW r, IsRow(r), NEW x
  PROVE  /\ IsRow([r EXCEPT !.fact = x])
         /\ IsRow([r EXCEPT !.prev = x])
         /\ IsRow([r EXCEPT !.hash = x])
  <1> DEFINE a == r.seq
             b == r.prev
             c == r.fact
             d == r.hash
  <1>1. r = [seq |-> a, prev |-> b, fact |-> c, hash |-> d]
    BY Zenon DEF IsRow
  <1> HIDE DEF a, b, c, d
  <1>2. [r EXCEPT !.fact = x] = [seq |-> a, prev |-> b, fact |-> x, hash |-> d]
    BY <1>1
  <1>3. [r EXCEPT !.prev = x] = [seq |-> a, prev |-> x, fact |-> c, hash |-> d]
    BY <1>1
  <1>4. [r EXCEPT !.hash = x] = [seq |-> a, prev |-> b, fact |-> c, hash |-> x]
    BY <1>1
  <1>5. \A q, u, v, z : IsRow([seq |-> q, prev |-> u, fact |-> v, hash |-> z])
    BY DEF IsRow
  <1> QED
    BY <1>2, <1>3, <1>4, <1>5

\* A row with another hash and another field is a row.
LEMMA RowRehashed ==
  ASSUME NEW r, IsRow(r), NEW x, NEW y
  PROVE  /\ IsRow([r EXCEPT !.prev = x, !.hash = y])
         /\ IsRow([r EXCEPT !.fact = x, !.hash = y])
  <1>1. [r EXCEPT !.prev = x, !.hash = y] = [[r EXCEPT !.prev = x] EXCEPT !.hash = y]
    OBVIOUS
  <1>2. [r EXCEPT !.fact = x, !.hash = y] = [[r EXCEPT !.fact = x] EXCEPT !.hash = y]
    OBVIOUS
  <1> DEFINE p == [r EXCEPT !.prev = x]
             f == [r EXCEPT !.fact = x]
  <1>3. IsRow(p) /\ IsRow(f)
    BY RowUpdated, Zenon
  <1> HIDE DEF p, f
  <1>4. IsRow([p EXCEPT !.hash = y]) /\ IsRow([f EXCEPT !.hash = y])
    BY <1>3, RowUpdated, Zenon
  <1> QED
    BY <1>1, <1>2, <1>4, Zenon DEF p, f

\* It is a row, and depends on the chain only through the row before.
LEMMA RelinkRow ==
  ASSUME NEW rows, IsLog(rows), NEW i \in 1 .. Len(rows), NEW fact, NEW j \in 1 .. Len(rows),
         NEW c, NEW d, j > i => c[j-1] = d[j-1]
  PROVE  /\ Relink(rows, i, fact, c, j) = Relink(rows, i, fact, d, j)
         /\ IsRow(Relink(rows, i, fact, c, j))
  <1>1. Relink(rows, i, fact, c, j) = Relink(rows, i, fact, d, j)
    <2>1. CASE j > i
      BY <2>1, Zenon DEF Relink
    <2>2. CASE ~(j > i)
      BY <2>2 DEF Relink
    <2> QED
      BY <2>1, <2>2, Zenon
  <1> DEFINE row == IF j = i THEN [rows[j] EXCEPT !.fact = fact] ELSE rows[j]
             prev == IF j > i THEN c[j-1].hash ELSE row.prev
             new == entryHash(prev, row.seq, row.fact)
  <1>2. Relink(rows, i, fact, c, j) = [row EXCEPT !.prev = prev, !.hash = new]
    BY Zenon DEF Relink
  <1>3. IsRow(row)
    BY RowUpdated, Zenon DEF IsLog
  <1> HIDE DEF row, prev, new
  <1>4. IsRow([row EXCEPT !.prev = prev, !.hash = new])
    BY <1>3, RowRehashed, Zenon
  <1> QED
    BY <1>1, <1>2, <1>4, Zenon

\* The recursion of Rechained has a solution, and it is a log.
LEMMA RechainedIsLog ==
  ASSUME NEW rows, IsLog(rows), NEW i \in 1 .. Len(rows), NEW fact
  PROVE  IsLog(Rechained(rows, i, fact))
  <1> DEFINE R(chain, j) == Relink(rows, i, fact, chain, j)
             n == Len(rows)
             Solved(k) == \E c : c = [j \in 1 .. k |-> R(c, j)]
             Bad == {k \in 0 .. n : ~Solved(k)}
  <1>1. n \in Nat /\ i \in 1 .. n
    BY Zenon DEF IsLog
  <1>2. \A j \in 1 .. n : \A c, d : (j > i => c[j-1] = d[j-1]) => R(c, j) = R(d, j) /\ IsRow(R(c, j))
    BY RelinkRow
  <1> HIDE DEF n, R
  <1>3. Solved(0)
    <2> DEFINE c == [j \in 1 .. 0 |-> 0]
    <2>1. \A j : j \notin 1 .. 0
      OBVIOUS
    <2>2. c = [j \in 1 .. 0 |-> R(c, j)]
      BY <2>1, Zenon
    <2> QED
      BY <2>2, Zenon
  <1>4. ASSUME NEW k \in 1 .. n, Solved(k - 1) PROVE Solved(k)
    <2>1. PICK c : c = [j \in 1 .. k - 1 |-> R(c, j)]
      BY <1>4, Zenon
    <2> DEFINE d == [j \in 1 .. k |-> R(c, j)]
    <2>2. ASSUME NEW j \in 1 .. k PROVE R(c, j) = R(d, j)
      <3>1. j \in 1 .. n
        BY <1>1
      <3>2. ASSUME j > i PROVE c[j-1] = d[j-1]
        <4>1. j - 1 \in 1 .. k - 1 /\ j - 1 \in 1 .. k
          BY <1>1, <3>2
        <4> QED
          BY <2>1, <4>1, Zenon
      <3> HIDE DEF d
      <3> QED
        BY <1>2, <3>1, <3>2, Zenon
    <2>3. d = [j \in 1 .. k |-> R(d, j)]
      BY <2>2, Zenon
    <2> QED
      BY <2>3, Zenon
  <1> HIDE DEF Solved
  <1>5. Bad = {}
    <2> SUFFICES ASSUME Bad # {} PROVE FALSE
      BY Zenon
    <2>1. Bad \subseteq Nat
      BY <1>1
    <2>2. PICK k \in Bad : \A j \in Bad : k <= j
      <3> HIDE DEF Bad
      <3> QED
        BY <2>1, LeastNat, Zenon
    <2>3. k \in 0 .. n /\ ~Solved(k) /\ k # 0
      BY <1>3, <2>2, Zenon
    <2>4. k \in 1 .. n /\ k - 1 \in 0 .. n /\ ~(k <= k - 1)
      BY <1>1, <2>3
    <2>5. Solved(k - 1)
      BY <2>2, <2>4, Zenon
    <2> QED
      BY <1>4, <2>3, <2>4, <2>5, Zenon
  <1>6. Solved(n)
    <2>1. n \in 0 .. n
      BY <1>1
    <2> QED
      BY <1>5, <2>1, Zenon
  <1> DEFINE chain == Rechained(rows, i, fact)
  <1>7. chain = CHOOSE c : c = [j \in 1 .. n |-> R(c, j)]
    BY Zenon DEF Rechained, Relink, R, n
  <1> HIDE DEF chain
  <1>8. chain = [j \in 1 .. n |-> R(chain, j)]
    BY <1>6, <1>7, Zenon DEF Solved
  <1>9. chain = [j \in 1 .. n |-> chain[j]] /\ \A j \in 1 .. n : IsRow(chain[j])
    BY <1>2, <1>8, Zenon
  <1>10. IsLog(chain)
    BY <1>1, <1>9, LogOfRows, Zenon
  <1> QED
    BY <1>10, Zenon DEF chain

\* Every alteration of a log is a log, although not one that verifies.
LEMMA AlteredIsLog ==
  ASSUME NEW rows, IsLog(rows), NEW facts, NEW w \in Altered(rows, facts)
  PROVE  IsLog(w)
  <1> DEFINE n == Len(rows)
  <1>1. /\ n \in Nat /\ DOMAIN rows = 1 .. n /\ rows = [j \in 1 .. n |-> rows[j]]
        /\ \A j \in 1 .. n : IsRow(rows[j])
    BY Zenon DEF IsLog
  <1>2. \/ \E i \in 1 .. n : w = Without(rows, i)
        \/ \E i, j \in 1 .. n : w = Exchanged(rows, i, j)
        \/ \E i \in 1 .. n, f \in facts :
             \/ w = Rewritten(rows, i, f)
             \/ w = Rehashed(rows, i, f)
             \/ w = Relinked(rows, i, f)
             \/ w = Rechained(rows, i, f)
    BY <1>1 DEF Altered
  <1> HIDE DEF n
  <1>3. ASSUME NEW i \in 1 .. n, w = Without(rows, i)
        PROVE  IsLog(w)
    <2> DEFINE S == {rows[j] : j \in 1 .. n}
    <2>1. rows \in Seq(S)
      <3>1. rows \in [1 .. n -> S]
        BY <1>1, Zenon
      <3> HIDE DEF S
      <3> QED
        BY <1>1, <3>1
    <2>2. \A r \in S : IsRow(r)
      BY <1>1, Zenon
    <2> HIDE DEF S
    <2>3. SubSeq(rows, 1, i - 1) \in Seq(S) /\ SubSeq(rows, i + 1, n) \in Seq(S)
      BY <1>1, <2>1 DEF n
    <2>4. w \in Seq(S)
      BY <1>3, <2>3 DEF Without, n
    <2>5. /\ Len(w) \in Nat /\ w = [j \in 1 .. Len(w) |-> w[j]]
          /\ \A j \in 1 .. Len(w) : w[j] \in S
      BY <2>4
    <2> QED
      BY <2>2, <2>5, LogOfRows, Zenon
  <1>4. ASSUME NEW i \in 1 .. n, NEW j \in 1 .. n, w = Exchanged(rows, i, j)
        PROVE  IsLog(w)
    <2>1. w = [k \in 1 .. n |-> w[k]] /\ \A k \in 1 .. n : IsRow(w[k])
      BY <1>1, <1>4, Zenon DEF Exchanged
    <2> QED
      BY <1>1, <2>1, LogOfRows, Zenon
  <1>5. ASSUME NEW i \in 1 .. n, NEW r, IsRow(r), NEW v, IsLog(v), Len(v) = n,
               w = [v EXCEPT ![i] = r]
        PROVE  IsLog(w)
    <2>1. w = [k \in 1 .. n |-> w[k]] /\ \A k \in 1 .. n : IsRow(w[k])
      BY <1>1, <1>5, Zenon DEF IsLog
    <2> QED
      BY <1>1, <2>1, LogOfRows, Zenon
  <1>6. ASSUME NEW i \in 1 .. n, NEW f
        PROVE  /\ w = Rewritten(rows, i, f) => IsLog(w)
               /\ w = Rehashed(rows, i, f) => IsLog(w)
               /\ w = Relinked(rows, i, f) => IsLog(w)
               /\ w = Rechained(rows, i, f) => IsLog(w)
    <2> DEFINE hash == entryHash(rows[i].prev, rows[i].seq, f)
               new == Rehashed(rows, i, f)
    <2>1. Rewritten(rows, i, f) = [rows EXCEPT ![i] = [rows[i] EXCEPT !.fact = f]]
      BY <1>1, Zenon DEF Rewritten
    <2>2. new = [rows EXCEPT ![i] = [rows[i] EXCEPT !.fact = f, !.hash = hash]]
      BY <1>1 DEF Rehashed
    <2>3. IsRow([rows[i] EXCEPT !.fact = f]) /\ IsRow([rows[i] EXCEPT !.fact = f, !.hash = hash])
      BY <1>1, RowUpdated, RowRehashed, Zenon
    <2> HIDE DEF new, hash
    <2>4. /\ w = Rewritten(rows, i, f) => IsLog(w)
          /\ w = new => IsLog(w)
      BY <1>5, <2>1, <2>2, <2>3, Zenon DEF n
    <2>5. IsLog(new) /\ Len(new) = n
      <3>1. new = [k \in 1 .. n |-> new[k]] /\ \A k \in 1 .. n : IsRow(new[k])
        BY <1>1, <2>2, <2>3, Zenon
      <3> QED
        BY <1>1, <3>1, LogOfRows, Zenon
    <2>6. w = Relinked(rows, i, f) => IsLog(w)
      <3>1. CASE i = n
        BY <2>5, <3>1, Zenon DEF Relinked, new, n
      <3>2. CASE i # n
        <4>1. i + 1 \in 1 .. n
          BY <1>1, <3>2
        <4> DEFINE prev == new[i].hash
        <4>2. Relinked(rows, i, f) = [new EXCEPT ![i + 1] = [new[i + 1] EXCEPT !.prev = prev]]
          BY <2>5, <3>2, <4>1, Zenon DEF Relinked, new, n, IsLog
        <4>3. IsRow([new[i + 1] EXCEPT !.prev = prev])
          BY <2>5, <4>1, RowUpdated, Zenon DEF IsLog
        <4> QED
          BY <1>5, <2>5, <4>1, <4>2, <4>3, Zenon
      <3> QED
        BY <3>1, <3>2, Zenon
    <2>7. w = Rechained(rows, i, f) => IsLog(w)
      BY RechainedIsLog, Zenon DEF n
    <2> QED
      BY <2>4, <2>6, <2>7, Zenon DEF new
  <1> QED
    BY <1>2, <1>3, <1>4, <1>6, Zenon

\* The head hash of the log is an anchor that no altered log passes.
LEMMA Anchored ==
  ASSUME AuditInv
  PROVE  TamperEvident
  <1> DEFINE anchor == GetAuditHead(log).hash
  <1>1. IsLog(log) /\ Faultless(log)
    <2>1. PICK S : log \in Seq(S)
      BY Zenon DEF AuditInv
    <2>2. log = [i \in 1 .. Len(log) |-> log[i]]
      BY <2>1
    <2> QED
      BY <2>2, NoFault, Zenon DEF IsLog, Faultless, AuditInv
  <1>2. anchor # NoAnchor
    <2>1. CASE log = <<>>
      BY <2>1 DEF GetAuditHead, Genesis, NoAnchor
    <2>2. CASE log # <<>>
      <3>1. Len(log) \in 1 .. Len(log)
        BY <1>1, <2>2 DEF IsLog
      <3>2. anchor = log[Len(log)].hash
        BY <2>2, Zenon DEF GetAuditHead
      <3> QED
        BY <1>1, <3>1, <3>2, Numbered, HashTells
    <2> QED
      BY <2>1, <2>2, Zenon
  <1>3. ASSUME NEW facts, NEW rows \in Altered(log, facts), Verify(rows, anchor) = "ok"
        PROVE  FALSE
    <2> HIDE DEF anchor
    <2>1. IsLog(rows)
      BY <1>1, AlteredIsLog, Zenon
    <2>2. Faultless(rows) /\ GetAuditHead(rows).hash = anchor
      BY <1>2, <1>3, <2>1, Passed, Zenon
    <2>3. rows = log
      BY <1>1, <2>1, <2>2, HeadDetermines, Zenon DEF anchor
    <2> QED
      BY <2>3 DEF Altered
  <1> QED
    BY <1>3, Zenon DEF TamperEvident

\* Against the head hash of any moment, Verify reports every altered log.
THEOREM TamperingShows == Spec => []TamperEvident
  BY AuditInvariance, Anchored, PTL

-----------------------------------------------------------------------------
(***************************************************************************)
(* Nobody waits in a circle.  Rows are locked in the order of their ids,   *)
(* the unique index is waited for with all rows locked, and the audit lock *)
(* is taken last: so of the transactions that are open one can go on.      *)
(***************************************************************************)
Missing(p) == DOMAIN job[p].lines \ Holds(p)

\* The guards of Step(p): what p needs to go on is free.
Free(p) ==
    \/ pc[p] = "lock" /\ Missing(p) = {}
    \/ pc[p] = "lock" /\ \E a \in Missing(p) : owner[a] = NoProc /\ \A b \in Missing(p) : a <= b
    \/ pc[p] = "check" /\ \/ \E a \in DOMAIN job[p].lines : seen[p][a] + job[p].lines[a] < 0
                          \/ Taken(job[p])
                          \/ \A q \in Proc \ {p} : Inserted(q) => ~SameKey(job[q], job[p])
    \/ pc[p] = "audit" /\ auditor = NoProc
    \/ pc[p] \in {"head", "commit"}

SomeoneProceeds == (\E p \in Proc : pc[p] # "idle") => \E p \in Proc : Free(p)

\* A row is locked by an open transaction that touches it.
OwnersOpen ==
    \A a \in Account, p \in Proc : owner[a] = p => pc[p] # "idle" /\ a \in DOMAIN job[p].lines

\* A transaction has locked the first of its rows.
LockedInOrder ==
    \A p \in Proc : pc[p] = "lock" => \A a \in Holds(p), b \in Missing(p) : a < b

AuditorWrites == auditor # NoProc => auditor \in Proc /\ pc[auditor] \in {"head", "commit"}

WaitInv == OwnersOpen /\ LockedInOrder /\ AuditorWrites

LEMMA WaitInit == Init => WaitInv
  <1> SUFFICES ASSUME Init PROVE WaitInv
    OBVIOUS
  <1>1. /\ \A a \in Account : owner[a] = NoProc
        /\ \A p \in Proc : pc[p] = "idle" /\ p # NoProc
        /\ auditor = NoProc
    BY PostingAssumption, Zenon DEF Init
  <1>2. LockedInOrder
    BY <1>1 DEF LockedInOrder
  <1> QED
    BY <1>1, <1>2, Zenon DEF WaitInv, OwnersOpen, AuditorWrites

\* A step that leaves p's label, entry and rows alone, or takes it past the
\* locking, leaves it in order.
LEMMA OrderKept ==
  ASSUME NEW p \in Proc, pc'[p] = "lock" => pc[p] = "lock" /\ job'[p] = job[p] /\ Holds(p)' = Holds(p),
         LockedInOrder
  PROVE  pc'[p] = "lock" => \A a \in Holds(p)', b \in Missing(p)' : a < b
  BY Zenon DEF LockedInOrder, Missing

LEMMA WaitStep == IInv /\ WaitInv /\ [Next]_vars => WaitInv'
  <1> SUFFICES ASSUME IInv, WaitInv, [Next]_vars PROVE WaitInv'
    BY Zenon
  <1>0. /\ pc \in [Proc -> Label] /\ job \in [Proc -> Entries \cup {NoEntry}]
        /\ owner \in [Account -> Proc \cup {NoProc}] /\ NoProc \notin Proc
        /\ OwnersOpen /\ LockedInOrder /\ AuditorWrites
    BY PostingAssumption, Zenon DEF IInv, TypeOK, WaitInv
  <1>1. CASE UNCHANGED vars
    BY <1>0, <1>1, Zenon
    DEF vars, postingVars, auditVars, WaitInv, OwnersOpen, LockedInOrder, AuditorWrites, Missing, Holds
  <1>2. ASSUME NEW p \in Proc, NEW e \in Entries, Begin(p, e)
        PROVE  WaitInv'
    <2>1. /\ pc[p] = "idle" /\ job' = [job EXCEPT ![p] = e]
          /\ \E l \in {"lock", "check"} : pc' = [pc EXCEPT ![p] = l]
          /\ UNCHANGED <<owner, auditor>>
      BY <1>2, Zenon DEF Begin, Goto, auditVars
    <2>2. \A q \in Proc : q # p => pc'[q] = pc[q] /\ job'[q] = job[q]
      BY <1>0, <2>1, Zenon
    <2>3. (\A a \in Account : owner[a] # p) /\ auditor # p
      BY <1>0, <2>1 DEF OwnersOpen, AuditorWrites
    <2>4. \A q : Holds(q)' = Holds(q)
      BY <2>1, Zenon DEF Holds
    <2>5. Holds(p)' = {}
      BY <2>3, <2>4, Zenon DEF Holds
    <2>6. \A q \in Proc : pc'[q] = "lock" => \A a \in Holds(q)', b \in Missing(q)' : a < b
      BY <1>0, <2>2, <2>4, <2>5, OrderKept, Zenon
    <2>7. OwnersOpen'
      BY <1>0, <2>1, <2>2, <2>3, Zenon DEF OwnersOpen
    <2>8. AuditorWrites'
      BY <1>0, <2>1, <2>2, <2>3, Zenon DEF AuditorWrites
    <2> QED
      BY <2>6, <2>7, <2>8, Zenon DEF WaitInv, LockedInOrder
  <1>3. ASSUME NEW p \in Proc, LockNext(p)
        PROVE  WaitInv'
    <2>1. PICK a \in Missing(p) : /\ \A b \in Missing(p) : a <= b
                                  /\ owner[a] = NoProc /\ owner' = [owner EXCEPT ![a] = p]
      BY <1>3, Zenon DEF LockNext, Missing
    <2>2. pc[p] = "lock" /\ UNCHANGED <<pc, job, auditor>> /\ job[p] \in Entries
      BY <1>3, Zenon DEF LockNext, auditVars, IInv
    <2>3. /\ a \in DOMAIN job[p].lines /\ a \in Account
          /\ Missing(p) \subseteq Account /\ \A b \in Missing(p) : b \in Nat
      BY <2>1, <2>2, PostingAssumption, Zenon DEF Missing
    <2>4. \A b \in Account : owner'[b] = IF b = a THEN p ELSE owner[b]
      BY <1>0, <2>1, <2>3, Zenon
    <2>5. Holds(p)' = Holds(p) \cup {a} /\ Missing(p)' = Missing(p) \ {a}
      BY <2>2, <2>3, <2>4, Zenon DEF Holds, Missing
    <2>6. \A q \in Proc : q # p => Holds(q)' = Holds(q)
      BY <1>0, <2>1, <2>3, <2>4, Zenon DEF Holds
    <2>7. \A x \in Holds(p)', b \in Missing(p)' : x < b
      <3>1. \A b \in Missing(p)' : b \in Missing(p) /\ b # a /\ a <= b /\ b \in Nat /\ a \in Nat
        BY <2>1, <2>3, <2>5, Zenon
      <3>2. \A b \in Missing(p)' : a < b
        BY <3>1
      <3>3. \A x \in Holds(p), b \in Missing(p) : x < b
        BY <1>0, <2>2, Zenon DEF LockedInOrder
      <3> QED
        BY <2>5, <3>1, <3>2, <3>3, Zenon
    <2>8. \A q \in Proc : pc'[q] = "lock" => \A x \in Holds(q)', b \in Missing(q)' : x < b
      BY <1>0, <2>2, <2>6, <2>7, OrderKept, Zenon
    <2>9. OwnersOpen'
      BY <1>0, <2>2, <2>3, <2>4 DEF OwnersOpen
    <2>10. AuditorWrites'
      BY <1>0, <2>2, Zenon DEF AuditorWrites
    <2> QED
      BY <2>8, <2>9, <2>10, Zenon DEF WaitInv, LockedInOrder
  <1>4. ASSUME NEW p \in Proc, ReadBalances(p) \/ Insert(p) \/ AuditLock(p) \/ ReadHead(p)
        PROVE  WaitInv'
    <2>1. /\ pc[p] # "idle" /\ UNCHANGED <<job, owner>>
          /\ \E l \in {"check", "audit", "head", "commit"} : pc' = [pc EXCEPT ![p] = l]
      BY <1>4 DEF ReadBalances, Insert, AuditLock, ReadHead, Goto
    <2>2. /\ \A q \in Proc : q # p => pc'[q] = pc[q]
          /\ pc'[p] \in {"check", "audit", "head", "commit"}
      BY <1>0, <2>1, Zenon
    <2>3. \A q : Holds(q)' = Holds(q)
      BY <2>1, Zenon DEF Holds
    <2>4. \A q \in Proc : pc'[q] = "lock" => pc[q] = "lock" /\ job'[q] = job[q] /\ Holds(q)' = Holds(q)
      BY <2>1, <2>2, <2>3
    <2>5. \A q \in Proc : pc'[q] = "lock" => \A a \in Holds(q)', b \in Missing(q)' : a < b
      BY <1>0, <2>4, OrderKept, Zenon
    <2>6. \A q \in Proc : pc[q] # "idle" => pc'[q] # "idle"
      BY <2>2
    <2>7. OwnersOpen'
      BY <1>0, <2>1, <2>6, Zenon DEF OwnersOpen
    <2>8. AuditorWrites'
      <3>1. CASE ReadBalances(p) \/ Insert(p)
        <4>1. auditor' = auditor /\ pc[p] \notin {"head", "commit"}
          BY <3>1 DEF ReadBalances, Insert, auditVars
        <4> QED
          BY <1>0, <2>2, <4>1, Zenon DEF AuditorWrites
      <3>2. CASE AuditLock(p)
        <4>1. auditor' = p /\ pc'[p] = "head"
          BY <1>0, <3>2, Zenon DEF AuditLock, Goto
        <4> QED
          BY <4>1, Zenon DEF AuditorWrites
      <3>3. CASE ReadHead(p)
        <4>1. auditor' = auditor /\ pc'[p] = "commit"
          BY <1>0, <3>3, Zenon DEF ReadHead, Goto
        <4> QED
          BY <1>0, <2>2, <4>1, Zenon DEF AuditorWrites
      <3> QED
        BY <1>4, <3>1, <3>2, <3>3, Zenon
    <2> QED
      BY <2>5, <2>7, <2>8, Zenon DEF WaitInv, LockedInOrder
  <1>5. ASSUME NEW p \in Proc, Commit(p) \/ Rollback(p)
        PROVE  WaitInv'
    <2>1. /\ pc' = [pc EXCEPT ![p] = "idle"] /\ job' = [job EXCEPT ![p] = NoEntry]
          /\ owner' = [a \in Account |-> IF owner[a] = p THEN NoProc ELSE owner[a]]
          /\ auditor' = IF auditor = p THEN NoProc ELSE auditor
      BY <1>5, Zenon DEF Commit, Rollback, Release, Goto
    <2>2. /\ \A q \in Proc : q # p => pc'[q] = pc[q] /\ job'[q] = job[q]
          /\ pc'[p] = "idle"
          /\ \A a \in Account : owner'[a] = IF owner[a] = p THEN NoProc ELSE owner[a]
      BY <1>0, <2>1, Zenon
    <2>3. \A q \in Proc : q # p => Holds(q)' = Holds(q)
      BY <1>0, <2>2, Zenon DEF Holds
    <2>4. \A q \in Proc : pc'[q] = "lock" => pc[q] = "lock" /\ job'[q] = job[q] /\ Holds(q)' = Holds(q)
      BY <2>2, <2>3
    <2>5. \A q \in Proc : pc'[q] = "lock" => \A a \in Holds(q)', b \in Missing(q)' : a < b
      BY <1>0, <2>4, OrderKept, Zenon
    <2>6. OwnersOpen'
      BY <1>0, <2>2, Zenon DEF OwnersOpen
    <2>7. AuditorWrites'
      BY <1>0, <2>1, <2>2, Zenon DEF AuditorWrites
    <2> QED
      BY <2>5, <2>6, <2>7, Zenon DEF WaitInv, LockedInOrder
  <1> QED
    BY <1>1, <1>2, <1>3, <1>4, <1>5, Zenon DEF Next, Step, Refuse

\* A nonempty set of accounts has a last one.
LEMMA LastAccount ==
  ASSUME NEW A, A \subseteq Account, A # {}
  PROVE  \E a \in A : \A b \in A : b <= a
  <1> DEFINE Above(a) == {b \in A : b > a}
             F == {Above(a) : a \in A}
  <1>0. \A a \in A : a \in Nat
    BY PostingAssumption, Zenon
  <1>1. IsFiniteSet(Account) /\ F \subseteq SUBSET Account /\ F # {}
    <2>1. \A a \in A : Above(a) \subseteq Account
      BY Zenon
    <2>2. F \subseteq SUBSET Account /\ F # {}
      BY <2>1
    <2> QED
      BY <2>2, PostingAssumption, Zenon
  <1>2. PICK T \in F : \A U \in F : U \subseteq T => U = T
    <2> HIDE DEF F
    <2> QED
      BY <1>1, LeastSet
  <1>3. PICK a \in A : T = Above(a)
    BY Zenon
  <1>4. ASSUME NEW b \in A, ~(b <= a) PROVE FALSE
    <2>1. b \in T /\ Above(b) \in F
      BY <1>0, <1>3, <1>4
    <2>2. Above(b) \subseteq T /\ b \notin Above(b)
      BY <1>0, <1>3, <1>4
    <2> QED
      BY <1>2, <2>1, <2>2, Zenon
  <1> QED
    BY <1>4, Zenon

\* Of the open transactions one can go on.
LEMMA WaitFree == IInv /\ WaitInv => SomeoneProceeds
  <1> SUFFICES ASSUME IInv, WaitInv, NEW p0 \in Proc, pc[p0] # "idle",
                      \A p \in Proc : ~Free(p)
               PROVE  FALSE
    BY Zenon DEF SomeoneProceeds
  <1>0. /\ \A p \in Proc : pc[p] \in Label
        /\ \A p \in Proc : pc[p] # "idle" => job[p] \in Entries
        /\ \A a \in Account : owner[a] \in Proc \cup {NoProc}
        /\ OwnersOpen /\ LockedInOrder /\ AuditorWrites
    BY Zenon DEF IInv, TypeOK, WaitInv
  <1>1. \A p \in Proc : pc[p] \notin {"head", "commit"}
    BY Zenon DEF Free
  <1>2. auditor = NoProc
    BY <1>0, <1>1, Zenon DEF AuditorWrites
  <1>3. \A p \in Proc : pc[p] # "audit"
    BY <1>2, Zenon DEF Free
  <1>4. \A p \in Proc : ~Inserted(p)
    BY <1>1, <1>3 DEF Inserted
  <1>5. \A p \in Proc : pc[p] # "check"
    BY <1>4, Zenon DEF Free
  <1>6. \A p \in Proc : pc[p] # "idle" => pc[p] = "lock"
    BY <1>0, <1>1, <1>3, <1>5 DEF Label
  <1> DEFINE First(p, a) == a \in Missing(p) /\ \A b \in Missing(p) : a <= b
             A == {a \in Account : \E p \in Proc : pc[p] = "lock" /\ First(p, a)}
  <1>7. ASSUME NEW p \in Proc, pc[p] = "lock" PROVE \E a \in A : First(p, a)
    <2>1. job[p] \in Entries
      BY <1>0, <1>7
    <2>2. Missing(p) \subseteq Account
      BY <2>1, PostingAssumption, Zenon DEF Missing
    <2>3. Missing(p) # {} /\ Missing(p) \subseteq Nat
      BY <1>7, <2>2, PostingAssumption, Zenon DEF Free
    <2>4. PICK a \in Missing(p) : \A b \in Missing(p) : a <= b
      BY <2>3, LeastNat, Zenon
    <2>5. a \in A /\ First(p, a)
      BY <1>7, <2>2, <2>4, Zenon
    <2> QED
      BY <2>5, Zenon
  <1>8. A \subseteq Account /\ A # {}
    BY <1>6, <1>7, Zenon
  <1>9. PICK a \in A : \A b \in A : b <= a
    <2> HIDE DEF A
    <2> QED
      BY <1>8, LastAccount, Zenon
  <1>10. PICK p \in Proc : pc[p] = "lock" /\ First(p, a)
    BY Zenon
  <1>11. owner[a] # NoProc /\ a \in Account
    BY <1>10, Zenon DEF Free
  <1>12. PICK q \in Proc : owner[a] = q
    BY <1>0, <1>11, Zenon
  <1>13. pc[q] = "lock" /\ a \in Holds(q)
    BY <1>0, <1>6, <1>11, <1>12, Zenon DEF OwnersOpen, Holds
  <1>14. PICK b \in A : First(q, b)
    BY <1>7, <1>13, Zenon
  <1>15. a < b
    BY <1>0, <1>13, <1>14, Zenon DEF LockedInOrder
  <1>16. b <= a /\ a \in Nat /\ b \in Nat
    BY <1>8, <1>9, PostingAssumption, Zenon
  <1> HIDE DEF A, First
  <1> QED
    BY <1>15, <1>16

(***************************************************************************)
(* "The fixed order (by id) is what prevents deadlocks": whatever          *)
(* transactions are open and whatever rows, keys and audit lock they wait  *)
(* for, what one of them needs next is free.                               *)
(***************************************************************************)
THEOREM PostingsNeverDeadlock == Spec => []SomeoneProceeds
<1>1. Init => WaitInv
  BY WaitInit
<1>2. IInv /\ WaitInv /\ [Next]_vars => WaitInv'
  BY WaitStep
<1>3. IInv /\ WaitInv => SomeoneProceeds
  BY WaitFree
<1> QED
  BY <1>1, <1>2, <1>3, Invariance, PTL DEF Spec
=============================================================================
