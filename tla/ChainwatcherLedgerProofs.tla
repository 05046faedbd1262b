---------------------- MODULE ChainwatcherLedgerProofs ----------------------
(***************************************************************************)
(* The ledger side of the chain watcher.  The settle and reversal entries  *)
(* of a payment always match its rows, by a count: a sink transaction that *)
(* posts adds exactly one entry, since the ledger refuses a duplicate, and *)
(* moves exactly one row.  The events tell the rows, and the clearing      *)
(* account covers them.  While no sink transaction fails, entries,         *)
(* statuses, rows and journal fit together so that none settles twice.     *)
(***************************************************************************)
EXTENDS ChainwatcherProofs, Sums

Count(b) == IF b THEN 1 ELSE 0

\* Adding or removing one element moves the cardinality of a finite set by one.
LEMMA ChangeOne ==
  ASSUME NEW A, NEW B, NEW x, IsFiniteSet(A), A \ {x} = B \ {x}
  PROVE  /\ IsFiniteSet(B)
         /\ Cardinality(A) \in Nat /\ Cardinality(B) \in Nat
         /\ Cardinality(B) = Cardinality(A) + Count(x \in B) - Count(x \in A)
  <1>1. CASE x \in A <=> x \in B
    <2>1. A = B
      BY <1>1
    <2> QED
      BY <2>1, FS_CardinalityType DEF Count
  <1>2. CASE x \in B /\ x \notin A
    <2>1. B = A \cup {x}
      BY <1>2, Zenon
    <2> QED
      BY <1>2, <2>1, FS_AddElement, FS_CardinalityType DEF Count
  <1>3. CASE x \in A /\ x \notin B
    <2>1. B = A \ {x}
      BY <1>3, Zenon
    <2>2. IsFiniteSet(B) /\ Cardinality(B) = Cardinality(A) - 1
      BY <1>3, <2>1, FS_RemoveElement, Zenon
    <2>3. Cardinality(A) \in Nat /\ Cardinality(B) \in Nat
      BY <2>2, FS_CardinalityType, Zenon
    <2> QED
      BY <1>3, <2>2, <2>3 DEF Count
  <1> QED
    BY <1>1, <1>2, <1>3, Zenon

\* A posting adds its entry to the entries of its own kind and payment.
LEMMA EntriesAdded ==
  ASSUME IsFiniteSet(journal), NEW e, e \notin journal, journal' = journal \cup {e}, NEW k, NEW p
  PROVE  /\ IsFiniteSet(journal')
         /\ Cardinality(EntriesOf(k, p)) \in Nat /\ Cardinality(EntriesOf(k, p)') \in Nat
         /\ Cardinality(EntriesOf(k, p)') =
                Cardinality(EntriesOf(k, p)) + Count(e.kind = k /\ e.ref[1] = p)
  <1> DEFINE A == EntriesOf(k, p)
             B == {f \in journal' : f.kind = k /\ f.ref[1] = p}
  <1>1. IsFiniteSet(A) /\ IsFiniteSet(journal')
    BY FS_Subset, FS_AddElement, Zenon DEF EntriesOf
  <1>2. A \ {e} = B \ {e} /\ e \notin A /\ (e \in B <=> e.kind = k /\ e.ref[1] = p)
    BY Zenon DEF EntriesOf
  <1>3. B = EntriesOf(k, p)'
    BY Zenon DEF EntriesOf
  <1>4. /\ Cardinality(A) \in Nat /\ Cardinality(B) \in Nat
        /\ Cardinality(B) = Cardinality(A) + Count(e \in B) - Count(e \in A)
    BY <1>1, <1>2, ChangeOne, Zenon
  <1> HIDE DEF A, B
  <1>5. Count(e \in A) = 0 /\ Count(e \in B) = Count(e.kind = k /\ e.ref[1] = p)
    BY <1>2, Zenon DEF Count
  <1> QED
    BY <1>1, <1>3, <1>4, <1>5 DEF A, Count

(***************************************************************************)
(* The inductive invariant: PostingsMatchRows, and a finite journal for    *)
(* its entries to be counted in.                                           *)
(***************************************************************************)
LedgerInv == IsFiniteSet(journal) /\ PostingsMatchRows

Live(p) == Cardinality(RowsOf(p, {"settled", "finalized"}))

\* PostingsMatchRows, one payment at a time.
Matches(p) ==
    /\ NetSettled(p) >= Live(p)
    /\ RowsOf(p, {"finalized"}) = {} => NetSettled(p) = Live(p)

\* PostingsMatchRows is Matches for every payment.
LEMMA PostingsMatch == PostingsMatchRows <=> \A p \in Payment : Matches(p)
  BY Zenon DEF PostingsMatchRows, Matches, Live

\* What a sink transaction may do to the two tables, told apart by the
\* change of the entry count and of the row count.
LEMMA OnStatusEffect ==
  ASSUME SettlementTypeOK, NEW s \in StatusType, OnStatus(s)
  PROVE  LET t == s.tx
             p == rows[t].payment
         IN  /\ t \in Tx
             /\ \/ /\ UNCHANGED <<rows, journal, balance>>
                   /\ \/ s.phase = "mined" \/ rows[t].status = "none"
                      \/ s.phase = "confirmed" <=> rows[t].status = "settled"
                \/ /\ s.phase = "confirmed"
                   /\ p \in Payment /\ rows[t].status \in {"pending", "reorged"}
                   /\ rows' = [rows EXCEPT ![t] = Row("settled", p, s.block)]
                   /\ PostWithin(SettleEntry(p, s.block))
                \/ /\ s.phase = "confirmed"
                   /\ p \in Payment /\ rows[t].status = "finalized"
                   /\ rows' = rows
                   /\ PostWithin(SettleEntry(p, s.block))
                \/ /\ s.phase = "reorged"
                   /\ p \in Payment /\ rows[t].status = "settled"
                   /\ rows' = [rows EXCEPT ![t] = Row("reorged", p, NoBlock)]
                   /\ PostWithin(ReversalEntry(p, s.block))
                \/ /\ s.phase = "finalized"
                   /\ p \in Payment /\ rows[t].status = "settled"
                   /\ rows' = [rows EXCEPT ![t] = Row("finalized", p, rows[t].block)]
                   /\ journal' = journal /\ balance' = balance
  <1>1. s.tx \in Tx /\ s.block \in Block
    BY Zenon DEF StatusType
  <1>2. /\ rows[s.tx].status \in RowStatus
        /\ rows[s.tx].status # "none" => rows[s.tx].payment \in Payment
    BY <1>1, Zenon DEF SettlementTypeOK, RowType
  <1> QED
    BY <1>1, <1>2, Zenon DEF OnStatus, Settle, MarkSettlementSettled, Reverse, Finalize,
                      settlementVars, ledgerVars, RowStatus

\* The arithmetic of one step: what Matches needs from the changes of counts.
LEMMA MatchesStep ==
  ASSUME NEW p, Matches(p),
         RowsOf(p, {"finalized"}) \subseteq RowsOf(p, {"finalized"})',
         NetSettled(p) \in Int, NetSettled(p)' \in Int, Live(p) \in Int, Live(p)' \in Int,
         \/ NetSettled(p)' - NetSettled(p) = Live(p)' - Live(p)
         \/ /\ NetSettled(p)' - NetSettled(p) >= Live(p)' - Live(p)
            /\ RowsOf(p, {"finalized"})' # {}
  PROVE  Matches(p)'
  <1> DEFINE n == NetSettled(p)
             m == NetSettled(p)'
             k == Live(p)
             l == Live(p)'
  <1>1. n >= k /\ (RowsOf(p, {"finalized"}) = {} => n = k)
    BY Zenon DEF Matches
  <1>2. /\ n \in Int /\ m \in Int /\ k \in Int /\ l \in Int
        /\ \/ m - n = l - k
           \/ m - n >= l - k /\ RowsOf(p, {"finalized"})' # {}
    BY Zenon
  <1> HIDE DEF n, m, k, l
  <1>3. m >= l /\ (RowsOf(p, {"finalized"})' = {} => m = l)
    BY <1>1, <1>2
  <1> QED
    BY <1>3, Zenon DEF Matches, n, m, k, l

\* A row that is not final is replaced: no payment loses a final row.
LEMMA FinalKept ==
  ASSUME NEW t \in Tx, rows \in [Tx -> RowType], NEW row, rows' = [rows EXCEPT ![t] = row],
         rows[t].status # "finalized", NEW p
  PROVE  RowsOf(p, {"finalized"}) \subseteq RowsOf(p, {"finalized"})'
  BY Zenon DEF RowsOf

\* An entry the ledger accepts is a new one.
LEMMA PostNew ==
  ASSUME NEW e, PostWithin(e)
  PROVE  e \notin journal /\ journal' = journal \cup {e}
  BY Zenon DEF PostWithin, Accepts, Duplicate

\* The kind and payment of the two entries the sink posts.
LEMMA EntryFields ==
  ASSUME NEW p, NEW b
  PROVE  /\ SettleEntry(p, b).kind = "settle" /\ SettleEntry(p, b).ref[1] = p
         /\ ReversalEntry(p, b).kind = "reversal" /\ ReversalEntry(p, b).ref[1] = p
  BY Zenon DEF SettleEntry, ReversalEntry

\* One posted settle, or reversal, moves the net count of its own payment.
LEMMA NetStep ==
  ASSUME IsFiniteSet(journal), NEW p, NEW b, NEW q
  PROVE  /\ NetSettled(q) \in Int
         /\ journal' = journal => NetSettled(q)' = NetSettled(q)
         /\ PostWithin(SettleEntry(p, b)) =>
                IsFiniteSet(journal') /\ NetSettled(q)' = NetSettled(q) + Count(p = q)
         /\ PostWithin(ReversalEntry(p, b)) =>
                IsFiniteSet(journal') /\ NetSettled(q)' = NetSettled(q) - Count(p = q)
  <1>0. ASSUME NEW k PROVE Cardinality(EntriesOf(k, q)) \in Nat
    <2>1. IsFiniteSet(EntriesOf(k, q))
      BY FS_Subset, Zenon DEF EntriesOf
    <2> QED
      BY <2>1, FS_CardinalityType, Zenon
  <1>1. NetSettled(q) \in Int
    BY <1>0 DEF NetSettled
  <1>2. ASSUME journal' = journal PROVE NetSettled(q)' = NetSettled(q)
    BY <1>2, Zenon DEF NetSettled, EntriesOf
  <1>3. ASSUME PostWithin(SettleEntry(p, b))
        PROVE  IsFiniteSet(journal') /\ NetSettled(q)' = NetSettled(q) + Count(p = q)
    <2>1. SettleEntry(p, b) \notin journal /\ journal' = journal \cup {SettleEntry(p, b)}
      BY <1>3, PostNew, Zenon
    <2>a. SettleEntry(p, b).kind = "settle" /\ SettleEntry(p, b).ref[1] = p
      BY EntryFields
    <2>b. ASSUME NEW k
          PROVE  /\ IsFiniteSet(journal')
                 /\ Cardinality(EntriesOf(k, q)') =
                        Cardinality(EntriesOf(k, q)) + Count("settle" = k /\ p = q)
      BY <2>1, <2>a, EntriesAdded
    <2>2. /\ IsFiniteSet(journal')
          /\ Cardinality(EntriesOf("settle", q)') = Cardinality(EntriesOf("settle", q)) + Count(p = q)
      BY <2>b, Zenon DEF Count
    <2>3. Cardinality(EntriesOf("reversal", q)') = Cardinality(EntriesOf("reversal", q))
      BY <1>0, <2>b DEF Count
    <2> QED
      BY <1>0, <2>2, <2>3 DEF NetSettled, Count
  <1>4. ASSUME PostWithin(ReversalEntry(p, b))
        PROVE  IsFiniteSet(journal') /\ NetSettled(q)' = NetSettled(q) - Count(p = q)
    <2>1. ReversalEntry(p, b) \notin journal /\ journal' = journal \cup {ReversalEntry(p, b)}
      BY <1>4, PostNew, Zenon
    <2>a. ReversalEntry(p, b).kind = "reversal" /\ ReversalEntry(p, b).ref[1] = p
      BY EntryFields
    <2>b. ASSUME NEW k
          PROVE  /\ IsFiniteSet(journal')
                 /\ Cardinality(EntriesOf(k, q)') =
                        Cardinality(EntriesOf(k, q)) + Count("reversal" = k /\ p = q)
      BY <2>1, <2>a, EntriesAdded
    <2>2. /\ IsFiniteSet(journal')
          /\ Cardinality(EntriesOf("reversal", q)') = Cardinality(EntriesOf("reversal", q)) + Count(p = q)
      BY <2>b, Zenon DEF Count
    <2>3. Cardinality(EntriesOf("settle", q)') = Cardinality(EntriesOf("settle", q))
      BY <1>0, <2>b DEF Count
    <2> QED
      BY <1>0, <2>2, <2>3 DEF NetSettled, Count
  <1> QED
    BY <1>1, <1>2, <1>3, <1>4, Zenon

\* The statuses whose settle entry is not undone.
IsLive(st) == st \in {"settled", "finalized"}

\* One replaced row moves the live count of its own payment, and no other.
LEMMA LiveStep ==
  ASSUME NEW t \in Tx, rows \in [Tx -> RowType], NEW q
  PROVE  /\ Live(q) \in Int
         /\ rows' = rows => Live(q)' = Live(q)
         /\ \A st, b : rows' = [rows EXCEPT ![t] = Row(st, rows[t].payment, b)] =>
                Live(q)' = Live(q) + Count(rows[t].payment = q /\ IsLive(st))
                                   - Count(rows[t].payment = q /\ IsLive(rows[t].status))
  <1> DEFINE S == {"settled", "finalized"}
  <1>1. IsFiniteSet(RowsOf(q, S))
    BY SettlementAssumption, FS_Subset, Zenon DEF RowsOf
  <1>2. Live(q) \in Int
    BY <1>1, FS_CardinalityType DEF Live
  <1>3. ASSUME rows' = rows PROVE Live(q)' = Live(q)
    BY <1>3, Zenon DEF Live, RowsOf
  <1>4. ASSUME NEW st, NEW b, NEW row, row = Row(st, rows[t].payment, b),
               rows' = [rows EXCEPT ![t] = row]
        PROVE  Live(q)' = Live(q) + Count(rows[t].payment = q /\ IsLive(st))
                                  - Count(rows[t].payment = q /\ IsLive(rows[t].status))
    <2>1. row.payment = rows[t].payment /\ row.status = st
      BY <1>4, Zenon DEF Row
    <2> DEFINE A == RowsOf(q, S)
               B == {u \in Tx : rows'[u].payment = q /\ rows'[u].status \in S}
    <2>2. /\ A \ {t} = B \ {t}
          /\ t \in A <=> rows[t].payment = q /\ IsLive(rows[t].status)
          /\ t \in B <=> rows[t].payment = q /\ IsLive(st)
      BY <1>4, <2>1, Zenon DEF RowsOf, IsLive
    <2>3. Live(q) = Cardinality(A) /\ Live(q)' = Cardinality(B)
      BY Zenon DEF Live, RowsOf
    <2> HIDE DEF A, B
    <2>4. Cardinality(B) = Cardinality(A) + Count(t \in B) - Count(t \in A)
      BY <1>1, <2>2, ChangeOne DEF A
    <2>5. /\ Count(t \in A) = Count(rows[t].payment = q /\ IsLive(rows[t].status))
          /\ Count(t \in B) = Count(rows[t].payment = q /\ IsLive(st))
      BY <2>2, Zenon DEF Count
    <2> QED
      BY <2>3, <2>4, <2>5, Zenon
  <1> QED
    BY <1>2, <1>3, <1>4, Zenon

\* A committed sink transaction moves the net count and the live count of
\* every payment together, but for a settle posted behind a final row.
LEMMA OnStatusCounts ==
  ASSUME SettlementTypeOK, IsFiniteSet(journal), NEW s \in StatusType, OnStatus(s), NEW q
  PROVE  /\ IsFiniteSet(journal')
         /\ NetSettled(q) \in Int /\ NetSettled(q)' \in Int /\ Live(q) \in Int /\ Live(q)' \in Int
         /\ RowsOf(q, {"finalized"}) \subseteq RowsOf(q, {"finalized"})'
         /\ \/ NetSettled(q)' - NetSettled(q) = Live(q)' - Live(q)
            \/ /\ s.phase = "confirmed" /\ rows[s.tx].status = "finalized"
               /\ PostWithin(SettleEntry(rows[s.tx].payment, s.block))
               /\ NetSettled(q)' - NetSettled(q) >= Live(q)' - Live(q)
               /\ RowsOf(q, {"finalized"})' # {}
  <1> DEFINE t == s.tx
             p == rows[t].payment
             b == s.block
             n == NetSettled(q)
             m == NetSettled(q)'
             k == Live(q)
             l == Live(q)'
  <1>0. t \in Tx /\ rows \in [Tx -> RowType] /\ n \in Int /\ k \in Int
    BY OnStatusEffect, NetStep, LiveStep, Zenon DEF SettlementTypeOK
  <1>c. /\ Count(p = q) \in Int /\ Count(p = q) >= 0
        /\ p # q => Count(p = q) = 0
    BY DEF Count
  <1>n. /\ journal' = journal => m = n
        /\ PostWithin(SettleEntry(p, b)) => IsFiniteSet(journal') /\ m = n + Count(p = q)
        /\ PostWithin(ReversalEntry(p, b)) => IsFiniteSet(journal') /\ m = n - Count(p = q)
    BY NetStep
  <1>l. rows' = rows => l = k
    BY <1>0, LiveStep, Zenon
  <1>1. CASE UNCHANGED <<rows, journal>>
    <2>1. m = n /\ l = k
      BY <1>1, <1>n, <1>l, Zenon
    <2>2. RowsOf(q, {"finalized"})' = RowsOf(q, {"finalized"})
      BY <1>1, Zenon DEF RowsOf
    <2> HIDE DEF n, m, k, l
    <2>3. m - n = l - k /\ m \in Int /\ l \in Int
      BY <1>0, <2>1
    <2> QED
      BY <1>0, <1>1, <2>2, <2>3, Zenon DEF n, m, k, l
  <1>2. CASE /\ rows[t].status \in {"pending", "reorged"}
             /\ rows' = [rows EXCEPT ![t] = Row("settled", p, b)]
             /\ PostWithin(SettleEntry(p, b))
    <2>1. IsFiniteSet(journal') /\ m = n + Count(p = q)
      BY <1>2, <1>n, Zenon
    <2>2. l = k + Count(p = q /\ IsLive("settled")) - Count(p = q /\ IsLive(rows[t].status))
      BY <1>0, <1>2, LiveStep, Zenon
    <2>3. /\ Count(p = q /\ IsLive("settled")) = Count(p = q)
          /\ Count(p = q /\ IsLive(rows[t].status)) = 0
      BY <1>2, Zenon DEF Count, IsLive
    <2>4. RowsOf(q, {"finalized"}) \subseteq RowsOf(q, {"finalized"})'
      BY <1>0, <1>2, FinalKept, Zenon
    <2> HIDE DEF n, m, k, l
    <2>5. m - n = l - k /\ m \in Int /\ l \in Int
      BY <1>0, <1>c, <2>1, <2>2, <2>3
    <2> QED
      BY <1>0, <2>1, <2>4, <2>5, Zenon DEF n, m, k, l
  <1>3. CASE /\ s.phase = "confirmed" /\ rows[t].status = "finalized"
             /\ rows' = rows
             /\ PostWithin(SettleEntry(p, b))
    <2>1. IsFiniteSet(journal') /\ m = n + Count(p = q) /\ l = k
      BY <1>3, <1>n, <1>l, Zenon
    <2>2. /\ RowsOf(q, {"finalized"})' = RowsOf(q, {"finalized"})
          /\ p = q => t \in RowsOf(q, {"finalized"})
      BY <1>0, <1>3, Zenon DEF RowsOf
    <2> HIDE DEF n, m, k, l
    <2>3. /\ m - n >= l - k /\ m \in Int /\ l \in Int
          /\ p # q => m - n = l - k
      BY <1>0, <1>c, <2>1
    <2> QED
      BY <1>0, <1>3, <2>1, <2>2, <2>3, Zenon DEF n, m, k, l
  <1>4. CASE /\ rows[t].status = "settled"
             /\ rows' = [rows EXCEPT ![t] = Row("reorged", p, NoBlock)]
             /\ PostWithin(ReversalEntry(p, b))
    <2>1. IsFiniteSet(journal') /\ m = n - Count(p = q)
      BY <1>4, <1>n, Zenon
    <2>2. l = k + Count(p = q /\ IsLive("reorged")) - Count(p = q /\ IsLive(rows[t].status))
      BY <1>0, <1>4, LiveStep, Zenon
    <2>3. /\ Count(p = q /\ IsLive("reorged")) = 0
          /\ Count(p = q /\ IsLive(rows[t].status)) = Count(p = q)
      BY <1>4, Zenon DEF Count, IsLive
    <2>4. RowsOf(q, {"finalized"}) \subseteq RowsOf(q, {"finalized"})'
      BY <1>0, <1>4, FinalKept, Zenon
    <2> HIDE DEF n, m, k, l
    <2>5. m - n = l - k /\ m \in Int /\ l \in Int
      BY <1>0, <1>c, <2>1, <2>2, <2>3
    <2> QED
      BY <1>0, <2>1, <2>4, <2>5, Zenon DEF n, m, k, l
  <1>5. CASE /\ rows[t].status = "settled"
             /\ rows' = [rows EXCEPT ![t] = Row("finalized", p, rows[t].block)]
             /\ journal' = journal
    <2>1. m = n
      BY <1>5, <1>n, Zenon
    <2>2. l = k + Count(p = q /\ IsLive("finalized")) - Count(p = q /\ IsLive(rows[t].status))
      BY <1>0, <1>5, LiveStep, Zenon
    <2>3. /\ Count(p = q /\ IsLive("finalized")) = Count(p = q)
          /\ Count(p = q /\ IsLive(rows[t].status)) = Count(p = q)
      BY <1>5, Zenon DEF Count, IsLive
    <2>4. RowsOf(q, {"finalized"}) \subseteq RowsOf(q, {"finalized"})'
      BY <1>0, <1>5, FinalKept, Zenon
    <2> HIDE DEF n, m, k, l
    <2>5. m - n = l - k /\ m \in Int /\ l \in Int
      BY <1>0, <1>c, <2>1, <2>2, <2>3
    <2> QED
      BY <1>0, <1>5, <2>4, <2>5, Zenon DEF n, m, k, l
  <1> QED
    BY <1>1, <1>2, <1>3, <1>4, <1>5, OnStatusEffect, Zenon

\* A committed sink transaction keeps the count.
LEMMA OnStatusLedger ==
  ASSUME SettlementTypeOK, LedgerInv, NEW s \in StatusType, OnStatus(s)
  PROVE  LedgerInv'
  <1>1. IsFiniteSet(journal) /\ IsFiniteSet(journal') /\ \A q \in Payment : Matches(q)
    BY OnStatusCounts, PostingsMatch, Zenon DEF LedgerInv
  <1>2. ASSUME NEW q \in Payment PROVE Matches(q)'
    BY <1>1, OnStatusCounts, MatchesStep, Zenon
  <1> QED
    BY <1>1, <1>2, Zenon DEF LedgerInv, PostingsMatchRows, Matches, Live

\* No entries and no rows match at the start.
LEMMA InitLedger == Init => LedgerInv
  <1> SUFFICES ASSUME Init PROVE LedgerInv
    BY Zenon
  <1>1. journal = {} /\ \A t \in Tx : rows[t].status = "none"
    BY Zenon DEF Init, SettlementInit, Row
  <1>2. ASSUME NEW p \in Payment
        PROVE  /\ EntriesOf("settle", p) = {} /\ EntriesOf("reversal", p) = {}
               /\ RowsOf(p, {"settled", "finalized"}) = {}
    BY <1>1, Zenon DEF EntriesOf, RowsOf
  <1> QED
    BY <1>1, <1>2, FS_EmptySet DEF LedgerInv, PostingsMatchRows, NetSettled

\* Every step keeps the ledger invariant; only the sink moves it.
LEMMA LedgerStep == TypeOK /\ LedgerInv /\ [Next]_vars => LedgerInv'
  <1> SUFFICES ASSUME TypeOK, LedgerInv, [Next]_vars PROVE LedgerInv'
    BY Zenon
  <1>0. SettlementTypeOK /\ WatcherTypeOK
    BY Zenon DEF TypeOK
  <1>1. ASSUME UNCHANGED <<rows, journal>> PROVE LedgerInv'
    BY <1>1, Zenon DEF LedgerInv, PostingsMatchRows, NetSettled, EntriesOf, RowsOf
  <1>2. CASE LinkStep
    <2>1. PICK t \in Tx, p \in Payment : Link(t, p)
      BY <1>2, Zenon DEF LinkStep
    <2>2. /\ rows[t].status = "none" /\ journal' = journal
          /\ rows' = [rows EXCEPT ![t] = Row("pending", p, NoBlock)]
      BY <2>1, Zenon DEF Link
    <2>3. /\ Row("pending", p, NoBlock).status = "pending"
          /\ rows'[t] = Row("pending", p, NoBlock)
          /\ \A u \in Tx \ {t} : rows'[u] = rows[u]
      BY <1>0, <2>2, Zenon DEF Row, SettlementTypeOK
    <2>4. \A q : /\ RowsOf(q, {"settled", "finalized"})' = RowsOf(q, {"settled", "finalized"})
                 /\ RowsOf(q, {"finalized"})' = RowsOf(q, {"finalized"})
      BY <2>2, <2>3, Zenon DEF RowsOf
    <2>5. \A q : NetSettled(q)' = NetSettled(q)
      BY <2>2, Zenon DEF NetSettled, EntriesOf
    <2> QED
      BY <2>2, <2>4, <2>5, Zenon DEF LedgerInv, PostingsMatchRows
  <1>3. CASE PaymentStep
    BY <1>1, <1>3, Zenon DEF PaymentStep, Pay
  <1>4. CASE Deliver \/ DeliverFault
    <2>1. NextStatus \in StatusType
      BY <1>0, <1>4, DispatchType, Zenon DEF Deliver, DeliverFault
    <2>2. CASE OnStatus(NextStatus)
      BY <1>0, <2>1, <2>2, OnStatusLedger, Zenon
    <2>3. CASE UNCHANGED settlementVars
      BY <1>1, <2>3, Zenon DEF settlementVars
    <2> QED
      BY <1>4, <2>2, <2>3, Zenon DEF Deliver, DeliverFault
  <1>5. CASE UNCHANGED settlementVars
    BY <1>1, <1>5, Zenon DEF settlementVars
  <1> QED
    BY <1>2, <1>3, <1>4, <1>5, Zenon
    DEF Next, ChainStep, PollStep, DeliverRefused, RescanList, RescanSeed, Restart, vars

\* Whatever the chain does and however statuses are lost, repeated or late, the
\* settle entries of a payment that no reversal undid are one per settled row,
\* and never fewer than its settled and finalised rows: no row claims a
\* settlement the ledger does not hold.
THEOREM LedgerMatchesRows == Spec => []PostingsMatchRows
  <1>1. LedgerInv => PostingsMatchRows
    BY Zenon DEF LedgerInv
  <1> QED
    BY <1>1, InitType, TypeStep, InitLedger, LedgerStep, PTL DEF Spec

(***************************************************************************)
(* Events.  EventsTellTheRow is inductive as it stands: a handler appends  *)
(* the event of exactly the row it has matched.                            *)
(***************************************************************************)
EventType == {"confirmed", "reorged", "finalized"}

\* The status an event leaves its row in.
Told(type) == IF type = "confirmed" THEN "settled" ELSE type

Tells(evs, status) ==
    /\ status \in {"none", "pending"} <=> Len(evs) = 0
    /\ Len(evs) > 0 => status = Told(evs[Len(evs)])
    /\ \A i \in 1..Len(evs) : evs[i] = "confirmed" <=> i % 2 = 1

\* The event of a legal change of status keeps the story straight.
LEMMA TellsAppend ==
  ASSUME NEW evs \in Seq(EventType), NEW status, Tells(evs, status), NEW type \in EventType,
         IF type = "confirmed" THEN status \in {"pending", "reorged"} ELSE status = "settled"
  PROVE  Tells(Append(evs, type), Told(type))
  <1> DEFINE n == Len(evs)
             new == Append(evs, type)
  <1>1. /\ n \in Nat /\ Len(new) = n + 1 /\ new[n + 1] = type
        /\ \A i \in 1..n : new[i] = evs[i]
    OBVIOUS
  <1>2. type = "confirmed" <=> n % 2 = 0
    <2>1. CASE n = 0
      BY <2>1 DEF Tells, EventType
    <2>2. CASE n > 0
      <3>1. n \in 1..n /\ evs[n] \in EventType
        BY <1>1, <2>2
      <3>2. evs[n] = "confirmed" <=> n % 2 = 1
        BY <3>1, Zenon DEF Tells
      <3>3. status = Told(evs[n])
        BY <2>2, Zenon DEF Tells
      <3>4. type = "confirmed" <=> evs[n] # "confirmed"
        BY <3>1, <3>3, Zenon DEF Told, EventType
      <3>5. n % 2 = 0 \/ n % 2 = 1
        BY <1>1
      <3> QED BY <3>2, <3>4, <3>5
    <2> QED BY <1>1, <2>1, <2>2
  <1>3. n % 2 = 0 <=> (n + 1) % 2 = 1
    BY <1>1
  <1>4. \A i \in 1..(n + 1) : new[i] = "confirmed" <=> i % 2 = 1
    <2> TAKE i \in 1..(n + 1)
    <2>1. CASE i = n + 1
      BY <1>1, <1>2, <1>3, <2>1, Zenon
    <2>2. CASE i \in 1..n
      BY <1>1, <2>2, Zenon DEF Tells
    <2> QED BY <1>1, <2>1, <2>2
  <1>5. Told(type) \notin {"none", "pending"}
    BY Zenon DEF Told, EventType
  <1> QED BY <1>1, <1>4, <1>5 DEF Tells

\* A committed sink transaction keeps every row told.
LEMMA OnStatusTells ==
  ASSUME SettlementTypeOK, EventsTellTheRow, NEW s \in StatusType, OnStatus(s)
  PROVE  EventsTellTheRow'
  <1>0. s.tx \in Tx /\ \A u \in Tx : Tells(events[u], rows[u].status)
    BY Zenon DEF StatusType, EventsTellTheRow, Tells, Told
  <1> SUFFICES ASSUME NEW t \in Tx, t = s.tx, NEW u \in Tx
               PROVE  Tells(events'[u], rows'[u].status)
    BY <1>0, Zenon DEF EventsTellTheRow, Tells, Told
  <1>1. CASE UNCHANGED <<rows, events>>
    BY <1>0, <1>1, Zenon
  <1>2. ASSUME NEW type \in EventType, NEW b,
               rows' = [rows EXCEPT ![t] = Row(Told(type), @.payment, b)], EmitEvent(t, type),
               IF type = "confirmed" THEN rows[t].status \in {"pending", "reorged"}
                                     ELSE rows[t].status = "settled"
        PROVE  Tells(events'[u], rows'[u].status)
    <2>1. /\ events \in [Tx -> Seq(EventType)] /\ rows \in [Tx -> RowType]
      BY Zenon DEF SettlementTypeOK, EventType
    <2>2. CASE u # t
      BY <1>0, <1>2, <2>1, <2>2, Zenon DEF EmitEvent
    <2>3. CASE u = t
      <3>1. events'[t] = Append(events[t], type)
        BY <1>2, <2>1, Zenon DEF EmitEvent
      <3>2. rows'[t].status = Told(type)
        BY <1>2, <2>1, Zenon DEF Row
      <3>3. events[t] \in Seq(EventType) /\ Tells(events[t], rows[t].status)
        BY <1>0, <2>1, Zenon
      <3> QED BY <1>2, <2>3, <3>1, <3>2, <3>3, TellsAppend, Zenon
    <2> QED BY <2>2, <2>3, Zenon
  <1>3. CASE Settle(t, s.block)
    BY <1>1, <1>2, <1>3, Zenon DEF Settle, MarkSettlementSettled, settlementVars, Told, EventType
  <1>4. CASE Reverse(t, s.block)
    BY <1>1, <1>2, <1>4, Zenon DEF Reverse, settlementVars, Told, EventType
  <1>5. CASE Finalize(t)
    BY <1>1, <1>2, <1>5, Zenon DEF Finalize, settlementVars, Told, EventType
  <1> QED
    BY <1>1, <1>3, <1>4, <1>5, Zenon DEF OnStatus, settlementVars

\* Every step keeps the rows told.
LEMMA TellsStep == TypeOK /\ EventsTellTheRow /\ [Next]_vars => EventsTellTheRow'
  <1> SUFFICES ASSUME TypeOK, EventsTellTheRow, [Next]_vars PROVE EventsTellTheRow'
    BY Zenon
  <1>0. SettlementTypeOK /\ WatcherTypeOK
    BY Zenon DEF TypeOK
  <1>1. ASSUME UNCHANGED <<rows, events>> PROVE EventsTellTheRow'
    BY <1>1, Zenon DEF EventsTellTheRow
  <1>2. CASE LinkStep
    <2>1. PICK t \in Tx, p \in Payment : Link(t, p)
      BY <1>2, Zenon DEF LinkStep
    <2>2. \A u \in Tx : /\ events'[u] = events[u]
                        /\ u # t => rows'[u] = rows[u]
                        /\ rows[t].status = "none" /\ rows'[t].status = "pending"
      BY <1>0, <2>1, Zenon DEF Link, Row, SettlementTypeOK
    <2>3. Len(events[t]) = 0
      BY <2>2, Zenon DEF EventsTellTheRow
    <2> QED BY <2>2, <2>3 DEF EventsTellTheRow
  <1>3. CASE PaymentStep
    BY <1>1, <1>3, Zenon DEF PaymentStep, Pay
  <1>4. CASE Deliver \/ DeliverFault
    <2>1. NextStatus \in StatusType
      BY <1>0, <1>4, DispatchType, Zenon DEF Deliver, DeliverFault
    <2>2. CASE OnStatus(NextStatus)
      BY <1>0, <2>1, <2>2, OnStatusTells, Zenon
    <2>3. CASE UNCHANGED settlementVars
      BY <1>1, <2>3, Zenon DEF settlementVars
    <2> QED
      BY <1>4, <2>2, <2>3, Zenon DEF Deliver, DeliverFault
  <1>5. CASE UNCHANGED settlementVars
    BY <1>1, <1>5, Zenon DEF settlementVars
  <1> QED
    BY <1>2, <1>3, <1>4, <1>5, Zenon
    DEF Next, ChainStep, PollStep, DeliverRefused, RescanList, RescanSeed, Restart, vars

\* outbox.Emit inside the sink's transactions: folding the events of any
\* transaction, in order, always ends in the status of its row.
THEOREM EventsTellTheRowHolds == Spec => []EventsTellTheRow
  <1>1. Init => EventsTellTheRow
    BY DEF Init, SettlementInit, Row, EventsTellTheRow
  <1> QED
    BY <1>1, InitType, TypeStep, TellsStep, PTL DEF Spec

(***************************************************************************)
(* The clearing account.  HouseCovers is inductive as it stands: a posting *)
(* moves the balance of the clearing account and the sum over the live     *)
(* rows by the same amount, and what payments take out is counted in drawn.*)
(***************************************************************************)
LiveTx == {t \in Tx : IsLive(rows[t].status) /\ DestOf[rows[t].payment] # House}

Held == SumFunctionOnSet([t \in LiveTx |-> Amount[rows[t].payment]], LiveTx)

\* HouseCovers, with its sum named.
LEMMA HouseCoversHeld == HouseCovers <=> balance[House] + drawn >= Held
  BY Zenon DEF HouseCovers, Held, LiveTx, IsLive

\* What a settle entry of p moves into the clearing account: nothing, when
\* that account is the payment's own destination.
Moves(p) == IF DestOf[p] # House THEN Amount[p] ELSE 0

\* What the two postings do to the clearing account.
LEMMA HousePosting ==
  ASSUME SettlementTypeOK, NEW p \in Payment, NEW b
  PROVE  /\ PostWithin(SettleEntry(p, b)) => balance'[House] = balance[House] + Moves(p)
         /\ PostWithin(ReversalEntry(p, b)) => balance'[House] = balance[House] - Moves(p)
  <1>1. /\ House \in Account /\ Amount[p] \in Int
        /\ balance[House] \in Int
    BY SettlementAssumption DEF SettlementTypeOK
  <1>2. /\ House \in DOMAIN SettleEntry(p, b).lines
        /\ SettleEntry(p, b).lines[House] = Moves(p)
    BY <1>1 DEF SettleEntry, Transfer, Moves
  <1>3. /\ House \in DOMAIN ReversalEntry(p, b).lines
        /\ ReversalEntry(p, b).lines[House] = 0 - Moves(p)
    BY <1>1 DEF ReversalEntry, Transfer, Moves
  <1>4. ASSUME PostWithin(SettleEntry(p, b))
        PROVE  balance'[House] = balance[House] + SettleEntry(p, b).lines[House]
    BY <1>1, <1>2, <1>4, Zenon DEF PostWithin, ApplyToBalances
  <1>5. ASSUME PostWithin(ReversalEntry(p, b))
        PROVE  balance'[House] = balance[House] + ReversalEntry(p, b).lines[House]
    BY <1>1, <1>3, <1>5, Zenon DEF PostWithin, ApplyToBalances
  <1>6. Moves(p) \in Int
    BY <1>1 DEF Moves
  <1> QED
    BY <1>1, <1>2, <1>3, <1>4, <1>5, <1>6

\* What a row in status st claims of the clearing account.
Claim(p, st) == IF IsLive(st) THEN Moves(p) ELSE 0

\* One replaced row moves the sum by the change of its own claim.
LEMMA HeldStep ==
  ASSUME SettlementTypeOK, NEW t \in Tx, NEW p \in Payment, NEW st, NEW b,
         IsLive(rows[t].status) => rows[t].payment = p,
         rows' = [rows EXCEPT ![t] = Row(st, p, b)]
  PROVE  /\ Held \in Int /\ Held' \in Int
         /\ Claim(p, st) \in Int /\ Claim(p, rows[t].status) \in Int
         /\ Held' = Held - Claim(p, rows[t].status) + Claim(p, st)
  <1> DEFINE S == LiveTx
             T == {u \in Tx : IsLive(rows'[u].status) /\ DestOf[rows'[u].payment] # House}
             f == [u \in S |-> Amount[rows[u].payment]]
             g == [u \in T |-> Amount[rows'[u].payment]]
  <1>1. /\ rows'[t].status = st /\ rows'[t].payment = p
        /\ \A u \in Tx \ {t} : rows'[u] = rows[u]
    BY Zenon DEF SettlementTypeOK, Row
  <1>2. IsFiniteSet(S) /\ IsFiniteSet(T)
    BY SettlementAssumption, FS_Subset, Zenon DEF LiveTx
  <1>3. \A u \in Tx : IsLive(rows[u].status) => rows[u].payment \in Payment
    BY Zenon DEF SettlementTypeOK, IsLive
  <1>4. \A q \in Payment : Amount[q] \in Int
    BY SettlementAssumption
  <1>5. \A u \in S : f[u] \in Int
    BY <1>3, <1>4, Zenon DEF LiveTx
  <1>6. \A u \in T : g[u] \in Int
    BY <1>1, <1>3, <1>4, Zenon
  <1>7. S \ {t} = T \ {t}
    BY <1>1, Zenon DEF LiveTx
  <1>a. ASSUME NEW u \in S \ {t} PROVE g[u] = f[u]
    <2>1. u \in S /\ u \in T /\ u \in Tx \ {t}
      BY <1>7, Zenon DEF LiveTx
    <2>2. rows'[u] = rows[u]
      BY <1>1, <2>1, Zenon
    <2>3. f[u] = Amount[rows[u].payment] /\ g[u] = Amount[rows'[u].payment]
      BY <2>1, Zenon
    <2> QED
      BY <2>2, <2>3, Zenon
  <1>b. /\ t \in S <=> IsLive(rows[t].status) /\ DestOf[p] # House
        /\ t \in T <=> IsLive(st) /\ DestOf[p] # House
    BY <1>1, Zenon DEF LiveTx
  <1>c. (t \in S => f[t] = Amount[p]) /\ (t \in T => g[t] = Amount[p])
    BY <1>1, <1>b, Zenon
  <1>8. Term(f, S, t) = Claim(p, rows[t].status) /\ Term(g, T, t) = Claim(p, st)
    <2> HIDE DEF S, T, f, g
    <2> QED
      BY <1>b, <1>c, Zenon DEF Term, Claim, Moves
  <1>9. Held = SumFunctionOnSet(f, S) /\ Held' = SumFunctionOnSet(g, T)
    BY Zenon DEF Held, LiveTx
  <1> HIDE DEF S, T, f, g
  <1>10. /\ SumFunctionOnSet(f, S) \in Int /\ SumFunctionOnSet(g, T) \in Int
         /\ Term(f, S, t) \in Int /\ Term(g, T, t) \in Int
         /\ SumFunctionOnSet(g, T) = SumFunctionOnSet(f, S) - Term(f, S, t) + Term(g, T, t)
    BY ONLY <1>2, <1>5, <1>6, <1>7, <1>a, SumChange
  <1> QED
    BY <1>8, <1>9, <1>10, Zenon

\* The sum is a number.
LEMMA HeldInt ==
  ASSUME SettlementTypeOK
  PROVE  Held \in Int
  <1> DEFINE f == [u \in LiveTx |-> Amount[rows[u].payment]]
  <1>0. \A q \in Payment : Amount[q] \in Int
    BY SettlementAssumption
  <1>1. IsFiniteSet(LiveTx)
    BY SettlementAssumption, FS_Subset, Zenon DEF LiveTx
  <1>2. \A u \in LiveTx : f[u] \in Int
    BY <1>0, Zenon DEF SettlementTypeOK, LiveTx, IsLive
  <1> HIDE DEF f
  <1>3. SumFunctionOnSet(f, LiveTx) \in Int
    BY ONLY <1>1, <1>2, SumInt
  <1> QED
    BY <1>3, Zenon DEF Held, f

\* A payment takes no more out of the clearing account than drawn grows by.
LEMMA PayHouse ==
  ASSUME SettlementTypeOK, drawn \in Nat, NEW p \in Payment,
         NEW x \in Account, NEW y \in Account, x # y, Pay(x, y, Amount[p]),
         drawn' = IF x = House THEN drawn + Amount[p] ELSE drawn
  PROVE  /\ rows' = rows
         /\ balance[House] \in Int /\ balance'[House] \in Int /\ drawn' \in Int
         /\ balance[House] + drawn <= balance'[House] + drawn'
  <1>1. House \in Account /\ Amount[p] \in Nat /\ balance[House] \in Int
    BY SettlementAssumption DEF SettlementTypeOK
  <1>2. rows' = rows /\ balance' = ApplyToBalances(Transfer(x, y, Amount[p]))
    BY Zenon DEF Pay
  <1>3. balance'[House] = IF House \in {x, y} THEN balance[House] + Transfer(x, y, Amount[p])[House]
                                              ELSE balance[House]
    BY <1>1, <1>2, Zenon DEF ApplyToBalances, Transfer
  <1>4. House \in {x, y} => Transfer(x, y, Amount[p])[House] =
                               IF House = y THEN Amount[p] ELSE 0 - Amount[p]
    BY <1>1 DEF Transfer
  <1> QED
    BY <1>1, <1>2, <1>3, <1>4

\* A committed sink transaction keeps the clearing account covering its rows.
LEMMA OnStatusHouse ==
  ASSUME SettlementTypeOK, HouseCovers, NEW s \in StatusType, OnStatus(s),
         drawn \in Nat, drawn' = drawn
  PROVE  HouseCovers'
  <1> DEFINE t == s.tx
             p == rows[t].payment
             b == s.block
  <1>0. t \in Tx /\ balance[House] + drawn >= Held /\ balance[House] \in Int
    BY OnStatusEffect, HouseCoversHeld, SettlementAssumption, Zenon DEF SettlementTypeOK
  <1>1. CASE UNCHANGED <<rows, balance>>
    BY <1>1, Zenon DEF HouseCovers
  <1>2. ASSUME p \in Payment,
               NEW st, NEW c, rows' = [rows EXCEPT ![t] = Row(st, p, c)],
               balance'[House] = balance[House] - Claim(p, rows[t].status) + Claim(p, st)
        PROVE  HouseCovers'
    <2>1. /\ Held \in Int /\ Held' \in Int
          /\ Claim(p, st) \in Int /\ Claim(p, rows[t].status) \in Int
          /\ Held' = Held - Claim(p, rows[t].status) + Claim(p, st)
      BY <1>0, <1>2, HeldStep, Zenon
    <2>2. balance'[House] + drawn >= Held'
      BY <1>0, <1>2, <2>1
    <2> QED
      BY <2>2, Zenon DEF HouseCovers, Held, LiveTx, IsLive
  <1>3. \A q \in Payment : Amount[q] \in Int /\ Moves(q) \in Int /\ Moves(q) >= 0
    BY SettlementAssumption DEF Moves
  <1>4. CASE /\ p \in Payment /\ rows[t].status \in {"pending", "reorged"}
             /\ rows' = [rows EXCEPT ![t] = Row("settled", p, b)]
             /\ PostWithin(SettleEntry(p, b))
    <2>1. balance'[House] = balance[House] + Moves(p)
      BY <1>4, HousePosting, Zenon
    <2>2. Claim(p, rows[t].status) = 0 /\ Claim(p, "settled") = Moves(p)
      BY <1>4, Zenon DEF Claim, IsLive
    <2>3. balance'[House] = balance[House] - Claim(p, rows[t].status) + Claim(p, "settled")
      BY <1>0, <1>3, <1>4, <2>1, <2>2
    <2> QED
      BY <1>2, <1>4, <2>3, Zenon
  <1>5. CASE /\ p \in Payment /\ rows[t].status = "finalized"
             /\ rows' = rows
             /\ PostWithin(SettleEntry(p, b))
    <2>1. balance'[House] = balance[House] + Moves(p) /\ Held' = Held
      BY <1>5, HousePosting, Zenon DEF Held, LiveTx
    <2>2. Held \in Int
      BY HeldInt, Zenon
    <2>3. balance'[House] + drawn >= Held'
      BY <1>0, <1>3, <1>5, <2>1, <2>2
    <2> QED
      BY <2>3, Zenon DEF HouseCovers, Held, LiveTx, IsLive
  <1>6. CASE /\ p \in Payment /\ rows[t].status = "settled"
             /\ rows' = [rows EXCEPT ![t] = Row("reorged", p, NoBlock)]
             /\ PostWithin(ReversalEntry(p, b))
    <2>1. balance'[House] = balance[House] - Moves(p)
      BY <1>6, HousePosting, Zenon
    <2>2. Claim(p, rows[t].status) = Moves(p) /\ Claim(p, "reorged") = 0
      BY <1>6, Zenon DEF Claim, IsLive
    <2>3. balance'[House] = balance[House] - Claim(p, rows[t].status) + Claim(p, "reorged")
      BY <1>0, <1>3, <1>6, <2>1, <2>2
    <2> QED
      BY <1>2, <1>6, <2>3, Zenon
  <1>7. CASE /\ p \in Payment /\ rows[t].status = "settled"
             /\ rows' = [rows EXCEPT ![t] = Row("finalized", p, rows[t].block)]
             /\ balance' = balance
    <2>1. Claim(p, rows[t].status) = Moves(p) /\ Claim(p, "finalized") = Moves(p)
      BY <1>7, Zenon DEF Claim, IsLive
    <2>2. balance'[House] = balance[House] - Claim(p, rows[t].status) + Claim(p, "finalized")
      BY <1>0, <1>3, <1>7, <2>1
    <2> QED
      BY <1>2, <1>7, <2>2, Zenon
  <1> QED
    BY <1>1, <1>4, <1>5, <1>6, <1>7, OnStatusEffect, Zenon

\* Every step keeps the clearing account covering its rows.
LEMMA HouseStep == TypeOK /\ HouseCovers /\ [Next]_vars => HouseCovers'
  <1> SUFFICES ASSUME TypeOK, HouseCovers, [Next]_vars PROVE HouseCovers'
    BY Zenon
  <1>0. SettlementTypeOK /\ WatcherTypeOK /\ drawn \in Nat
    BY Zenon DEF TypeOK
  <1>1. ASSUME rows' = rows, balance'[House] = balance[House], drawn' = drawn PROVE HouseCovers'
    BY <1>1, Zenon DEF HouseCovers
  <1>2. CASE LinkStep
    <2>1. PICK t \in Tx, p \in Payment : Link(t, p)
      BY <1>2, Zenon DEF LinkStep
    <2>2. /\ rows[t].status = "none" /\ balance' = balance /\ drawn' = drawn
          /\ rows' = [rows EXCEPT ![t] = Row("pending", p, NoBlock)]
      BY <1>2, <2>1, Zenon DEF LinkStep, Link, envVars
    <2>3. LiveTx' = LiveTx /\ \A u \in LiveTx : rows'[u] = rows[u]
      BY <1>0, <2>2, Zenon DEF LiveTx, IsLive, Row, SettlementTypeOK
    <2>4. Held' = Held
      BY <2>3, Zenon DEF Held
    <2> QED
      BY <2>2, <2>4, HouseCoversHeld, Zenon DEF HouseCovers, Held, LiveTx, IsLive
  <1>3. CASE PaymentStep
    <2>1. PICK p \in Payment, x \in Account, y \in Account :
            /\ x # y /\ Pay(x, y, Amount[p])
            /\ drawn' = IF x = House THEN drawn + Amount[p] ELSE drawn
      BY <1>3, Zenon DEF PaymentStep
    <2>2. rows' = rows /\ balance[House] + drawn <= balance'[House] + drawn'
      BY <1>0, <2>1, PayHouse
    <2>3. Held' = Held /\ Held \in Int
      BY <1>0, <2>2, HeldInt, Zenon DEF Held, LiveTx
    <2>4. balance[House] + drawn >= Held
      BY HouseCoversHeld, Zenon
    <2>5. balance'[House] + drawn' >= Held'
      <3>1. balance[House] \in Int /\ balance'[House] \in Int /\ drawn' \in Int
        BY <1>0, <2>1, PayHouse
      <3> QED
        BY <1>0, <2>2, <2>3, <2>4, <3>1
    <2> QED
      BY <2>5, Zenon DEF HouseCovers, Held, LiveTx, IsLive
  <1>4. CASE Deliver \/ DeliverFault
    <2>1. NextStatus \in StatusType
      BY <1>0, <1>4, DispatchType, Zenon DEF Deliver, DeliverFault
    <2>0. drawn' = drawn
      BY <1>4, Zenon DEF Deliver, DeliverFault, envVars
    <2>2. CASE OnStatus(NextStatus)
      BY <1>0, <2>0, <2>1, <2>2, OnStatusHouse, Zenon
    <2>3. CASE UNCHANGED settlementVars
      BY <1>1, <2>0, <2>3, Zenon DEF settlementVars
    <2> QED
      BY <1>4, <2>2, <2>3, Zenon DEF Deliver, DeliverFault
  <1>5. CASE UNCHANGED settlementVars /\ drawn' = drawn
    BY <1>1, <1>5, Zenon DEF settlementVars
  <1> QED
    BY <1>2, <1>3, <1>4, <1>5, Zenon
    DEF Next, ChainStep, PollStep, DeliverRefused, RescanList, RescanSeed, Restart, vars, envVars

\* No row has moved money into the clearing account at the start.
LEMMA InitHouse == Init => HouseCovers
  <1> SUFFICES ASSUME Init PROVE HouseCovers
    BY Zenon
  <1>1. LiveTx = {} /\ balance[House] + drawn >= 0
    <2>1. LiveTx = {} /\ balance = Opening /\ drawn = 0
      BY Zenon DEF Init, SettlementInit, Row, LiveTx, IsLive
    <2>2. Opening[House] \in Nat
      BY SettlementAssumption
    <2> QED
      BY <2>1, <2>2
  <1>2. Held = 0
    BY <1>1, SumUnfold, FS_EmptySet, Zenon DEF Held
  <1> QED
    BY <1>1, <1>2, HouseCoversHeld, Zenon

\* Whatever payments are made, on the clearing account too, and however often
\* statuses are repeated, lost or reversed: that account holds what the settled
\* and finalised rows moved into it, less at most what payments took out of it.
THEOREM HouseAlwaysCovers == Spec => []HouseCovers
  BY InitType, TypeStep, InitHouse, HouseStep, PTL DEF Spec

(***************************************************************************)
(* No payment is settled twice.  A second settle entry can only be posted  *)
(* behind a final row, for a block the payment was not settled at.  While  *)
(* nothing lapses that cannot happen: the entry, the statuses              *)
(* of the pass and the listed rows of a transaction agree with its row,    *)
(* and the block a row is final at stays canonical, so a late Confirmed    *)
(* names the block the ledger already holds.                               *)
(***************************************************************************)
Unsettled == {"pending", "reorged", "finalized"}
Recorded(p, b) == SettleEntry(p, b) \in journal
Undone(p, b) == ReversalEntry(p, b) \in journal

\* t is in b, and b is canonical and too deep to be reorganised away.
Rooted(t, b) == t \in Includes[b] /\ Canonical(b) /\ Buried(b, FinalityDepth)

SettledAt(t, b) == rows[t].status = "settled" /\ rows[t].block = b

\* The statuses of the pass, and those of t.
Flying == {emitted[i] : i \in 1..Len(emitted)}
Flight(t) == {s \in Flying : s.tx = t}

\* What a status on its way to the sink says of the entry and the row.
StatusFits(t, s) ==
    /\ s.phase = "mined" => entry[t].phase = "mined" /\ rows[t].status \in Unsettled
    /\ s.phase = "confirmed" =>
          /\ entry[t].phase = "confirmed" /\ entry[t].block = s.block
          /\ rows[t].status \in Unsettled
          /\ rows[t].status = "finalized" => Recorded(rows[t].payment, s.block)
    /\ s.phase = "reorged" =>
          /\ entry[t].phase = "pending"
          /\ rows[t].status \in Unsettled \/ SettledAt(t, s.block)
    /\ s.phase = "finalized" =>
          Rooted(t, s.block) /\ (rows[t].status = "finalized" \/ SettledAt(t, s.block))

\* With no status on its way, the entry itself agrees with the row.
EntryFits(t) ==
    /\ entry[t].phase \in {"pending", "mined"} => rows[t].status \in Unsettled
    /\ entry[t].phase = "confirmed" =>
          rows[t].status = "finalized" \/ SettledAt(t, entry[t].block)
    /\ entry[t].phase = "untracked" =>
          \A row \in listed : row.tx = t =>
              \/ rows[t].status = "finalized"
              \/ row.status = rows[t].status /\ row.block = rows[t].block

Fits(t) ==
    /\ \A s \in Flight(t) : StatusFits(t, s)
    /\ Flight(t) = {} => EntryFits(t)

\* What the ledger and the chain hold for a live row.
RowFits(t) ==
    /\ rows[t].status = "settled" =>
          /\ Recorded(rows[t].payment, rows[t].block)
          /\ ~Undone(rows[t].payment, rows[t].block)
    /\ rows[t].status = "finalized" =>
          \E f \in Block : Rooted(t, f) /\ Recorded(rows[t].payment, f)

UndoneRecorded == \A p \in Payment, b \in Block : Undone(p, b) => Recorded(p, b)

OneRowPerEntry ==
    \A t, u \in Tx :
        /\ rows[t].status = "settled" /\ rows[u].status = "settled"
        /\ rows[t].payment = rows[u].payment /\ rows[t].block = rows[u].block
        => t = u

Clean == (\A t \in Tx : Fits(t) /\ RowFits(t)) /\ UndoneRecorded /\ OneRowPerEntry

\* The phase an entry last surfaced, by its own phase: a Confirmed, a Reorged
\* and a Finalized are never held back as repeated.
LastFits(e) ==
    /\ e.phase = "pending" => e.lastPhase \in {"pending", "reorged"}
    /\ e.phase = "mined" => e.lastPhase \in {"pending", "mined"}
    /\ e.phase = "confirmed" => e.lastPhase = "confirmed"

\* A pass surfaces a transaction once, and has none to observe it has surfaced.
Once == \A i, j \in 1..Len(emitted) : emitted[i].tx = emitted[j].tx => i = j
Busy == \A s \in Flying : s.tx \notin todo /\ s.tx # cur

Orderly == (\A t \in Tx : LastFits(entry[t])) /\ Once /\ Busy

\* The statuses of a pass are statuses.
LEMMA FlyingType ==
  ASSUME emitted \in Seq(StatusType)
  PROVE  \A s \in Flying : s \in StatusType /\ s.tx \in Tx
  <1>1. \A i \in 1..Len(emitted) : emitted[i] \in StatusType
    OBVIOUS
  <1> QED
    BY <1>1, Zenon DEF Flying, StatusType

\* Surfacing a status of a transaction that has none.
LEMMA FlyingAppend ==
  ASSUME emitted \in Seq(StatusType), NEW s \in StatusType, emitted' = Append(emitted, s)
  PROVE  /\ Flying' = Flying \cup {s}
         /\ Once /\ (\A x \in Flying : x.tx # s.tx) => Once'
  <1>1. /\ Len(emitted) \in Nat /\ Len(emitted') = Len(emitted) + 1
        /\ \A i \in 1..Len(emitted) : emitted'[i] = emitted[i]
        /\ emitted'[Len(emitted) + 1] = s
    OBVIOUS
  <1>2. 1..Len(emitted') = 1..Len(emitted) \cup {Len(emitted) + 1}
    BY <1>1
  <1>3. Flying' = Flying \cup {s}
    BY <1>1, <1>2 DEF Flying
  <1>4. ASSUME Once, \A x \in Flying : x.tx # s.tx PROVE Once'
    <2>1. \A i \in 1..Len(emitted) : emitted[i].tx # s.tx
      BY <1>4, Zenon DEF Flying
    <2> QED
      BY <1>1, <1>2, <1>4, <2>1 DEF Once
  <1> QED
    BY <1>3, <1>4, Zenon

\* Taking the first status of the pass.
LEMMA FlyingTail ==
  ASSUME emitted \in Seq(StatusType), emitted # << >>, emitted' = Tail(emitted), Once
  PROVE  /\ Head(emitted) \in Flying
         /\ \A x \in Flying' : x \in Flying /\ x.tx # Head(emitted).tx
         /\ \A x \in Flying : x.tx # Head(emitted).tx => x \in Flying'
         /\ \A x \in Flying : x.tx = Head(emitted).tx => x = Head(emitted)
         /\ Once'
  <1>1. /\ Head(emitted) = emitted[1] /\ 1 \in 1..Len(emitted)
        /\ \A i \in 1..Len(emitted') : i + 1 \in 1..Len(emitted) /\ emitted'[i] = emitted[i + 1]
    BY HeadTailSeq, Zenon
  <1>2. \A i \in 1..Len(emitted) : i = 1 \/ (i - 1 \in 1..Len(emitted') /\ emitted'[i - 1] = emitted[i])
    OBVIOUS
  <1>3. \A i, j \in 1..Len(emitted') : i + 1 # 1 /\ (i + 1 = j + 1 => i = j)
    OBVIOUS
  <1>4. \A i, j \in 1..Len(emitted) : emitted[i].tx = emitted[j].tx => i = j
    BY Zenon DEF Once
  <1>5. Once'
    BY <1>1, <1>3, <1>4 DEF Once
  <1>6. ASSUME NEW x \in Flying' PROVE x \in Flying /\ x.tx # Head(emitted).tx
    BY <1>1, <1>3, <1>4 DEF Flying
  <1>7. ASSUME NEW x \in Flying PROVE x = Head(emitted) \/ x \in Flying'
    BY <1>1, <1>2 DEF Flying
  <1>8. Head(emitted) \in Flying
    BY <1>1, Zenon DEF Flying
  <1> QED
    BY <1>5, <1>6, <1>7, <1>8, Zenon

\* An observation always leaves the phase it surfaced, and surfaces a status
\* whose phase is not the last one.
LEMMA ObserveLast ==
  ASSUME WatcherTypeOK, NEW t \in Tx, NEW ph, NEW c, NEW phase, NEW b, NEW depth,
         Observe(t, At(entry[t], ph, c), phase, b, depth)
  PROVE  /\ entry'[t].phase = ph /\ entry'[t].block = c /\ entry'[t].lastPhase = phase
         /\ \A u \in Tx \ {t} : entry'[u] = entry[u]
         /\ emitted' = emitted \/ emitted' = Append(emitted, Status(t, phase, b))
         /\ entry[t].lastPhase # phase => emitted' = Append(emitted, Status(t, phase, b))
  <1> DEFINE e == At(entry[t], ph, c)
             f == Stamp(e, phase, depth)
  <1>1. e.phase = ph /\ e.block = c /\ e.lastPhase = entry[t].lastPhase
    BY Zenon DEF At, Entry
  <1>2. entry' = [entry EXCEPT ![t] = f] /\ emitted' = Surfaced(t, e, phase, b, depth)
    BY Zenon DEF Observe
  <1> HIDE DEF e
  <1>3. f.phase = ph /\ f.block = c /\ f.lastPhase = phase
    BY <1>1, Zenon DEF Stamp, Repeated, Entry
  <1>4. entry'[t] = f /\ \A u \in Tx \ {t} : entry'[u] = entry[u]
    BY <1>2, Zenon DEF WatcherTypeOK
  <1> QED
    BY <1>1, <1>2, <1>3, <1>4, Zenon DEF Surfaced, Repeated

\* A read of the pass either leaves phases, anchors and statuses as they are ...
Kept ==
    /\ emitted' = emitted
    /\ \A u \in Tx : entry'[u].phase = entry[u].phase /\ entry'[u].block = entry[u].block

\* ... or moves one entry and surfaces the status that tells of it.
Moved(t, s) ==
    /\ s.tx = t /\ t \in todo \cup {cur} /\ t \notin todo' \cup {cur'}
    /\ todo' \cup {cur'} \subseteq todo \cup {NoTx}
    /\ emitted' = Append(emitted, s)
    /\ \A u \in Tx \ {t} : entry'[u] = entry[u]
    /\ LastFits(entry'[t])
    /\ \/ /\ entry[t].phase \in {"pending", "mined"} /\ s.phase \in {"mined", "confirmed"}
          /\ entry'[t].phase = s.phase /\ entry'[t].block = s.block
          /\ t \in Includes[s.block] /\ Canonical(s.block)
       \/ /\ entry[t].phase \in {"mined", "confirmed"} /\ s.phase = "reorged"
          /\ s.block = entry[t].block /\ entry'[t].phase = "pending"
       \/ /\ entry[t].phase = "confirmed" /\ s.phase = "finalized"
          /\ s.block = entry[t].block /\ entry'[t].phase = "untracked"
          /\ Rooted(t, s.block)

\* Advancing an entry to a canonical block that holds its transaction.
LEMMA AdvanceMoves ==
  ASSUME WatcherTypeOK, NEW t \in Tx, NEW b \in Block, NEW depth, Advance(t, b, depth),
         LastFits(entry[t]), t \in todo \cup {cur}, t \notin todo' \cup {cur'},
         todo' \cup {cur'} \subseteq todo \cup {NoTx},
         t \in Includes[b], Canonical(b),
         entry[t].phase = "pending" \/ (entry[t].phase = "mined" /\ b = entry[t].block)
  PROVE  \/ Kept /\ LastFits(entry'[t]) /\ (\A u \in Tx \ {t} : entry'[u] = entry[u])
         \/ \E s \in StatusType : Moved(t, s)
  <1> DEFINE ph == IF depth >= Depth THEN "confirmed" ELSE "mined"
             s == Status(t, ph, b)
  <1>0. ph \in {"mined", "confirmed"} /\ Observe(t, At(entry[t], ph, b), ph, b, depth)
    BY Zenon DEF Advance
  <1> HIDE DEF ph
  <1>1. /\ entry'[t].phase = ph /\ entry'[t].block = b /\ entry'[t].lastPhase = ph
        /\ \A u \in Tx \ {t} : entry'[u] = entry[u]
        /\ emitted' = emitted \/ emitted' = Append(emitted, s)
        /\ entry[t].lastPhase # ph => emitted' = Append(emitted, s)
    BY <1>0, ObserveLast, Zenon
  <1>2. s \in StatusType /\ s.tx = t /\ s.phase = ph /\ s.block = b
    BY <1>0, Zenon DEF Status, StatusType, StatusPhase
  <1>3. LastFits(entry'[t])
    BY <1>0, <1>1, Zenon DEF LastFits
  <1> HIDE DEF s
  <1>4. CASE emitted' = Append(emitted, s)
    <2>1. Moved(t, s)
      BY <1>0, <1>1, <1>2, <1>3, <1>4, Zenon DEF Moved
    <2> QED
      BY <1>2, <2>1, Zenon
  <1>5. CASE emitted' = emitted /\ entry[t].lastPhase = ph
    <2>1. entry[t].phase = "mined" /\ b = entry[t].block /\ ph = "mined"
      BY <1>0, <1>5, Zenon DEF LastFits
    <2>2. Kept
      BY <1>1, <1>5, <2>1, Zenon DEF Kept
    <2> QED
      BY <1>1, <1>3, <2>2, Zenon
  <1> QED
    BY <1>1, <1>4, <1>5, Zenon

\* reverse always surfaces its Reorged.
LEMMA ReverseMoves ==
  ASSUME WatcherTypeOK, NEW t \in Tx, ReverseEntry(t), entry[t].block \in Block,
         LastFits(entry[t]), t \in todo \cup {cur}, t \notin todo' \cup {cur'},
         todo' \cup {cur'} \subseteq todo \cup {NoTx},
         entry[t].phase \in {"mined", "confirmed"}
  PROVE  \E s \in StatusType : Moved(t, s)
  <1> DEFINE s == Status(t, "reorged", entry[t].block)
  <1>0. Observe(t, At(entry[t], "pending", NoBlock), "reorged", entry[t].block, 0)
    BY Zenon DEF ReverseEntry
  <1>1. entry[t].lastPhase # "reorged"
    BY Zenon DEF LastFits
  <1>2. /\ entry'[t].phase = "pending" /\ entry'[t].lastPhase = "reorged"
        /\ \A u \in Tx \ {t} : entry'[u] = entry[u]
        /\ emitted' = Append(emitted, s)
    BY ONLY WatcherTypeOK, t \in Tx, <1>0, <1>1, ObserveLast, Zenon
  <1>3. s \in StatusType /\ s.tx = t /\ s.phase = "reorged" /\ s.block = entry[t].block
    BY Zenon DEF Status, StatusType, StatusPhase
  <1>4. LastFits(entry'[t])
    BY <1>2, Zenon DEF LastFits
  <1> HIDE DEF s
  <1>5. Moved(t, s)
    BY <1>2, <1>3, <1>4, Zenon DEF Moved
  <1> QED
    BY <1>3, <1>5, Zenon

\* Every read of a pass.
LEMMA PollEffect ==
  ASSUME ChainTypeOK, WatcherTypeOK, HeadBehind, DeepEntries, Poll,
         \A t \in Tx : LastFits(entry[t])
  PROVE  \/ /\ Kept
            /\ \A t \in Tx : LastFits(entry'[t])
            /\ emitted = << >> \/ todo' \cup {cur'} \subseteq todo \cup {cur, NoTx}
         \/ \E t \in Tx : \E s \in StatusType : Moved(t, s)
  <1>a. ASSUME UNCHANGED <<entry, emitted>>
        PROVE  Kept /\ \A t \in Tx : LastFits(entry'[t])
    BY <1>a, Zenon DEF Kept
  <1>b. ASSUME NEW t \in Tx, Kept, \A u \in Tx \ {t} : entry'[u] = entry[u], LastFits(entry'[t])
        PROVE  \A u \in Tx : LastFits(entry'[u])
    BY <1>b, Zenon
  <1>1. CASE StartPass
    BY <1>1, <1>a, Zenon DEF StartPass, PassOver
  <1>2. ASSUME NEW t \in Tx, PollPending(t)
        PROVE  \/ /\ Kept
                  /\ \A u \in Tx : LastFits(entry'[u])
                  /\ todo' \cup {cur'} \subseteq todo \cup {cur, NoTx}
               \/ \E s \in StatusType : Moved(t, s)
    <2>1. /\ t \in todo \cup {cur} /\ t \notin todo' \cup {cur'}
          /\ todo' \cup {cur'} \subseteq todo \cup {NoTx} /\ entry[t].phase = "pending"
      BY <1>2, WatcherAssumption, Zenon DEF PollPending
    <2>2. ASSUME NEW b \in ReceiptBlocks(t), NEW d, Advance(t, b, d)
          PROVE  \/ Kept /\ LastFits(entry'[t]) /\ (\A u \in Tx \ {t} : entry'[u] = entry[u])
                 \/ \E s \in StatusType : Moved(t, s)
      <3>1. b \in Block /\ t \in Includes[b] /\ Canonical(b)
        BY NodeType, Zenon DEF ReceiptBlocks, Canonical
      <3> QED
        BY <2>1, <2>2, <3>1, AdvanceMoves, Zenon
    <2>3. UNCHANGED <<entry, emitted>> \/ \E b \in ReceiptBlocks(t) : \E d : Advance(t, b, d)
      BY <1>2, Zenon DEF PollPending
    <2> QED
      BY <1>a, <1>b, <2>1, <2>2, <2>3, Zenon
  <1>3. ASSUME NEW t \in Tx, PollReceipt(t)
        PROVE  \/ /\ UNCHANGED <<entry, emitted>>
                  /\ todo' \cup {cur'} \subseteq todo \cup {cur, NoTx}
               \/ \E s \in StatusType : Moved(t, s)
    <2>1. /\ t \in todo \cup {cur} /\ entry[t].phase \in {"mined", "confirmed"}
          /\ todo' = todo \ {t} /\ entry[t].block \in Block
      BY <1>3, Zenon DEF PollReceipt, WatcherTypeOK
    <2>2. CASE ReverseEntry(t) /\ cur' = NoTx
      <3>1. t \notin todo' \cup {cur'} /\ todo' \cup {cur'} \subseteq todo \cup {NoTx}
        BY <2>1, <2>2, WatcherAssumption, Zenon
      <3> QED
        BY <2>1, <2>2, <3>1, ReverseMoves, Zenon
    <2>3. CASE cur' = t /\ UNCHANGED <<entry, emitted>>
      BY <1>3, <2>1, <2>3, Zenon DEF PollReceipt
    <2> QED
      BY <1>3, <2>2, <2>3, Zenon DEF PollReceipt
  <1>4. CASE PollHeader
    <2> DEFINE b == entry[cur].block
    <2>1. /\ cur \in Tx /\ entry[cur].phase \in {"mined", "confirmed"}
          /\ cur' = NoTx /\ todo' = todo /\ b \in Block
      BY <1>4, Zenon DEF PollHeader, WatcherTypeOK
    <2>2. /\ cur \in todo \cup {cur} /\ cur \notin todo' \cup {cur'}
          /\ todo' \cup {cur'} \subseteq todo \cup {NoTx}
      BY <2>1, WatcherAssumption, Zenon DEF WatcherTypeOK
    <2>3. cur \in Includes[b]
      BY <2>1, Zenon DEF DeepEntries, DeepEntry, Anchored
    <2>4. CASE ReverseEntry(cur)
      <3>1. \E s \in StatusType : Moved(cur, s)
        BY <2>1, <2>2, <2>4, ReverseMoves, Zenon
      <3> QED
        BY <2>1, <3>1, Zenon
    <2>5. CASE /\ Canonical(b) /\ entry[cur].phase = "mined"
               /\ Advance(cur, b, confirmations(b))
      <3>1. \/ Kept /\ LastFits(entry'[cur]) /\ (\A u \in Tx \ {cur} : entry'[u] = entry[u])
            \/ \E s \in StatusType : Moved(cur, s)
        BY <2>1, <2>2, <2>3, <2>5, AdvanceMoves, Zenon
      <3> QED
        BY <1>b, <2>1, <2>2, <3>1, Zenon
    <2>6. CASE /\ Canonical(b) /\ entry[cur].phase = "confirmed"
               /\ confirmations(b) >= FinalityDepth /\ FinalizeEntry(cur)
      <3> DEFINE s == Status(cur, "finalized", b)
      <3>1. entry[cur].lastPhase = "confirmed"
        BY <2>1, <2>6, Zenon DEF LastFits
      <3>2. emitted' = Append(emitted, s)
        BY <2>6, <3>1, Zenon DEF FinalizeEntry, Surfaced, Repeated
      <3>3. /\ entry'[cur] = Untracked
            /\ \A u \in Tx \ {cur} : entry'[u] = entry[u]
        BY <2>1, <2>6, Zenon DEF FinalizeEntry, WatcherTypeOK
      <3>4. entry'[cur].phase = "untracked"
        BY <3>3 DEF Untracked, Entry
      <3>5. Anchored(heads, cur, b, FinalityDepth)
        BY <2>1, <2>3, <2>6, ComputedDepth, DepthAssumption DEF Canonical
      <3>6. Rooted(cur, b)
        BY <2>6, <3>5, Zenon DEF Rooted, Anchored, Buried
      <3>7. s \in StatusType /\ s.tx = cur /\ s.phase = "finalized" /\ s.block = b
        BY <2>1, Zenon DEF Status, StatusType, StatusPhase
      <3>8. LastFits(entry'[cur])
        BY <3>4, Zenon DEF LastFits
      <3> HIDE DEF s
      <3>9. Moved(cur, s)
        BY <2>2, <2>6, <3>2, <3>3, <3>4, <3>6, <3>7, <3>8, Zenon DEF Moved
      <3> QED
        BY <2>1, <3>7, <3>9, Zenon
    <2>7. CASE UNCHANGED <<entry, emitted>>
      BY <1>a, <2>2, <2>7, Zenon
    <2> QED
      BY <1>4, <2>4, <2>5, <2>6, <2>7, Zenon DEF PollHeader
  <1>5. CASE PollSkip
    BY <1>5, <1>a, Zenon DEF PollSkip
  <1> QED
    BY <1>1, <1>2, <1>3, <1>4, <1>5, <1>a, Zenon DEF Poll

\* A read of the pass keeps its statuses one per transaction.
LEMMA PollOrderly ==
  ASSUME ChainTypeOK, WatcherTypeOK, HeadBehind, DeepEntries, Orderly, Poll
  PROVE  Orderly'
  <1>0. /\ \A t \in Tx : LastFits(entry[t])
        /\ Once /\ \A x \in Flying : x.tx \notin todo /\ x.tx # cur
        /\ emitted \in Seq(StatusType)
    BY Zenon DEF Orderly, Busy, WatcherTypeOK
  <1>1. CASE /\ Kept /\ \A t \in Tx : LastFits(entry'[t])
             /\ emitted = << >> \/ todo' \cup {cur'} \subseteq todo \cup {cur, NoTx}
    <2>1. Flying' = Flying /\ Once'
      BY <1>0, <1>1, Zenon DEF Kept, Flying, Once
    <2>2. \A x \in Flying : x.tx # NoTx
      BY <1>0, FlyingType, WatcherAssumption, Zenon
    <2>3. emitted = << >> => Flying = {}
      BY DEF Flying
    <2>4. Busy'
      BY <1>0, <1>1, <2>1, <2>2, <2>3, Zenon DEF Busy
    <2> QED
      BY <1>1, <2>1, <2>4, Zenon DEF Orderly
  <1>2. ASSUME NEW t \in Tx, NEW s \in StatusType, Moved(t, s) PROVE Orderly'
    <2>1. /\ s.tx = t /\ t \in todo \cup {cur} /\ t \notin todo' \cup {cur'}
          /\ todo' \cup {cur'} \subseteq todo \cup {NoTx}
          /\ emitted' = Append(emitted, s)
          /\ \A u \in Tx \ {t} : entry'[u] = entry[u]
          /\ LastFits(entry'[t])
      BY <1>2, Zenon DEF Moved
    <2>2. \A x \in Flying : x.tx # s.tx
      BY <1>0, <2>1, Zenon
    <2>3. Flying' = Flying \cup {s} /\ Once'
      BY <1>0, <2>1, <2>2, FlyingAppend, Zenon
    <2>4. \A x \in Flying : x.tx # NoTx
      BY <1>0, FlyingType, WatcherAssumption, Zenon
    <2>5. Busy'
      BY <1>0, <2>1, <2>3, <2>4, Zenon DEF Busy
    <2>6. \A u \in Tx : LastFits(entry'[u])
      BY <1>0, <2>1, Zenon
    <2> QED
      BY <2>3, <2>5, <2>6, Zenon DEF Orderly
  <1> QED
    BY <1>0, <1>1, <1>2, PollEffect, Zenon

\* Handing the first status to the sink.
LEMMA DispatchOrderly ==
  ASSUME WatcherTypeOK, Orderly, Dispatch, RollBack(NextStatus) \/ UNCHANGED entry
  PROVE  Orderly'
  <1>1. /\ emitted \in Seq(StatusType) /\ emitted # << >> /\ emitted' = Tail(emitted)
        /\ UNCHANGED <<todo, cur>> /\ Once /\ Busy /\ entry \in [Tx -> EntryType]
        /\ \A t \in Tx : LastFits(entry[t])
    BY Zenon DEF Dispatch, WatcherTypeOK, Orderly
  <1>2. Once' /\ \A x \in Flying' : x \in Flying
    BY <1>1, FlyingTail, Zenon
  <1>3. Busy'
    BY <1>1, <1>2, Zenon DEF Busy
  <1>4. \A b : LastFits(Entry("mined", b, "pending", 0))
    BY Zenon DEF LastFits, Entry
  <1>5. \A t \in Tx : LastFits(entry'[t])
    BY <1>1, <1>4, Zenon DEF RollBack
  <1> QED
    BY <1>2, <1>3, <1>5, Zenon DEF Orderly

\* Seeded entries have surfaced what their phase says.
LEMMA SeedLast == LastFits(Untracked) /\ \A row : LastFits(Seed(row))
  BY Zenon DEF LastFits, Seed, Track, Resume, Untracked, Entry

\* Every step keeps the pass orderly, faults or not.
LEMMA OrderlyStep == TypeOK /\ DeepInv /\ Orderly /\ [Next]_vars => Orderly'
  <1> SUFFICES ASSUME TypeOK, DeepInv, Orderly, [Next]_vars PROVE Orderly'
    BY Zenon
  <1>0. /\ ChainTypeOK /\ WatcherTypeOK /\ listed \subseteq ListedType
        /\ HeadBehind /\ DeepEntries
    BY Zenon DEF TypeOK, DeepInv
  <1>1. CASE UNCHANGED watcherVars
    BY <1>1, Zenon DEF watcherVars, Orderly, Once, Busy, Flying
  <1>2. CASE PollStep
    BY <1>0, <1>2, PollOrderly, Zenon DEF PollStep
  <1>3. CASE Deliver \/ DeliverRefused \/ DeliverFault
    BY <1>0, <1>3, DispatchOrderly, Zenon DEF Deliver, DeliverRefused, DeliverFault
  <1>4. ASSUME NEW row \in listed, RescanSeed(row) PROVE Orderly'
    <2>1. row.tx \in Tx
      BY <1>0, Zenon DEF ListedType
    <2>2. \A t \in Tx : LastFits(entry'[t])
      BY <1>0, <1>4, <2>1, SeedLast, Zenon DEF RescanSeed, Orderly, WatcherTypeOK
    <2> QED
      BY <1>4, <2>2, Zenon DEF RescanSeed, Orderly, Once, Busy, Flying
  <1>5. CASE Restart
    <2>1. \A t \in Tx : LastFits(entry'[t])
      BY <1>5, SeedLast, Zenon DEF Restart
    <2>2. emitted' = << >>
      BY <1>5, Zenon DEF Restart
    <2>3. Once' /\ Busy'
      BY <2>2 DEF Once, Busy, Flying
    <2> QED
      BY <2>1, <2>3, Zenon DEF Orderly
  <1> QED
    BY <1>1, <1>2, <1>3, <1>4, <1>5, Zenon
    DEF Next, ChainStep, LinkStep, PaymentStep, RescanList, vars

\* What is rooted stays rooted: the chain never leaves a block that deep.
LEMMA RootedKept ==
  ASSUME UNCHANGED chainVars \/ \E c \in Block : MoveTip(c), NEW t, NEW b, Rooted(t, b)
  PROVE  Rooted(t, b)'
  <1>1. CASE UNCHANGED chainVars
    BY <1>1, Zenon DEF chainVars, Rooted, Canonical, Buried
  <1>2. ASSUME NEW c \in Block, MoveTip(c) PROVE Rooted(t, b)'
    <2>1. b \in Branch[tip] /\ Buried(b, FinalityDepth) /\ t \in Includes[b]
      BY Zenon DEF Rooted, Canonical
    <2>2. b \in Branch[c] /\ tip' = c /\ heads \subseteq heads'
      BY <1>2, <2>1, Zenon DEF MoveTip
    <2>3. Buried(b, FinalityDepth)'
      BY <2>1, <2>2, Zenon DEF Buried
    <2> QED
      BY <2>1, <2>2, <2>3, Zenon DEF Rooted, Canonical
  <1> QED
    BY <1>1, <1>2, Zenon

\* A transaction nothing happens to keeps agreeing with its row.
LEMMA FitsKept ==
  ASSUME NEW t, Fits(t), rows'[t] = rows[t],
         entry'[t].phase = entry[t].phase, entry'[t].block = entry[t].block,
         Flight(t)' = Flight(t), \A row \in listed' : row.tx = t => row \in listed,
         journal \subseteq journal', \A b : Rooted(t, b) => Rooted(t, b)'
  PROVE  Fits(t)'
  <1>1. ASSUME NEW s, StatusFits(t, s) PROVE StatusFits(t, s)'
    BY <1>1, Zenon DEF StatusFits, SettledAt, Recorded
  <1>2. ASSUME EntryFits(t) PROVE EntryFits(t)'
    BY <1>2, Zenon DEF EntryFits, SettledAt
  <1> QED
    BY <1>1, <1>2, Zenon DEF Fits

\* A row nothing happens to keeps what the ledger holds for it.
LEMMA RowFitsKept ==
  ASSUME NEW t, RowFits(t), rows'[t] = rows[t], journal \subseteq journal',
         \A b : Rooted(t, b) => Rooted(t, b)',
         rows[t].status = "settled" => ~Undone(rows[t].payment, rows[t].block)'
  PROVE  RowFits(t)'
  <1>1. ASSUME rows[t].status = "settled"
        PROVE  Recorded(rows[t].payment, rows[t].block)' /\ ~Undone(rows[t].payment, rows[t].block)'
    BY <1>1, Zenon DEF RowFits, Recorded
  <1>2. ASSUME rows[t].status = "finalized"
        PROVE  (\E f \in Block : Rooted(t, f) /\ Recorded(rows[t].payment, f))'
    BY <1>2, Zenon DEF RowFits, Recorded
  <1> QED
    BY <1>1, <1>2, Zenon DEF RowFits

\* With both tables as they are, only the entries and statuses matter.
LEMMA CleanKept ==
  ASSUME Clean, UNCHANGED <<rows, journal>>, \A t \in Tx : Fits(t)',
         UNCHANGED chainVars \/ \E c \in Block : MoveTip(c)
  PROVE  Clean'
  <1>1. ASSUME NEW t \in Tx PROVE RowFits(t)'
    <2>1. RowFits(t) /\ \A b : Rooted(t, b) => Rooted(t, b)'
      BY RootedKept, Zenon DEF Clean
    <2>2. rows[t].status = "settled" => ~Undone(rows[t].payment, rows[t].block)'
      BY <2>1, Zenon DEF RowFits, Undone
    <2> QED
      BY <2>1, <2>2, RowFitsKept, Zenon
  <1>2. UndoneRecorded' /\ OneRowPerEntry'
    BY Zenon DEF Clean, UndoneRecorded, OneRowPerEntry, Undone, Recorded
  <1> QED
    BY <1>1, <1>2, Zenon DEF Clean

\* A read of the pass surfaces only statuses that fit.
LEMMA PollClean ==
  ASSUME ChainTypeOK, WatcherTypeOK, HeadBehind, DeepEntries, Orderly, Clean, Poll,
         UNCHANGED <<chainVars, settlementVars, listed>>
  PROVE  Clean'
  <1>0. /\ UNCHANGED <<rows, journal, listed, tip, heads>>
        /\ \A t \in Tx : Fits(t) /\ RowFits(t)
        /\ \A t \in Tx : LastFits(entry[t])
        /\ emitted \in Seq(StatusType)
    BY Zenon DEF settlementVars, chainVars, Clean, Orderly, WatcherTypeOK
  <1>a. \A t, b : Rooted(t, b) => Rooted(t, b)'
    BY RootedKept, Zenon
  <1>1. CASE Kept
    <2>1. Flying' = Flying
      BY <1>1, Zenon DEF Kept, Flying
    <2>2. ASSUME NEW t \in Tx PROVE Fits(t)'
      <3>1. Flight(t)' = Flight(t)
        BY <2>1, Zenon DEF Flight
      <3> QED
        BY <1>0, <1>1, <1>a, <3>1, FitsKept, Zenon DEF Kept
    <2> QED
      BY <1>0, <2>2, CleanKept, Zenon
  <1>2. ASSUME NEW t \in Tx, NEW s \in StatusType, Moved(t, s) PROVE Clean'
    <2>1. /\ s.tx = t /\ t \in todo \cup {cur} /\ emitted' = Append(emitted, s)
          /\ \A u \in Tx \ {t} : entry'[u] = entry[u]
      BY <1>2, Zenon DEF Moved
    <2>2. Flying' = Flying \cup {s}
      BY <1>0, <2>1, FlyingAppend, Zenon
    <2>3. Flight(t) = {}
      BY <2>1, Zenon DEF Flight, Orderly, Busy
    <2>4. EntryFits(t) /\ RowFits(t)
      BY <1>0, <2>3, Zenon DEF Fits
    <2>5. ASSUME NEW u \in Tx \ {t} PROVE Fits(u)'
      <3>1. Flight(u)' = Flight(u)
        BY <2>1, <2>2, Zenon DEF Flight
      <3> QED
        BY <1>0, <1>a, <2>1, <3>1, FitsKept, Zenon
    <2>6. StatusFits(t, s)'
      <3>1. CASE /\ entry[t].phase \in {"pending", "mined"} /\ s.phase \in {"mined", "confirmed"}
                 /\ entry'[t].phase = s.phase /\ entry'[t].block = s.block
                 /\ t \in Includes[s.block] /\ Canonical(s.block)
        <4>1. rows[t].status \in Unsettled
          BY <2>4, <3>1, Zenon DEF EntryFits
        <4>2. ASSUME rows[t].status = "finalized" PROVE Recorded(rows[t].payment, s.block)
          <5>1. PICK f \in Block : Rooted(t, f) /\ Recorded(rows[t].payment, f)
            BY <2>4, <4>2, Zenon DEF RowFits
          <5>2. f \in Branch[tip] /\ s.block \in Branch[tip] /\ t \in Includes[f] \cap Includes[s.block]
            BY <3>1, <5>1, Zenon DEF Rooted, Canonical
          <5>3. f = s.block
            BY <5>2, ChainAssumption, Zenon DEF ChainTypeOK
          <5> QED
            BY <5>1, <5>3, Zenon
        <4> QED
          BY <1>0, <3>1, <4>1, <4>2, Zenon DEF StatusFits, Recorded
      <3>2. CASE /\ entry[t].phase \in {"mined", "confirmed"} /\ s.phase = "reorged"
                 /\ s.block = entry[t].block /\ entry'[t].phase = "pending"
        BY <1>0, <2>4, <3>2, Zenon DEF StatusFits, EntryFits, SettledAt, Unsettled
      <3>3. CASE /\ entry[t].phase = "confirmed" /\ s.phase = "finalized"
                 /\ s.block = entry[t].block /\ Rooted(t, s.block)
        BY <1>0, <1>a, <2>4, <3>3, Zenon DEF StatusFits, EntryFits, SettledAt
      <3> QED
        BY <1>2, <3>1, <3>2, <3>3, Zenon DEF Moved
    <2>7. Fits(t)'
      BY <2>1, <2>2, <2>3, <2>6, Zenon DEF Fits, Flight
    <2> QED
      BY <1>0, <2>5, <2>7, CleanKept, Zenon
  <1> QED
    BY <1>0, <1>1, <1>2, PollEffect, Zenon

\* The names of the entries: a reversal is no settle, and both name their
\* payment and their block.
LEMMA EntryNames ==
  ASSUME NEW p, NEW q, NEW b, NEW c
  PROVE  /\ SettleEntry(p, b) # ReversalEntry(q, c)
         /\ ReversalEntry(p, b) = ReversalEntry(q, c) => p = q /\ b = c
  <1>1. /\ SettleEntry(p, b).kind = "settle" /\ ReversalEntry(q, c).kind = "reversal"
        /\ ReversalEntry(p, b).ref = <<p, b>> /\ ReversalEntry(q, c).ref = <<q, c>>
    BY Zenon DEF SettleEntry, ReversalEntry
  <1>2. "settle" # "reversal"
    OBVIOUS
  <1>3. <<p, b>> = <<q, c>> => p = q /\ b = c
    OBVIOUS
  <1> QED
    BY ONLY <1>1, <1>2, <1>3, Zenon

\* The status handed to the sink is the only one of its transaction.
LEMMA DispatchFlight ==
  ASSUME WatcherTypeOK, Orderly, Clean, Dispatch, NEW s, NEW t, s = NextStatus, t = s.tx
  PROVE  /\ s \in StatusType /\ t \in Tx
         /\ StatusFits(t, s)
         /\ Flight(t)' = {}
         /\ \A u \in Tx \ {t} : Flight(u)' = Flight(u)
  <1>1. emitted \in Seq(StatusType) /\ emitted # << >> /\ emitted' = Tail(emitted) /\ Once
    BY Zenon DEF Dispatch, WatcherTypeOK, Orderly
  <1>2. /\ s \in Flying
        /\ \A x \in Flying' : x \in Flying /\ x.tx # t
        /\ \A x \in Flying : x.tx # t => x \in Flying'
    BY <1>1, FlyingTail, Zenon DEF NextStatus
  <1>3. s \in StatusType /\ t \in Tx
    BY <1>1, <1>2, FlyingType, Zenon
  <1>4. StatusFits(t, s)
    BY <1>2, <1>3, Zenon DEF Clean, Fits, Flight
  <1>5. Flight(t)' = {}
    BY <1>2, Zenon DEF Flight
  <1>6. ASSUME NEW u \in Tx \ {t} PROVE Flight(u)' = Flight(u)
    BY <1>2, Zenon DEF Flight
  <1> QED
    BY <1>3, <1>4, <1>5, <1>6, Zenon

\* A committed sink transaction leaves the other rows what they rest on.
LEMMA OthersFit ==
  ASSUME Clean, NEW t \in Tx, \A u \in Tx \ {t} : Flight(u)' = Flight(u),
         UNCHANGED <<chainVars, entry, listed>>, journal \subseteq journal',
         \A u \in Tx \ {t} : rows'[u] = rows[u],
         \A u \in Tx \ {t} : rows[u].status = "settled" =>
             ~Undone(rows[u].payment, rows[u].block)'
  PROVE  \A u \in Tx \ {t} : Fits(u)' /\ RowFits(u)'
  <1> SUFFICES ASSUME NEW u \in Tx \ {t} PROVE Fits(u)' /\ RowFits(u)'
    BY Zenon
  <1>1. Fits(u) /\ RowFits(u) /\ \A b : Rooted(u, b) => Rooted(u, b)'
    BY RootedKept, Zenon DEF Clean
  <1>2. Fits(u)'
    BY <1>1, FitsKept, Zenon
  <1>3. RowFits(u)'
    BY <1>1, RowFitsKept, Zenon
  <1> QED
    BY <1>2, <1>3, Zenon

\* A Confirmed behind a final row names a block the ledger holds.
LEMMA NoSecondPosting ==
  ASSUME NEW t, NEW s, StatusFits(t, s), s.phase = "confirmed", rows[t].status = "finalized"
  PROVE  ~PostWithin(SettleEntry(rows[t].payment, s.block))
  BY PostNew, Zenon DEF StatusFits, Recorded

\* The sink settles: the entry posted is new, so nothing was undone there and
\* no other row rests on it.
LEMMA SettleClean ==
  ASSUME SettlementTypeOK, Clean, NEW s \in StatusType, NEW t \in Tx, NEW p \in Payment,
         s.tx = t, s.phase = "confirmed", StatusFits(t, s), p = rows[t].payment,
         rows' = [rows EXCEPT ![t] = Row("settled", p, s.block)],
         PostWithin(SettleEntry(p, s.block)),
         Flight(t)' = {}, \A u \in Tx \ {t} : Flight(u)' = Flight(u),
         UNCHANGED <<chainVars, entry, listed>>
  PROVE  Clean'
  <1> DEFINE b == s.block
  <1>1. b \in Block /\ ~Recorded(p, b) /\ journal' = journal \cup {SettleEntry(p, b)}
    BY PostNew, Zenon DEF Recorded, StatusType
  <1>2. /\ rows'[t].status = "settled" /\ rows'[t].payment = p /\ rows'[t].block = b
        /\ \A u \in Tx \ {t} : rows'[u] = rows[u]
    BY Zenon DEF SettlementTypeOK, Row
  <1>3. \A q, c : (Undone(q, c)' <=> Undone(q, c)) /\ (Recorded(q, c) => Recorded(q, c)')
    BY <1>1, EntryNames DEF Undone, Recorded
  <1>4. ~Undone(p, b) /\ Recorded(p, b)'
    BY <1>1, Zenon DEF Clean, UndoneRecorded, Recorded
  <1>5. \A u \in Tx \ {t} : Fits(u)' /\ RowFits(u)'
    <2>1. ASSUME NEW u \in Tx \ {t}, rows[u].status = "settled"
          PROVE  ~Undone(rows[u].payment, rows[u].block)'
      BY <1>3, <2>1 DEF Clean, RowFits
    <2> QED
      BY <1>1, <1>2, <2>1, OthersFit, Zenon
  <1>6. entry[t].phase = "confirmed" /\ entry[t].block = b
    BY Zenon DEF StatusFits
  <1>7. EntryFits(t)'
    BY <1>2, <1>6, Zenon DEF EntryFits, SettledAt
  <1>8. Fits(t)' /\ RowFits(t)'
    BY <1>2, <1>3, <1>4, <1>7, Zenon DEF Fits, RowFits
  <1>9. UndoneRecorded'
    BY <1>3, Zenon DEF Clean, UndoneRecorded
  <1>10. \A u \in Tx : rows[u].status = "settled" => Recorded(rows[u].payment, rows[u].block)
    BY Zenon DEF Clean, RowFits
  <1>11. OneRowPerEntry'
    BY <1>1, <1>2, <1>10 DEF Clean, OneRowPerEntry
  <1> QED
    BY <1>5, <1>8, <1>9, <1>11, Zenon DEF Clean

\* The sink reverses: the row was settled where the status says, and no other
\* row rests on that entry.
LEMMA ReverseClean ==
  ASSUME SettlementTypeOK, Clean, NEW s \in StatusType, NEW t \in Tx, NEW p \in Payment,
         s.tx = t, s.phase = "reorged", StatusFits(t, s), p = rows[t].payment,
         rows[t].status = "settled",
         rows' = [rows EXCEPT ![t] = Row("reorged", p, NoBlock)],
         PostWithin(ReversalEntry(p, s.block)),
         Flight(t)' = {}, \A u \in Tx \ {t} : Flight(u)' = Flight(u),
         UNCHANGED <<chainVars, entry, listed>>
  PROVE  Clean'
  <1> DEFINE b == s.block
  <1>1. journal' = journal \cup {ReversalEntry(p, b)}
    BY PostNew, Zenon
  <1>2. /\ rows'[t].status = "reorged"
        /\ \A u \in Tx \ {t} : rows'[u] = rows[u]
    BY Zenon DEF SettlementTypeOK, Row
  <1>3. entry[t].phase = "pending" /\ rows[t].block = b
    BY Zenon DEF StatusFits, SettledAt, Unsettled
  <1>4. Recorded(p, b)
    BY <1>3, Zenon DEF Clean, RowFits
  <1>5. /\ \A q, c : Undone(q, c)' => Undone(q, c) \/ (q = p /\ c = b)
        /\ \A q, c : Recorded(q, c) => Recorded(q, c)'
    BY <1>1, EntryNames DEF Undone, Recorded
  <1>6. \A u \in Tx \ {t} : Fits(u)' /\ RowFits(u)'
    <2>1. ASSUME NEW u \in Tx \ {t}, rows[u].status = "settled"
          PROVE  ~Undone(rows[u].payment, rows[u].block)'
      <3>1. ~Undone(rows[u].payment, rows[u].block)
        BY <2>1, Zenon DEF Clean, RowFits
      <3>2. ~(rows[u].payment = p /\ rows[u].block = b)
        BY <1>3, <2>1, Zenon DEF Clean, OneRowPerEntry
      <3> QED
        BY <1>5, <3>1, <3>2
    <2> QED
      BY <1>1, <1>2, <2>1, OthersFit, Zenon
  <1>7. EntryFits(t)' /\ RowFits(t)'
    BY <1>2, <1>3, Zenon DEF EntryFits, RowFits, Unsettled
  <1>8. Fits(t)'
    BY <1>7, Zenon DEF Fits
  <1>9. UndoneRecorded'
    BY <1>4, <1>5, Zenon DEF Clean, UndoneRecorded
  <1>10. OneRowPerEntry'
    BY <1>2 DEF Clean, OneRowPerEntry
  <1> QED
    BY <1>6, <1>7, <1>8, <1>9, <1>10, Zenon DEF Clean

\* The sink finalises a row that is settled where the status says.
LEMMA FinalizeClean ==
  ASSUME SettlementTypeOK, Clean, NEW s \in StatusType, NEW t \in Tx, NEW p \in Payment,
         s.tx = t, s.phase = "finalized", StatusFits(t, s), p = rows[t].payment,
         rows[t].status = "settled",
         rows' = [rows EXCEPT ![t] = Row("finalized", p, rows[t].block)], journal' = journal,
         Flight(t)' = {}, \A u \in Tx \ {t} : Flight(u)' = Flight(u),
         UNCHANGED <<chainVars, entry, listed>>
  PROVE  Clean'
  <1> DEFINE b == s.block
  <1>1. /\ rows'[t].status = "finalized" /\ rows'[t].payment = p
        /\ \A u \in Tx \ {t} : rows'[u] = rows[u]
    BY Zenon DEF SettlementTypeOK, Row
  <1>2. rows[t].block = b /\ Rooted(t, b) /\ b \in Block
    BY Zenon DEF StatusFits, SettledAt, StatusType
  <1>3. Recorded(p, b) /\ Rooted(t, b)'
    BY <1>2, RootedKept, Zenon DEF Clean, RowFits
  <1>4. Recorded(p, b)'
    BY <1>3, Zenon DEF Recorded
  <1>5. EntryFits(t)'
    BY <1>1, Zenon DEF EntryFits, Unsettled
  <1>6. Fits(t)' /\ RowFits(t)'
    BY <1>1, <1>2, <1>3, <1>4, <1>5, Zenon DEF Fits, RowFits
  <1>7. \A u \in Tx \ {t} : Fits(u)' /\ RowFits(u)'
    <2>1. ASSUME NEW u \in Tx \ {t}, rows[u].status = "settled"
          PROVE  ~Undone(rows[u].payment, rows[u].block)'
      BY <1>1, <2>1 DEF Clean, RowFits, Undone
    <2> QED
      BY <1>1, <2>1, OthersFit, Zenon
  <1>8. UndoneRecorded'
    BY Zenon DEF Clean, UndoneRecorded, Undone, Recorded
  <1>9. OneRowPerEntry'
    BY <1>1 DEF Clean, OneRowPerEntry
  <1> QED
    BY <1>6, <1>7, <1>8, <1>9, Zenon DEF Clean

\* The sink ignores the status: the entry agrees with the row all the same.
LEMMA IgnoreClean ==
  ASSUME Clean, NEW s \in StatusType, NEW t \in Tx, s.tx = t, StatusFits(t, s),
         UNCHANGED <<rows, journal>>,
         \/ s.phase = "mined" \/ rows[t].status = "none"
         \/ s.phase = "confirmed" <=> rows[t].status = "settled",
         Flight(t)' = {}, \A u \in Tx \ {t} : Flight(u)' = Flight(u),
         UNCHANGED <<chainVars, entry, listed>>
  PROVE  Clean'
  <1>1. s.phase \in StatusPhase
    BY Zenon DEF StatusType
  <1>2. EntryFits(t)
    BY <1>1, Zenon DEF StatusFits, EntryFits, SettledAt, Unsettled, StatusPhase
  <1>3. EntryFits(t)'
    BY <1>2, Zenon DEF EntryFits, SettledAt
  <1>4. Fits(t)'
    BY <1>3, Zenon DEF Fits
  <1>5. ASSUME NEW u \in Tx \ {t} PROVE Fits(u)'
    <2>1. Fits(u) /\ \A b : Rooted(u, b) => Rooted(u, b)'
      BY RootedKept, Zenon DEF Clean
    <2> QED
      BY <2>1, FitsKept, Zenon
  <1> QED
    BY <1>4, <1>5, CleanKept, Zenon

\* A committed sink transaction, and what it may post.
LEMMA DeliverClean ==
  ASSUME SettlementTypeOK, WatcherTypeOK, Orderly, Clean, Deliver
  PROVE  /\ Clean'
         /\ NextStatus \in StatusType /\ OnStatus(NextStatus)
         /\ ~(/\ NextStatus.phase = "confirmed" /\ rows[NextStatus.tx].status = "finalized"
              /\ PostWithin(SettleEntry(rows[NextStatus.tx].payment, NextStatus.block)))
  <1>1. PICK s : s = NextStatus
    BY Zenon
  <1>2. PICK t : t = s.tx
    BY Zenon
  <1>3. PICK p : p = rows[t].payment
    BY Zenon
  <1>4. Dispatch /\ OnStatus(s) /\ UNCHANGED <<chainVars, entry, listed>>
    BY <1>1, Zenon DEF Deliver
  <1>5. /\ s \in StatusType /\ t \in Tx /\ StatusFits(t, s)
        /\ Flight(t)' = {} /\ \A u \in Tx \ {t} : Flight(u)' = Flight(u)
    BY <1>1, <1>2, <1>4, DispatchFlight, Zenon
  <1>6. ~(/\ s.phase = "confirmed" /\ rows[t].status = "finalized"
          /\ PostWithin(SettleEntry(p, s.block)))
    BY <1>3, <1>5, NoSecondPosting, Zenon
  <1>c. SUFFICES Clean'
    BY <1>1, <1>2, <1>3, <1>4, <1>5, <1>6, Zenon
  <1>7. CASE /\ UNCHANGED <<rows, journal, balance>>
             /\ \/ s.phase = "mined" \/ rows[t].status = "none"
                \/ s.phase = "confirmed" <=> rows[t].status = "settled"
    BY <1>2, <1>4, <1>5, <1>7, IgnoreClean, Zenon
  <1>8. CASE /\ s.phase = "confirmed"
             /\ p \in Payment /\ rows[t].status \in {"pending", "reorged"}
             /\ rows' = [rows EXCEPT ![t] = Row("settled", p, s.block)]
             /\ PostWithin(SettleEntry(p, s.block))
    BY <1>2, <1>3, <1>4, <1>5, <1>8, SettleClean, Zenon
  <1>9. CASE /\ s.phase = "reorged"
             /\ p \in Payment /\ rows[t].status = "settled"
             /\ rows' = [rows EXCEPT ![t] = Row("reorged", p, NoBlock)]
             /\ PostWithin(ReversalEntry(p, s.block))
    BY <1>2, <1>3, <1>4, <1>5, <1>9, ReverseClean, Zenon
  <1>10. CASE /\ s.phase = "finalized"
              /\ p \in Payment /\ rows[t].status = "settled"
              /\ rows' = [rows EXCEPT ![t] = Row("finalized", p, rows[t].block)]
              /\ journal' = journal /\ balance' = balance
    BY <1>2, <1>3, <1>4, <1>5, <1>10, FinalizeClean, Zenon
  <1> QED
    BY <1>2, <1>3, <1>4, <1>5, <1>6, <1>7, <1>8, <1>9, <1>10, OnStatusEffect, Zenon

\* No account goes below zero: a posting and a payment are checked.
NoOverdraft == \A a \in Account : balance[a] >= 0

\* A posting is checked account by account.
LEMMA PostedNoOverdraft ==
  ASSUME NoOverdraft, NEW e, Funded(e), balance' = ApplyToBalances(e.lines)
  PROVE  NoOverdraft'
  <1> SUFFICES ASSUME NEW a \in Account PROVE balance'[a] >= 0
    BY Zenon DEF NoOverdraft
  <1>1. balance[a] >= 0
    BY Zenon DEF NoOverdraft
  <1>2. balance'[a] = IF a \in DOMAIN e.lines THEN balance[a] + e.lines[a] ELSE balance[a]
    BY Zenon DEF ApplyToBalances
  <1>3. a \in DOMAIN e.lines => balance[a] + e.lines[a] >= 0
    BY Zenon DEF Funded
  <1> QED
    BY <1>1, <1>2, <1>3, Zenon

\* Every step keeps the accounts from going below zero.
LEMMA NoOverdraftStep == TypeOK /\ NoOverdraft /\ [Next]_vars => NoOverdraft'
  <1> SUFFICES ASSUME TypeOK, NoOverdraft, [Next]_vars PROVE NoOverdraft'
    BY Zenon
  <1>0. SettlementTypeOK /\ WatcherTypeOK
    BY Zenon DEF TypeOK
  <1>1. CASE balance' = balance
    BY <1>1, Zenon DEF NoOverdraft
  <1>a. ASSUME NEW e, PostWithin(e) PROVE NoOverdraft'
    BY <1>a, PostedNoOverdraft, Zenon DEF PostWithin, Accepts
  <1>2. CASE PaymentStep
    <2>1. PICK p \in Payment, x \in Account, y \in Account : Pay(x, y, Amount[p])
      BY <1>2, Zenon DEF PaymentStep
    <2>2. PICK e : e = [kind |-> "payment", lines |-> Transfer(x, y, Amount[p])]
      BY Zenon
    <2>3. Funded(e) /\ balance' = ApplyToBalances(e.lines)
      BY <2>1, <2>2, Zenon DEF Pay
    <2> QED
      BY <2>3, PostedNoOverdraft, Zenon
  <1>3. CASE Deliver \/ DeliverFault
    <2>1. NextStatus \in StatusType
      BY <1>0, <1>3, DispatchType, Zenon DEF Deliver, DeliverFault
    <2>2. CASE OnStatus(NextStatus)
      BY <1>0, <1>1, <1>a, <2>1, <2>2, OnStatusEffect, Zenon
    <2>3. CASE UNCHANGED settlementVars
      BY <1>1, <2>3, Zenon DEF settlementVars
    <2> QED
      BY <1>3, <2>2, <2>3, Zenon DEF Deliver, DeliverFault
  <1> QED
    BY <1>1, <1>2, <1>3, Zenon
    DEF Next, ChainStep, LinkStep, Link, PollStep, DeliverRefused, RescanList, RescanSeed, Restart,
        settlementVars, vars

\* While payments leave it alone the clearing account holds at least what one
\* settled row moved into it.
LEMMA HeldCovers ==
  ASSUME SettlementTypeOK, HouseCovers, drawn = 0,
         NEW t \in Tx, rows[t].status = "settled", DestOf[rows[t].payment] # House
  PROVE  balance[House] >= Amount[rows[t].payment]
  <1> DEFINE S == LiveTx
             f == [u \in S |-> Amount[rows[u].payment]]
  <1>1. t \in S /\ IsFiniteSet(S)
    BY SettlementAssumption, FS_Subset, Zenon DEF LiveTx, IsLive
  <1>2. \A u \in S : rows[u].payment \in Payment
    BY Zenon DEF SettlementTypeOK, LiveTx, IsLive
  <1>3. \A q \in Payment : Amount[q] \in Nat
    BY SettlementAssumption
  <1>4. \A u \in S : f[u] \in Nat
    BY <1>2, <1>3, Zenon
  <1>5. f[t] = Amount[rows[t].payment] /\ Held = SumFunctionOnSet(f, S)
    BY <1>1, Zenon DEF Held
  <1>6. balance[House] >= Held /\ balance[House] \in Int
    <2>1. balance[House] + drawn >= Held /\ balance[House] \in Int
      BY HouseCoversHeld, SettlementAssumption, Zenon DEF SettlementTypeOK
    <2> QED
      BY <2>1
  <1> HIDE DEF f, S
  <1>7. \A u \in S : f[u] \in Int
    BY <1>4
  <1>8. SumFunctionOnSet(f, S) = f[t] + SumFunctionOnSet(f, S \ {t})
    BY ONLY <1>1, <1>7, SumRemove
  <1>9. IsFiniteSet(S \ {t}) /\ \A u \in S \ {t} : f[u] \in Nat
    BY <1>1, <1>4, FS_Subset, Zenon
  <1>10. SumFunctionOnSet(f, S \ {t}) \in Nat
    BY ONLY <1>9, SumNat
  <1>11. balance[House] >= f[t]
    BY <1>1, <1>4, <1>5, <1>6, <1>8, <1>10
  <1> QED
    BY <1>5, <1>11, Zenon

\* The reversal of a settled row that no reversal has undone is never refused.
LEMMA ReversalAccepted ==
  ASSUME SettlementTypeOK, HouseCovers, drawn = 0, NoOverdraft,
         NEW t \in Tx, rows[t].status = "settled",
         NEW p \in Payment, p = rows[t].payment, NEW b, ~Undone(p, b)
  PROVE  Accepts(ReversalEntry(p, b))
  <1> DEFINE e == ReversalEntry(p, b)
             d == DestOf[p]
  <1>1. /\ House \in Account /\ d \in Account
        /\ Amount[p] \in Int /\ Amount[p] > 0
        /\ balance[House] \in Int /\ balance[d] \in Int
    BY SettlementAssumption DEF SettlementTypeOK
  <1>2. (d # House => balance[House] >= Amount[p]) /\ balance[d] >= 0
    BY <1>1, HeldCovers, Zenon DEF NoOverdraft
  <1>3. /\ DOMAIN e.lines = {House, d}
        /\ d # House => e.lines[House] = 0 - Amount[p] /\ e.lines[d] = Amount[p] - 0
        /\ d = House => e.lines[House] = 0
    BY <1>1 DEF ReversalEntry, Transfer
  <1> HIDE DEF d
  <1>4. balance[House] + e.lines[House] >= 0 /\ balance[d] + e.lines[d] >= 0
    <2> HIDE DEF e
    <2> QED
      BY <1>1, <1>2, <1>3
  <1>5. Funded(e)
    BY <1>3, <1>4, Zenon DEF Funded
  <1>6. ASSUME NEW f \in journal, f.kind = e.kind, f.ref = e.ref PROVE FALSE
    <2>1. e.kind = "reversal" /\ e.ref = <<p, b>>
      BY Zenon DEF ReversalEntry
    <2>2. PICK q \in Payment, c \in Block : f \in {SettleEntry(q, c), ReversalEntry(q, c)}
      BY <1>6, Zenon DEF SettlementTypeOK, SinkEntry
    <2>3. SettleEntry(q, c).kind = "settle" /\ ReversalEntry(q, c).ref = <<q, c>>
      BY Zenon DEF SettleEntry, ReversalEntry
    <2>4. f = ReversalEntry(q, c)
      BY <1>6, <2>1, <2>2, <2>3, Zenon
    <2>5. <<q, c>> = <<p, b>>
      BY <1>6, <2>1, <2>3, <2>4, Zenon
    <2>6. q = p /\ c = b
      BY <2>5
    <2> QED
      BY <2>4, <2>6, Zenon DEF Undone
  <1> QED
    BY <1>5, <1>6, Zenon DEF Accepts, Duplicate

\* Only a Confirmed is ever refused, and the entry goes back to mined.
LEMMA RefusedClean ==
  ASSUME SettlementTypeOK, WatcherTypeOK, Orderly, Clean, HouseCovers, drawn = 0, NoOverdraft,
         DeliverRefused
  PROVE  Clean'
  <1>1. PICK s : s = NextStatus
    BY Zenon
  <1>2. PICK t : t = s.tx
    BY Zenon
  <1>3. /\ Dispatch /\ Refused(s) /\ RollBack(s)
        /\ UNCHANGED <<chainVars, rows, journal, listed>>
    BY <1>1, Zenon DEF DeliverRefused, settlementVars
  <1>4. /\ s \in StatusType /\ t \in Tx /\ StatusFits(t, s)
        /\ Flight(t)' = {} /\ \A u \in Tx \ {t} : Flight(u)' = Flight(u)
    BY <1>1, <1>2, <1>3, DispatchFlight, Zenon
  <1>5. ASSUME s.phase = "reorged", rows[t].status = "settled"
        PROVE  Accepts(ReversalEntry(rows[t].payment, s.block))
    <2>1. PICK p : p = rows[t].payment
      BY Zenon
    <2>2. p \in Payment /\ rows[t].block = s.block
      BY <1>4, <1>5, <2>1, Zenon DEF SettlementTypeOK, StatusFits, SettledAt, Unsettled
    <2>3. ~Undone(p, s.block)
      BY <1>4, <1>5, <2>1, <2>2, Zenon DEF Clean, RowFits
    <2>4. Accepts(ReversalEntry(p, s.block))
      BY <1>4, <1>5, <2>1, <2>2, <2>3, ReversalAccepted, Zenon
    <2> QED
      BY <2>1, <2>4, Zenon
  <1>6. s.phase = "confirmed"
    BY <1>2, <1>3, <1>5, Zenon DEF Refused
  <1>7. entry[t].phase = "confirmed" /\ rows[t].status \in Unsettled
    BY <1>4, <1>6, Zenon DEF StatusFits
  <1>8. entry' = [entry EXCEPT ![t] = Entry("mined", @.block, "pending", 0)]
    BY <1>2, <1>3, <1>6, <1>7, Zenon DEF RollBack
  <1>9. entry'[t].phase = "mined" /\ \A u \in Tx \ {t} : entry'[u] = entry[u]
    BY <1>4, <1>8, Zenon DEF Entry, WatcherTypeOK
  <1>10. EntryFits(t)'
    BY <1>3, <1>7, <1>9, Zenon DEF EntryFits
  <1>11. Fits(t)'
    BY <1>4, <1>10, Zenon DEF Fits
  <1>12. ASSUME NEW u \in Tx \ {t} PROVE Fits(u)'
    <2>1. Fits(u) /\ \A b : Rooted(u, b) => Rooted(u, b)'
      BY <1>3, RootedKept, Zenon DEF Clean
    <2> QED
      BY <1>3, <1>4, <1>9, <2>1, FitsKept, Zenon
  <1> QED
    BY <1>3, <1>11, <1>12, CleanKept, Zenon

\* A listed row seeds an entry that agrees with the row as it is now.
LEMMA SeedFits ==
  ASSUME SettlementTypeOK, NEW t \in Tx, NEW row \in ListedType, NEW e, e = Seed(row),
         \/ rows[t].status = "finalized"
         \/ row.status = rows[t].status /\ row.block = rows[t].block
  PROVE  /\ e.phase \in {"pending", "confirmed"}
         /\ e.phase = "pending" => rows[t].status \in Unsettled
         /\ e.phase = "confirmed" => rows[t].status = "finalized" \/ SettledAt(t, e.block)
  <1>1. /\ e.phase \in {"pending", "confirmed"}
        /\ e.phase = "confirmed" =>
               row.status = "settled" /\ row.block \in Block /\ e.block = row.block
    BY SeedType, Zenon
  <1>2. e.phase = "pending" => ~(row.status = "settled" /\ row.block # NoBlock)
    BY Zenon DEF Seed, Resume, Entry
  <1>3. row.status = "settled" /\ row.block = rows[t].block /\ row.status = rows[t].status
        => row.block # NoBlock
    BY ChainAssumption DEF SettlementTypeOK
  <1>4. row.status \in {"pending", "settled", "reorged"}
    BY Zenon DEF ListedType
  <1> QED
    BY <1>1, <1>2, <1>3, <1>4, Zenon DEF Unsettled, SettledAt

\* Seeding a listed row.
LEMMA RescanClean ==
  ASSUME SettlementTypeOK, WatcherTypeOK, listed \subseteq ListedType, Clean,
         NEW row \in listed, RescanSeed(row)
  PROVE  Clean'
  <1>1. PICK t : t = row.tx
    BY Zenon
  <1>2. /\ UNCHANGED <<chainVars, rows, journal, emitted>> /\ listed' \subseteq listed
        /\ row \in ListedType /\ t \in Tx
        /\ \A u \in Tx : Fits(u)
    BY <1>1, Zenon DEF RescanSeed, settlementVars, ListedType, Clean
  <1>3. \A u : Flight(u)' = Flight(u)
    BY <1>2, Zenon DEF Flight, Flying
  <1>4. \A u, b : Rooted(u, b) => Rooted(u, b)'
    BY <1>2, RootedKept, Zenon
  <1>5. ASSUME NEW u \in Tx, entry'[u] = entry[u] PROVE Fits(u)'
    BY <1>2, <1>3, <1>4, <1>5, FitsKept, Zenon
  <1>6. CASE entry' = entry
    BY <1>2, <1>5, <1>6, CleanKept, Zenon
  <1>7. CASE entry[t].phase = "untracked" /\ entry' = [entry EXCEPT ![t] = Seed(row)]
    <2>1. entry'[t] = Seed(row) /\ \A u \in Tx \ {t} : entry'[u] = entry[u]
      BY <1>2, <1>7, Zenon DEF WatcherTypeOK
    <2>2. ASSUME NEW s \in Flight(t) PROVE StatusFits(t, s)'
      <3>1. StatusFits(t, s)
        BY <1>2, <2>2, Zenon DEF Fits
      <3>2. s.phase \notin {"mined", "confirmed", "reorged"}
        BY <1>7, <3>1, Zenon DEF StatusFits
      <3> QED
        BY <1>2, <1>4, <3>1, <3>2, Zenon DEF StatusFits, SettledAt
    <2>3. ASSUME Flight(t) = {} PROVE EntryFits(t)'
      <3>1. \/ rows[t].status = "finalized"
            \/ row.status = rows[t].status /\ row.block = rows[t].block
        BY <1>1, <1>2, <1>7, <2>3, Zenon DEF Fits, EntryFits
      <3>2. /\ entry'[t].phase \in {"pending", "confirmed"}
            /\ entry'[t].phase = "pending" => rows[t].status \in Unsettled
            /\ entry'[t].phase = "confirmed" =>
                   rows[t].status = "finalized" \/ SettledAt(t, entry'[t].block)
        BY <1>2, <2>1, <3>1, SeedFits, Zenon
      <3> QED
        BY <1>2, <3>2, Zenon DEF EntryFits, SettledAt
    <2>4. Fits(t)'
      BY <1>3, <2>2, <2>3, Zenon DEF Fits
    <2>5. \A u \in Tx : Fits(u)'
      BY <1>5, <2>1, <2>4, Zenon
    <2> QED
      BY <1>2, <2>5, CleanKept, Zenon
  <1> QED
    BY <1>1, <1>6, <1>7, Zenon DEF RescanSeed

\* A restart seeds every entry from its row, and loses every status.
LEMMA RestartClean ==
  ASSUME SettlementTypeOK, Clean, Restart
  PROVE  Clean'
  <1>1. /\ UNCHANGED <<chainVars, rows, journal>> /\ emitted' = << >> /\ listed' = {}
    BY Zenon DEF Restart, settlementVars
  <1>2. Flying' = {}
    BY <1>1 DEF Flying
  <1>3. ASSUME NEW t \in Tx PROVE EntryFits(t)'
    <2>1. CASE \E row \in PendingRows : row.tx = t
      <3>1. PICK row \in PendingRows : row.tx = t /\ entry'[t] = Seed(row)
        BY <2>1, Zenon DEF Restart
      <3>2. row \in ListedType /\ row.status = rows[t].status /\ row.block = rows[t].block
        BY <3>1, PendingRowsType, Zenon
      <3>3. /\ entry'[t].phase \in {"pending", "confirmed"}
            /\ entry'[t].phase = "pending" => rows[t].status \in Unsettled
            /\ entry'[t].phase = "confirmed" =>
                   rows[t].status = "finalized" \/ SettledAt(t, entry'[t].block)
        BY <3>1, <3>2, SeedFits, Zenon
      <3> QED
        BY <1>1, <3>3, Zenon DEF EntryFits, SettledAt
    <2>2. CASE ~ \E row \in PendingRows : row.tx = t
      <3>1. entry'[t].phase = "untracked"
        BY <2>2, Zenon DEF Restart, Untracked, Entry
      <3> QED
        BY <1>1, <3>1, Zenon DEF EntryFits
    <2> QED
      BY <2>1, <2>2, Zenon
  <1>4. \A t \in Tx : Fits(t)'
    BY <1>2, <1>3, Zenon DEF Fits, Flight
  <1> QED
    BY <1>1, <1>4, CleanKept, Zenon

\* Linking a transaction: nothing can be tracked, surfaced or listed yet.
LEMMA LinkClean ==
  ASSUME TypeOK, Clean, LinkStep
  PROVE  Clean'
  <1>0. SettlementTypeOK /\ WatcherTypeOK /\ listed \subseteq ListedType
    BY Zenon DEF TypeOK
  <1>1. PICK t \in Tx, p \in Payment : Link(t, p)
    BY Zenon DEF LinkStep
  <1>2. /\ UNCHANGED <<chainVars, entry, listed, journal, emitted>>
        /\ rows[t].status = "none"
        /\ rows' = [rows EXCEPT ![t] = Row("pending", p, NoBlock)]
    BY <1>1, Zenon DEF LinkStep, Link, watcherVars
  <1>3. rows'[t].status = "pending" /\ \A u \in Tx \ {t} : rows'[u] = rows[u]
    BY <1>0, <1>2, Zenon DEF Row, SettlementTypeOK
  <1>4. Flying' = Flying /\ \A u : Flight(u)' = Flight(u)
    BY <1>2, Zenon DEF Flight, Flying
  <1>5. \A u \in Tx \ {t} : Fits(u)' /\ RowFits(u)'
    <2>1. ASSUME NEW u \in Tx \ {t}, rows[u].status = "settled"
          PROVE  ~Undone(rows[u].payment, rows[u].block)'
      BY <1>2, <1>3, <2>1 DEF Clean, RowFits, Undone
    <2> QED
      BY <1>2, <1>3, <1>4, <2>1, OthersFit, Zenon
  <1>6. Flight(t) = {}
    <2> SUFFICES ASSUME NEW s \in Flight(t) PROVE FALSE
      BY Zenon
    <2>1. StatusFits(t, s) /\ s.phase \in StatusPhase
      <3>1. s \in StatusType
        BY <1>0, FlyingType, Zenon DEF Flight, WatcherTypeOK
      <3> QED
        BY <3>1, Zenon DEF Clean, Fits, StatusType
    <2> QED
      BY <1>2, <2>1, Zenon DEF StatusFits, SettledAt, Unsettled, StatusPhase
  <1>7. entry[t].phase = "untracked" /\ \A row \in listed : row.tx # t
    <2>1. EntryFits(t)
      BY <1>6, Zenon DEF Clean, Fits
    <2>2. entry[t].phase = "untracked"
      <3>1. entry[t].phase \in EntryPhase
        BY <1>0, Zenon DEF WatcherTypeOK, EntryType
      <3> QED
        BY <1>2, <2>1, <3>1, Zenon DEF EntryFits, EntryPhase, SettledAt, Unsettled
    <2>3. \A row \in listed : row.status # "none"
      BY <1>0, Zenon DEF ListedType
    <2> QED
      BY <1>2, <2>1, <2>2, <2>3, Zenon DEF EntryFits
  <1>8. EntryFits(t)'
    BY <1>2, <1>7, Zenon DEF EntryFits
  <1>9. Fits(t)' /\ RowFits(t)'
    BY <1>3, <1>4, <1>6, <1>8, Zenon DEF Fits, RowFits
  <1>10. UndoneRecorded' /\ OneRowPerEntry'
    BY <1>2, <1>3 DEF Clean, UndoneRecorded, OneRowPerEntry, Undone, Recorded
  <1> QED
    BY <1>5, <1>9, <1>10, Zenon DEF Clean

\* The facts the step uses, together.
Sound == TypeOK /\ DeepInv /\ LedgerInv /\ HouseCovers /\ Orderly /\ NoOverdraft

\* While payments leave the clearing account alone, every step but a failing
\* sink transaction keeps entries and rows agreeing.
LEMMA CleanStep ==
  ASSUME Sound, Clean, drawn = 0, [Next]_vars, ~DeliverFault
  PROVE  Clean'
  <1>0. /\ TypeOK /\ ChainTypeOK /\ SettlementTypeOK /\ WatcherTypeOK /\ listed \subseteq ListedType
        /\ HeadBehind /\ DeepEntries /\ HouseCovers /\ Orderly /\ NoOverdraft
    BY Zenon DEF Sound, TypeOK, DeepInv
  <1>1. ASSUME UNCHANGED <<rows, journal, entry, emitted, listed>>,
               UNCHANGED chainVars \/ \E c \in Block : MoveTip(c)
        PROVE  Clean'
    <2>1. ASSUME NEW t \in Tx PROVE Fits(t)'
      <3>1. Fits(t) /\ \A b : Rooted(t, b) => Rooted(t, b)'
        BY <1>1, RootedKept, Zenon DEF Clean
      <3>2. Flight(t)' = Flight(t)
        BY <1>1, Zenon DEF Flight, Flying
      <3> QED
        BY <1>1, <3>1, <3>2, FitsKept, Zenon
    <2> QED
      BY <1>1, <2>1, CleanKept, Zenon
  <1>2. CASE ChainStep
    BY <1>1, <1>2, Zenon DEF ChainStep, settlementVars, watcherVars
  <1>3. CASE LinkStep
    BY <1>0, <1>3, LinkClean, Zenon
  <1>4. CASE PaymentStep
    BY <1>1, <1>4, Zenon DEF PaymentStep, Pay, watcherVars
  <1>5. CASE PollStep
    BY <1>0, <1>5, PollClean, Zenon DEF PollStep
  <1>6. CASE Deliver
    BY <1>0, <1>6, DeliverClean, Zenon
  <1>7. CASE DeliverRefused
    BY <1>0, <1>7, RefusedClean, Zenon
  <1>8. CASE RescanList
    <2>1. /\ UNCHANGED <<chainVars, rows, journal, entry, emitted>> /\ listed' = PendingRows
      BY <1>8, Zenon DEF RescanList, settlementVars, watcherVars
    <2>2. ASSUME NEW t \in Tx PROVE Fits(t)'
      <3>1. Fits(t) /\ \A b : Rooted(t, b) => Rooted(t, b)'
        BY <2>1, RootedKept, Zenon DEF Clean
      <3>2. Flight(t)' = Flight(t)
        BY <2>1, Zenon DEF Flight, Flying
      <3>3. ASSUME NEW s, StatusFits(t, s) PROVE StatusFits(t, s)'
        BY <2>1, <3>1, <3>3, Zenon DEF StatusFits, SettledAt, Recorded
      <3>4. ASSUME EntryFits(t) PROVE EntryFits(t)'
        BY <1>0, <2>1, <3>4, PendingRowsType, Zenon DEF EntryFits, SettledAt
      <3> QED
        BY <3>1, <3>2, <3>3, <3>4, Zenon DEF Fits
    <2> QED
      BY <2>1, <2>2, CleanKept, Zenon
  <1>9. ASSUME NEW row \in listed, RescanSeed(row) PROVE Clean'
    BY <1>0, <1>9, RescanClean, Zenon
  <1>10. CASE Restart
    BY <1>0, <1>10, RestartClean, Zenon
  <1>11. CASE UNCHANGED vars
    BY <1>1, <1>11, Zenon DEF vars, settlementVars, watcherVars
  <1> QED
    BY <1>2, <1>3, <1>4, <1>5, <1>6, <1>7, <1>8, <1>9, <1>10, <1>11, Zenon DEF Next

\* No step but a failing sink transaction settles a payment a second time.
LEMMA SettledOnceStep ==
  ASSUME Sound, Clean, SettledOnce, [Next]_vars, ~DeliverFault
  PROVE  SettledOnce'
  <1>0. SettlementTypeOK /\ WatcherTypeOK /\ Orderly /\ IsFiniteSet(journal)
    BY Zenon DEF Sound, TypeOK, LedgerInv
  <1>1. CASE UNCHANGED <<rows, journal>>
    BY <1>1, Zenon DEF SettledOnce, NetSettled, EntriesOf, RowsOf
  <1>2. CASE LinkStep
    <2>1. PICK t \in Tx, p \in Payment : Link(t, p)
      BY <1>2, Zenon DEF LinkStep
    <2>2. /\ rows[t].status = "none" /\ journal' = journal
          /\ rows' = [rows EXCEPT ![t] = Row("pending", p, NoBlock)]
      BY <2>1, Zenon DEF Link
    <2>3. rows'[t].status = "pending" /\ \A u \in Tx \ {t} : rows'[u] = rows[u]
      BY <1>0, <2>2, Zenon DEF Row, SettlementTypeOK
    <2>4. \A q : RowsOf(q, {"settled", "finalized"})' = RowsOf(q, {"settled", "finalized"})
      BY <2>2, <2>3, Zenon DEF RowsOf
    <2>5. \A q : NetSettled(q)' = NetSettled(q)
      BY <2>2, Zenon DEF NetSettled, EntriesOf
    <2> QED
      BY <2>4, <2>5, Zenon DEF SettledOnce
  <1>3. CASE Deliver
    <2>1. PICK s : s = NextStatus
      BY Zenon
    <2>2. /\ s \in StatusType /\ OnStatus(s)
          /\ ~(/\ s.phase = "confirmed" /\ rows[s.tx].status = "finalized"
               /\ PostWithin(SettleEntry(rows[s.tx].payment, s.block)))
      BY <1>0, <1>3, <2>1, DeliverClean, Zenon
    <2>3. ASSUME NEW q \in Payment PROVE NetSettled(q)' = Live(q)'
      <3> DEFINE n == NetSettled(q)
                 m == NetSettled(q)'
                 k == Live(q)
                 l == Live(q)'
      <3>1. /\ n \in Int /\ m \in Int /\ k \in Int /\ l \in Int
            /\ m - n = l - k
        BY <1>0, <2>2, OnStatusCounts, Zenon
      <3>2. n = k
        BY Zenon DEF SettledOnce, Live
      <3> HIDE DEF n, m, k, l
      <3>3. m = l
        BY <3>1, <3>2
      <3> QED
        BY <3>3, Zenon DEF m, l
    <2> QED
      BY <2>3, Zenon DEF SettledOnce, Live
  <1>4. CASE PaymentStep
    BY <1>1, <1>4, Zenon DEF PaymentStep, Pay
  <1>5. CASE UNCHANGED settlementVars
    BY <1>1, <1>5, Zenon DEF settlementVars
  <1> QED
    BY <1>2, <1>3, <1>4, <1>5, Zenon
    DEF Next, ChainStep, PollStep, DeliverRefused, RescanList, RescanSeed, Restart, vars

CleanInv == NoLapse => Clean /\ SettledOnce

\* While nothing has lapsed no step was a failing one.
LEMMA CleanInvStep == Sound /\ CleanInv /\ [Next]_vars => CleanInv'
  <1> SUFFICES ASSUME Sound, CleanInv, [Next]_vars, faults' = 0, drawn' = 0
               PROVE  Clean' /\ SettledOnce'
    BY Zenon DEF CleanInv, NoLapse
  <1>1. faults \in Nat /\ drawn \in Nat /\ \A p \in Payment : Amount[p] \in Nat
    BY BoundAssumption, SettlementAssumption DEF Sound, TypeOK
  <1>2. ~DeliverFault
    BY <1>1 DEF DeliverFault
  <1>3. faults = 0
    BY <1>2, Zenon
    DEF Next, ChainStep, LinkStep, PaymentStep, PollStep, Deliver, DeliverRefused, RescanList,
        RescanSeed, Restart, vars, envVars
  <1>4. drawn = 0
    <2>1. CASE PaymentStep
      <3>1. PICK p \in Payment, x \in Account :
              drawn' = IF x = House THEN drawn + Amount[p] ELSE drawn
        BY <2>1, Zenon DEF PaymentStep
      <3> QED
        BY <1>1, <3>1
    <2>2. CASE drawn' = drawn
      BY <2>2, Zenon
    <2> QED
      BY <1>2, <2>1, <2>2, Zenon
      DEF Next, ChainStep, LinkStep, PollStep, Deliver, DeliverRefused, RescanList, RescanSeed,
          Restart, vars, envVars
  <1> QED
    BY <1>2, <1>3, <1>4, CleanStep, SettledOnceStep, Zenon DEF CleanInv, NoLapse

\* Nothing is tracked, linked or posted at the start.
LEMMA InitClean == Init => Orderly /\ NoOverdraft /\ CleanInv
  <1> SUFFICES ASSUME Init PROVE Orderly /\ NoOverdraft /\ Clean /\ SettledOnce
    BY Zenon DEF CleanInv
  <1>1. /\ journal = {} /\ listed = {} /\ emitted = << >> /\ balance = Opening
        /\ \A t \in Tx : rows[t].status = "none" /\ entry[t] = Untracked
    BY Zenon DEF Init, SettlementInit, WatcherInit, Row
  <1>2. Flying = {} /\ Once
    BY <1>1 DEF Flying, Once
  <1>3. Orderly
    BY <1>1, <1>2, SeedLast, Zenon DEF Orderly, Busy
  <1>4. NoOverdraft
    BY <1>1, SettlementAssumption DEF NoOverdraft
  <1>5. Untracked.phase = "untracked"
    BY Zenon DEF Untracked, Entry
  <1>6. ASSUME NEW t \in Tx PROVE Fits(t) /\ RowFits(t)
    <2>1. entry[t].phase = "untracked"
      BY <1>1, <1>5, Zenon
    <2> QED
      BY <1>1, <1>2, <2>1, Zenon DEF Fits, Flight, EntryFits, RowFits
  <1>7. UndoneRecorded /\ OneRowPerEntry
    BY <1>1, Zenon DEF UndoneRecorded, OneRowPerEntry, Undone
  <1>8. SettledOnce
    <2>1. ASSUME NEW p \in Payment
          PROVE  /\ EntriesOf("settle", p) = {} /\ EntriesOf("reversal", p) = {}
                 /\ RowsOf(p, {"settled", "finalized"}) = {}
      BY <1>1, Zenon DEF EntriesOf, RowsOf
    <2> QED
      BY <2>1, FS_EmptySet DEF SettledOnce, NetSettled
  <1> QED
    BY <1>3, <1>4, <1>6, <1>7, <1>8, Zenon DEF Clean

\* While no sink transaction has failed and payments have taken nothing out of
\* the clearing account, a payment is settled in the ledger
\* exactly as often as its rows say, final ones included: restarts, stale
\* re-scans, reorganisations and refused postings never settle it twice.
THEOREM SettledOnceHolds == Spec => []SettledOnceUnlessFaults
  <1>1. Init => Sound /\ CleanInv
    BY InitType, InitDeep, InitLedger, InitHouse, InitClean, Zenon DEF Sound
  <1>2. Sound /\ CleanInv /\ [Next]_vars => Sound' /\ CleanInv'
    <2>1. Sound /\ [Next]_vars => Sound'
      BY TypeStep, DeepStep, LedgerStep, HouseStep, OrderlyStep, NoOverdraftStep, Zenon DEF Sound
    <2> QED
      BY <2>1, CleanInvStep, Zenon
  <1>3. CleanInv => SettledOnceUnlessFaults
    BY Zenon DEF CleanInv, SettledOnceUnlessFaults
  <1> QED
    BY <1>1, <1>2, <1>3, PTL DEF Spec
=============================================================================
