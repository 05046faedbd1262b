------------------------- MODULE ChainwatcherProofs -------------------------
(***************************************************************************)
(* What the chain watcher and its settlement sink guarantee for every set  *)
(* of transactions and payments, every block tree, every depth and every   *)
(* number of faults and restarts: types, and depth.                        *)
(***************************************************************************)
EXTENDS Chainwatcher, TLAPS

(***************************************************************************)
(* Facts about sequences.                                                  *)
(***************************************************************************)

\* Appending a member stays in Seq(S).
LEMMA AppendSeq ==
  ASSUME NEW S, NEW q \in Seq(S), NEW x \in S
  PROVE  /\ Append(q, x) \in Seq(S)
         /\ \A i \in 1..Len(Append(q, x)) : Append(q, x)[i] = x \/ (i \in 1..Len(q) /\ Append(q, x)[i] = q[i])
  OBVIOUS

\* A nonempty sequence has its head in S and its tail in Seq(S).
LEMMA HeadTailSeq ==
  ASSUME NEW S, NEW q \in Seq(S), q # << >>
  PROVE  /\ Head(q) \in S
         /\ Head(q) = q[1] /\ 1 \in 1..Len(q)
         /\ Tail(q) \in Seq(S)
         /\ \A i \in 1..Len(Tail(q)) : i + 1 \in 1..Len(q) /\ Tail(q)[i] = q[i + 1]
  OBVIOUS

(***************************************************************************)
(* Type correctness, one lemma per part of the state.                      *)
(***************************************************************************)

\* Posting an entry of either kind keeps the ledger's types.
LEMMA PostType ==
  ASSUME SettlementTypeOK, NEW e, SinkEntry(e), PostWithin(e)
  PROVE  (\A f \in journal' : SinkEntry(f)) /\ balance' \in [Account -> Int]
  <1>1. PICK p \in Payment, b \in Block : e = SettleEntry(p, b) \/ e = ReversalEntry(p, b)
    BY Zenon DEF SinkEntry
  <1>2. \A a \in DOMAIN e.lines : e.lines[a] \in Int
    BY <1>1, SettlementAssumption DEF SettleEntry, ReversalEntry, Transfer
  <1> QED
    BY <1>2 DEF SettlementTypeOK, PostWithin, ApplyToBalances

\* A status update of one row, with its event, keeps the types of both tables.
LEMMA RowUpdateType ==
  ASSUME SettlementTypeOK, NEW t \in Tx, NEW st \in RowStatus, NEW b \in Block \cup {NoBlock},
         NEW type \in {"confirmed", "reorged", "finalized"},
         rows[t].status # "none", st = "settled" => b \in Block,
         rows' = [rows EXCEPT ![t] = Row(st, @.payment, b)], EmitEvent(t, type),
         \A e \in journal' : SinkEntry(e), balance' \in [Account -> Int]
  PROVE  SettlementTypeOK'
  <1>1. rows \in [Tx -> RowType] /\ rows[t] \in RowType /\ rows[t].payment \in Payment
    BY Zenon DEF SettlementTypeOK
  <1>2. Row(st, rows[t].payment, b) \in RowType
    BY <1>1, Zenon DEF Row, RowType
  <1>3. rows' \in [Tx -> RowType]
    BY <1>1, <1>2, Zenon
  <1>4. ASSUME NEW u \in Tx
        PROVE  /\ rows'[u].status # "none" => rows'[u].payment \in Payment
               /\ rows'[u].status = "settled" => rows'[u].block \in Block
    BY <1>1, Zenon DEF Row, SettlementTypeOK
  <1>5. events' \in [Tx -> Seq({"confirmed", "reorged", "finalized"})]
    BY DEF EmitEvent, SettlementTypeOK
  <1> QED
    BY <1>3, <1>4, <1>5, Zenon DEF SettlementTypeOK

\* A committed sink transaction keeps the types of what it writes.
LEMMA OnStatusType ==
  ASSUME SettlementTypeOK, NEW s \in StatusType, OnStatus(s)
  PROVE  SettlementTypeOK'
  <1>0. s.tx \in Tx /\ s.block \in Block
    BY Zenon DEF StatusType
  <1> SUFFICES ASSUME NEW t \in Tx, NEW b \in Block, rows[t].status # "none",
                      Settle(t, b) \/ Reverse(t, b) \/ Finalize(t)
               PROVE  SettlementTypeOK'
    BY <1>0, Zenon DEF OnStatus, SettlementTypeOK, settlementVars
  <1>1. CASE UNCHANGED settlementVars
    BY <1>1, Zenon DEF SettlementTypeOK, settlementVars
  <1>2. rows[t].payment \in Payment /\ rows[t].block \in Block \cup {NoBlock}
    BY Zenon DEF SettlementTypeOK, RowType
  <1>3. /\ SinkEntry(SettleEntry(rows[t].payment, b))
        /\ SinkEntry(ReversalEntry(rows[t].payment, b))
    BY <1>2, Zenon DEF SinkEntry
  <1>4. CASE Settle(t, b) /\ rows[t].status # "settled"
    <2>1. (\A e \in journal' : SinkEntry(e)) /\ balance' \in [Account -> Int]
      BY <1>3, <1>4, PostType, Zenon DEF Settle
    <2>2. CASE UNCHANGED <<rows, events>>
      BY <2>1, <2>2, Zenon DEF SettlementTypeOK
    <2>3. CASE /\ rows' = [rows EXCEPT ![t] = Row("settled", @.payment, b)]
               /\ EmitEvent(t, "confirmed")
      BY <2>1, <2>3, RowUpdateType, Zenon DEF RowStatus
    <2> QED
      BY <1>4, <2>2, <2>3, Zenon DEF Settle, MarkSettlementSettled
  <1>5. CASE Reverse(t, b) /\ rows[t].status = "settled"
    <2>1. (\A e \in journal' : SinkEntry(e)) /\ balance' \in [Account -> Int]
      BY <1>3, <1>5, PostType, Zenon DEF Reverse
    <2> QED
      BY <1>5, <2>1, RowUpdateType, Zenon DEF Reverse, RowStatus
  <1>6. CASE Finalize(t) /\ rows[t].status = "settled"
    <2>1. (\A e \in journal' : SinkEntry(e)) /\ balance' \in [Account -> Int]
      BY <1>6, Zenon DEF Finalize, ledgerVars, SettlementTypeOK
    <2> QED
      BY <1>2, <1>6, <2>1, RowUpdateType, Zenon DEF Finalize, RowStatus
  <1> QED
    BY <1>1, <1>4, <1>5, <1>6, Zenon DEF Settle, Reverse, Finalize

\* What one observation does to the tracked map and to the pass's statuses.
LEMMA ObserveType ==
  ASSUME WatcherTypeOK, NEW t \in Tx, NEW e \in EntryType, NEW phase \in StatusPhase,
         NEW b \in Block, NEW depth \in Nat, Observe(t, e, phase, b, depth)
  PROVE  /\ entry' \in [Tx -> EntryType]
         /\ entry'[t].phase = e.phase /\ entry'[t].block = e.block
         /\ \A u \in Tx \ {t} : entry'[u] = entry[u]
         /\ emitted' = emitted \/ emitted' = Append(emitted, Status(t, phase, b))
         /\ emitted' \in Seq(StatusType)
  <1>1. Stamp(e, phase, depth) \in EntryType
    BY Zenon DEF Stamp, Entry, EntryType
  <1>2. Stamp(e, phase, depth).phase = e.phase /\ Stamp(e, phase, depth).block = e.block
    BY Zenon DEF Stamp, Entry, EntryType
  <1>3. entry \in [Tx -> EntryType] /\ emitted \in Seq(StatusType)
    BY Zenon DEF WatcherTypeOK
  <1>4. entry' = [entry EXCEPT ![t] = Stamp(e, phase, depth)]
    BY Zenon DEF Observe
  <1>5. Status(t, phase, b) \in StatusType
    BY Zenon DEF Status, StatusType
  <1>6. emitted' = emitted \/ emitted' = Append(emitted, Status(t, phase, b))
    BY Zenon DEF Observe, Surfaced
  <1>7. emitted' \in Seq(StatusType)
    <2>1. Append(emitted, Status(t, phase, b)) \in Seq(StatusType)
      BY <1>3, <1>5, AppendSeq, Zenon
    <2> QED
      BY <1>3, <1>6, <2>1, Zenon
  <1>8. /\ entry' \in [Tx -> EntryType]
        /\ entry'[t] = Stamp(e, phase, depth)
        /\ \A u \in Tx \ {t} : entry'[u] = entry[u]
    BY <1>1, <1>3, <1>4, Zenon
  <1> QED
    BY <1>2, <1>6, <1>7, <1>8, Zenon

\* What PollHeader, PollPending and PollReceipt hand to Observe.
LEMMA AdvanceType ==
  ASSUME WatcherTypeOK, NEW t \in Tx, NEW b \in Block, NEW depth \in Nat, Advance(t, b, depth)
  PROVE  /\ entry' \in [Tx -> EntryType]
         /\ entry'[t].phase = IF depth >= Depth THEN "confirmed" ELSE "mined"
         /\ entry'[t].block = b
         /\ \A u \in Tx \ {t} : entry'[u] = entry[u]
         /\ \/ emitted' = emitted
            \/ emitted' = Append(emitted, Status(t, entry'[t].phase, b))
         /\ emitted' \in Seq(StatusType)
  <1> DEFINE ph == IF depth >= Depth THEN "confirmed" ELSE "mined"
  <1>1. At(entry[t], ph, b) \in EntryType
    BY Zenon DEF WatcherTypeOK, At, Entry, EntryType, EntryPhase
  <1>2. At(entry[t], ph, b).phase = ph /\ At(entry[t], ph, b).block = b
    BY Zenon DEF At, Entry
  <1>3. ph \in StatusPhase
    BY Zenon DEF StatusPhase
  <1>4. Observe(t, At(entry[t], ph, b), ph, b, depth)
    BY Zenon DEF Advance
  <1> HIDE DEF ph
  <1>5. /\ entry' \in [Tx -> EntryType]
        /\ entry'[t].phase = ph /\ entry'[t].block = b
        /\ \A u \in Tx \ {t} : entry'[u] = entry[u]
        /\ emitted' = emitted \/ emitted' = Append(emitted, Status(t, ph, b))
        /\ emitted' \in Seq(StatusType)
    BY <1>1, <1>2, <1>3, <1>4, ObserveType, Zenon
  <1> QED
    BY <1>5, Zenon DEF ph

\* reverse leaves a well-typed entry and surfaces a well-typed status.
LEMMA ReverseEntryType ==
  ASSUME WatcherTypeOK, NEW t \in Tx, entry[t].block \in Block, ReverseEntry(t)
  PROVE  /\ entry' \in [Tx -> EntryType]
         /\ entry'[t].phase = "pending"
         /\ \A u \in Tx \ {t} : entry'[u] = entry[u]
         /\ \/ emitted' = emitted
            \/ emitted' = Append(emitted, Status(t, "reorged", entry[t].block))
         /\ emitted' \in Seq(StatusType)
  <1>1. At(entry[t], "pending", NoBlock) \in EntryType
    BY Zenon DEF WatcherTypeOK, At, Entry, EntryType, EntryPhase
  <1>2. At(entry[t], "pending", NoBlock).phase = "pending"
    BY Zenon DEF At, Entry
  <1> QED
    BY <1>1, <1>2, ObserveType DEF ReverseEntry, StatusPhase

\* What the node answers is well typed.
LEMMA NodeType ==
  ASSUME ChainTypeOK, WatcherTypeOK
  PROVE  /\ HeadNumber \in Nat
         /\ \A t \in Tx : ReceiptBlocks(t) \subseteq Block
         /\ \A b \in Block : Number[b] \in Nat /\ confirmations(b) \in Nat
  BY ChainAssumption DEF ChainTypeOK, WatcherTypeOK, HeadNumber, ReceiptBlocks, confirmations

\* A change of one entry, with no key in hand after it.
LEMMA EntryChangeType ==
  ASSUME WatcherTypeOK, NEW t \in Tx, entry' \in [Tx -> EntryType],
         \A u \in Tx \ {t} : entry'[u] = entry[u],
         entry'[t].phase \in {"mined", "confirmed"} => entry'[t].block \in Block,
         entry'[t].phase # "untracked" \/ t \notin todo',
         head' \in Nat, todo' \subseteq todo, cur' = NoTx, emitted' \in Seq(StatusType)
  PROVE  WatcherTypeOK'
  <1>1. ASSUME NEW u \in Tx
        PROVE  entry'[u].phase \in {"mined", "confirmed"} => entry'[u].block \in Block
    BY Zenon DEF WatcherTypeOK
  <1>2. todo' \subseteq Tracked' \ {cur'}
    BY WatcherAssumption, Zenon DEF WatcherTypeOK, Tracked
  <1> QED
    BY <1>1, <1>2, Zenon DEF WatcherTypeOK

\* Every read of a pass keeps the watcher's types.
LEMMA PollType ==
  ASSUME ChainTypeOK, WatcherTypeOK, Poll
  PROVE  WatcherTypeOK'
  <1> USE NodeType
  <1>1. CASE StartPass
    BY <1>1, WatcherAssumption, Zenon DEF StartPass, PassOver, WatcherTypeOK, Tracked
  <1>2. ASSUME NEW t \in Tx, PollPending(t)
        PROVE  WatcherTypeOK'
    <2>1. CASE UNCHANGED <<entry, emitted>>
      BY <1>2, <2>1, Zenon DEF PollPending, WatcherTypeOK, Tracked
    <2>2. ASSUME NEW b \in ReceiptBlocks(t), NEW d \in Nat, Advance(t, b, d)
          PROVE  WatcherTypeOK'
      <3>1. /\ entry' \in [Tx -> EntryType]
            /\ entry'[t].phase \in {"mined", "confirmed"}
            /\ entry'[t].block = b /\ b \in Block
            /\ \A u \in Tx \ {t} : entry'[u] = entry[u]
            /\ emitted' \in Seq(StatusType)
        BY <2>2, AdvanceType, Zenon
      <3>2. UNCHANGED <<head, cur>> /\ todo' = todo \ {t} /\ cur = NoTx
        BY <1>2, Zenon DEF PollPending
      <3> QED
        BY <3>1, <3>2, Zenon DEF WatcherTypeOK, Tracked
    <2>3. \A b \in ReceiptBlocks(t) : (IF confirmations(b) = 0 THEN 1 ELSE confirmations(b)) \in Nat
      BY Zenon
    <2> QED
      BY <1>2, <2>1, <2>2, <2>3, Zenon DEF PollPending
  <1>3. ASSUME NEW t \in Tx, PollReceipt(t)
        PROVE  WatcherTypeOK'
    <2>0. /\ entry[t].phase \in {"mined", "confirmed"} /\ entry[t].block \in Block
          /\ todo' = todo \ {t} /\ cur = NoTx /\ UNCHANGED head
      BY <1>3, Zenon DEF PollReceipt, WatcherTypeOK
    <2>1. CASE ReverseEntry(t) /\ cur' = NoTx
      <3>1. /\ entry' \in [Tx -> EntryType]
            /\ entry'[t].phase = "pending"
            /\ \A u \in Tx \ {t} : entry'[u] = entry[u]
            /\ emitted' \in Seq(StatusType)
        BY <2>0, <2>1, ReverseEntryType, Zenon
      <3> QED
        BY <2>0, <2>1, <3>1, EntryChangeType, Zenon DEF WatcherTypeOK
    <2>2. CASE cur' = t /\ UNCHANGED <<entry, emitted>>
      BY <2>0, <2>2, Zenon DEF WatcherTypeOK, Tracked
    <2> QED
      BY <1>3, <2>1, <2>2, Zenon DEF PollReceipt
  <1>4. CASE PollHeader
    <2>0. /\ cur \in Tx /\ entry[cur].block \in Block
          /\ cur' = NoTx /\ UNCHANGED <<head, todo>>
      BY <1>4, Zenon DEF PollHeader, WatcherTypeOK
    <2>1. CASE ReverseEntry(cur)
      <3>1. /\ entry' \in [Tx -> EntryType]
            /\ entry'[cur].phase = "pending"
            /\ \A u \in Tx \ {cur} : entry'[u] = entry[u]
            /\ emitted' \in Seq(StatusType)
        BY <2>0, <2>1, ReverseEntryType, Zenon
      <3> QED
        BY <2>0, <3>1, EntryChangeType, Zenon DEF WatcherTypeOK
    <2>2. CASE Advance(cur, entry[cur].block, confirmations(entry[cur].block))
      <3>1. /\ entry' \in [Tx -> EntryType]
            /\ entry'[cur].phase \in {"mined", "confirmed"}
            /\ entry'[cur].block \in Block
            /\ \A u \in Tx \ {cur} : entry'[u] = entry[u]
            /\ emitted' \in Seq(StatusType)
        BY <2>0, <2>2, AdvanceType, Zenon
      <3> QED
        BY <2>0, <3>1, EntryChangeType, Zenon DEF WatcherTypeOK
    <2>3. CASE FinalizeEntry(cur)
      <3>1. entry' = [entry EXCEPT ![cur] = Untracked] /\ Untracked \in EntryType
        BY <2>3, Zenon DEF FinalizeEntry, Untracked, Entry, EntryType, EntryPhase
      <3>2. Status(cur, "finalized", entry[cur].block) \in StatusType
        BY <2>0, Zenon DEF Status, StatusType, StatusPhase
      <3>3. Append(emitted, Status(cur, "finalized", entry[cur].block)) \in Seq(StatusType)
        BY <3>2, AppendSeq, Zenon DEF WatcherTypeOK
      <3>4. emitted' \in Seq(StatusType)
        BY <2>3, <3>3, Zenon DEF FinalizeEntry, Surfaced, WatcherTypeOK
      <3>5. Untracked.phase = "untracked"
        BY Zenon DEF Untracked, Entry
      <3> QED
        BY <2>0, <3>1, <3>4, <3>5, WatcherAssumption, Zenon DEF WatcherTypeOK, Tracked
    <2>4. CASE UNCHANGED <<entry, emitted>>
      BY <2>0, <2>4, WatcherAssumption, Zenon DEF WatcherTypeOK, Tracked
    <2> QED
      BY <1>4, <2>1, <2>2, <2>3, <2>4, Zenon DEF PollHeader
  <1>5. CASE PollSkip
    BY <1>5, WatcherAssumption, Zenon DEF PollSkip, WatcherTypeOK, Tracked
  <1> QED
    BY <1>1, <1>2, <1>3, <1>4, <1>5, Zenon DEF Poll

\* Handing a status to the sink, with or without Run's rollback of the entry.
LEMMA DispatchType ==
  ASSUME WatcherTypeOK, Dispatch, RollBack(NextStatus) \/ UNCHANGED entry
  PROVE  WatcherTypeOK' /\ NextStatus \in StatusType
  <1>1. /\ emitted \in Seq(StatusType) /\ emitted # << >> /\ emitted' = Tail(emitted)
        /\ head' = 0 /\ cur = NoTx /\ cur' = NoTx /\ todo = {} /\ todo' = {}
    BY Zenon DEF Dispatch, WatcherTypeOK
  <1>2. NextStatus \in StatusType /\ emitted' \in Seq(StatusType)
    BY <1>1, HeadTailSeq, Zenon DEF NextStatus
  <1>3. CASE UNCHANGED entry
    BY <1>1, <1>2, <1>3, Zenon DEF WatcherTypeOK, Tracked
  <1>4. ASSUME NEW t \in Tx, entry[t].phase = "confirmed",
               entry' = [entry EXCEPT ![t] = Entry("mined", @.block, "pending", 0)]
        PROVE  WatcherTypeOK'
    <2>1. entry \in [Tx -> EntryType] /\ entry[t] \in EntryType /\ entry[t].block \in Block
      BY <1>4, Zenon DEF WatcherTypeOK
    <2>2. Entry("mined", entry[t].block, "pending", 0) \in EntryType
      BY <2>1, Zenon DEF Entry, EntryType, EntryPhase
    <2>3. /\ entry' \in [Tx -> EntryType] /\ \A u \in Tx \ {t} : entry'[u] = entry[u]
          /\ entry'[t] = Entry("mined", entry[t].block, "pending", 0)
      BY <1>4, <2>1, <2>2, Zenon
    <2>4. entry'[t].phase = "mined" /\ entry'[t].block = entry[t].block
      BY <2>3 DEF Entry
    <2> QED
      BY <1>1, <1>2, <2>1, <2>3, <2>4, EntryChangeType, Zenon
  <1>5. NextStatus.tx \in Tx
    BY <1>2, Zenon DEF StatusType
  <1> QED
    BY <1>2, <1>3, <1>4, <1>5, Zenon DEF RollBack

\* seed makes an entry of the right type from any listed row.
LEMMA SeedType ==
  ASSUME NEW row \in ListedType
  PROVE  /\ Seed(row) \in EntryType
         /\ Seed(row).phase \in {"pending", "confirmed"}
         /\ Seed(row).phase = "confirmed" =>
                row.status = "settled" /\ row.block \in Block /\ Seed(row).block = row.block
  BY DepthAssumption, ChainAssumption, Zenon DEF Seed, ListedType, Resume, Track, Entry, EntryType, EntryPhase, StatusPhase

\* ListPendingSettlements returns rows of the listed type.
LEMMA PendingRowsType ==
  ASSUME SettlementTypeOK
  PROVE  /\ PendingRows \subseteq ListedType
         /\ \A row \in PendingRows : row.status = rows[row.tx].status /\ row.block = rows[row.tx].block
  BY DEF PendingRows, SettlementTypeOK, RowType, ListedType

\* Seeding one listed row keeps the type invariant.
LEMMA RescanSeedType ==
  ASSUME WatcherTypeOK, listed \subseteq ListedType, NEW row \in listed, RescanSeed(row)
  PROVE  WatcherTypeOK' /\ listed' \subseteq ListedType
  <1>1. row \in ListedType /\ row.tx \in Tx
    BY Zenon DEF ListedType
  <1>2. UNCHANGED <<head, todo, cur, emitted>> /\ listed' \subseteq listed
    BY Zenon DEF RescanSeed
  <1>3. CASE entry' = entry
    BY <1>2, <1>3, Zenon DEF WatcherTypeOK, Tracked
  <1>4. CASE entry[row.tx].phase = "untracked" /\ entry' = [entry EXCEPT ![row.tx] = Seed(row)]
    <2>0. entry \in [Tx -> EntryType] /\ Seed(row) \in EntryType
      BY <1>1, SeedType, Zenon DEF WatcherTypeOK
    <2>1. /\ entry' \in [Tx -> EntryType]
          /\ \A u \in Tx \ {row.tx} : entry'[u] = entry[u]
          /\ entry'[row.tx] = Seed(row)
      BY <1>1, <1>4, <2>0, Zenon
    <2>2. ASSUME NEW u \in Tx, entry'[u].phase \in {"mined", "confirmed"}
          PROVE  entry'[u].block \in Block
      <3>1. CASE u = row.tx
        BY <1>1, <2>1, <2>2, <3>1, SeedType
      <3>2. CASE u # row.tx
        BY <2>1, <2>2, <3>2, Zenon DEF WatcherTypeOK
      <3> QED
        BY <3>1, <3>2, Zenon
    <2>3. cur # row.tx /\ row.tx \notin todo
      BY <1>1, <1>4, WatcherAssumption, Zenon DEF WatcherTypeOK, Tracked
    <2>4. todo' \subseteq Tracked' \ {cur'}
      BY <1>1, <1>2, <2>1, <2>3, Zenon DEF WatcherTypeOK, Tracked
    <2> QED
      BY <1>1, <1>2, <2>1, <2>2, <2>3, <2>4, Zenon DEF WatcherTypeOK
  <1> QED
    BY <1>2, <1>3, <1>4, Zenon DEF RescanSeed

\* What a restart leaves in the tracked map.
LEMMA RestartEntries ==
  ASSUME SettlementTypeOK, Restart, NEW t \in Tx
  PROVE  /\ entry'[t] \in EntryType
         /\ entry'[t].phase \in {"untracked", "pending", "confirmed"}
         /\ entry'[t].phase = "confirmed" =>
                rows[t].status = "settled" /\ entry'[t].block = rows[t].block
  <1>1. CASE \E row \in PendingRows : row.tx = t
    <2>1. PICK row \in PendingRows : row.tx = t /\ entry'[t] = Seed(row)
      BY <1>1, Zenon DEF Restart
    <2> QED
      BY <2>1, SeedType, PendingRowsType
  <1>2. CASE ~ \E row \in PendingRows : row.tx = t
    BY <1>2, Zenon DEF Restart, Untracked, Entry, EntryType, EntryPhase
  <1> QED
    BY <1>1, <1>2, Zenon

\* The initial states are well typed.
LEMMA InitType == Init => TypeOK
  <1> SUFFICES ASSUME Init PROVE TypeOK
    BY Zenon
  <1>1. ChainTypeOK
    BY ChainAssumption, Zenon DEF Init, ChainInit, ChainTypeOK
  <1>2. SettlementTypeOK
    BY SettlementAssumption DEF Init, SettlementInit, SettlementTypeOK, Row, RowType, RowStatus
  <1>3. WatcherTypeOK
    BY DEF Init, WatcherInit, WatcherTypeOK, Untracked, Entry, EntryType, EntryPhase, Tracked
  <1> QED
    BY <1>1, <1>2, <1>3, BoundAssumption DEF Init, TypeOK

\* Every step keeps the type invariant, one case per action of Next.
LEMMA TypeStep == TypeOK /\ [Next]_vars => TypeOK'
  <1> SUFFICES ASSUME TypeOK, [Next]_vars PROVE TypeOK'
    BY Zenon
  <1> USE BoundAssumption DEF envVars
  <1>0. /\ ChainTypeOK /\ SettlementTypeOK /\ WatcherTypeOK /\ listed \subseteq ListedType
        /\ faults \in 0..MaxFaults /\ restarts \in 0..MaxRestarts
        /\ payments \in 0..MaxPayments /\ drawn \in Nat
    BY Zenon DEF TypeOK
  <1>a. ASSUME UNCHANGED chainVars PROVE ChainTypeOK'
    BY <1>0, <1>a, Zenon DEF chainVars, ChainTypeOK
  <1>b. ASSUME UNCHANGED settlementVars PROVE SettlementTypeOK'
    BY <1>0, <1>b, Zenon DEF settlementVars, SettlementTypeOK
  <1>c. ASSUME UNCHANGED watcherVars PROVE WatcherTypeOK'
    BY <1>0, <1>c, Zenon DEF watcherVars, WatcherTypeOK, Tracked
  <1>1. CASE ChainStep
    <2>1. ChainTypeOK'
      BY <1>0, <1>1, ChainAssumption DEF ChainStep, MoveTip, ChainTypeOK
    <2> QED
      BY <1>0, <1>1, <1>b, <1>c, <2>1, Zenon DEF ChainStep, TypeOK
  <1>2. CASE LinkStep
    <2>1. PICK t \in Tx, p \in Payment : Link(t, p)
      BY <1>2, Zenon DEF LinkStep
    <2>2. Row("pending", p, NoBlock) \in RowType
      BY Zenon DEF Row, RowType, RowStatus
    <2>3. rows' \in [Tx -> RowType]
      BY <1>0, <2>1, <2>2, Zenon DEF Link, SettlementTypeOK
    <2>4. ASSUME NEW u \in Tx
          PROVE  /\ rows'[u].status # "none" => rows'[u].payment \in Payment
                 /\ rows'[u].status = "settled" => rows'[u].block \in Block
      BY <1>0, <2>1, Zenon DEF Link, SettlementTypeOK, Row
    <2>5. SettlementTypeOK'
      BY <1>0, <2>1, <2>3, <2>4, Zenon DEF Link, SettlementTypeOK
    <2> QED
      BY <1>0, <1>2, <1>a, <1>c, <2>5, Zenon DEF LinkStep, TypeOK
  <1>3. CASE PaymentStep
    <2>1. PICK p \in Payment, x \in Account, y \in Account :
            /\ Pay(x, y, Amount[p])
            /\ drawn' = IF x = House THEN drawn + Amount[p] ELSE drawn
      BY <1>3, Zenon DEF PaymentStep
    <2>2. balance' \in [Account -> Int] /\ UNCHANGED <<rows, events, journal>>
      <3>1. /\ balance' = ApplyToBalances(Transfer(x, y, Amount[p]))
            /\ UNCHANGED <<rows, events, journal>>
        BY <2>1, Zenon DEF Pay
      <3>2. \A a \in DOMAIN Transfer(x, y, Amount[p]) : Transfer(x, y, Amount[p])[a] \in Int
        BY SettlementAssumption DEF Transfer
      <3> QED
        BY <1>0, <3>1, <3>2 DEF ApplyToBalances, SettlementTypeOK
    <2>4. SettlementTypeOK'
      BY <1>0, <2>2, Zenon DEF SettlementTypeOK
    <2>3. payments' \in 0..MaxPayments /\ drawn' \in Nat
      BY <1>0, <1>3, <2>1, SettlementAssumption DEF PaymentStep
    <2> QED
      BY <1>0, <1>3, <1>a, <1>c, <2>3, <2>4, Zenon DEF PaymentStep, TypeOK
  <1>4. CASE PollStep
    BY <1>0, <1>4, <1>a, <1>b, PollType, Zenon DEF PollStep, TypeOK
  <1>5. CASE Deliver
    <2>1. WatcherTypeOK' /\ NextStatus \in StatusType
      BY <1>0, <1>5, DispatchType, Zenon DEF Deliver
    <2>2. SettlementTypeOK'
      BY <1>0, <1>5, <2>1, OnStatusType, Zenon DEF Deliver
    <2> QED
      BY <1>0, <1>5, <1>a, <2>1, <2>2, Zenon DEF Deliver, TypeOK
  <1>6. CASE DeliverRefused
    BY <1>0, <1>6, <1>a, <1>b, DispatchType, Zenon DEF DeliverRefused, TypeOK
  <1>7. CASE DeliverFault
    <2>1. WatcherTypeOK' /\ NextStatus \in StatusType
      BY <1>0, <1>7, DispatchType, Zenon DEF DeliverFault
    <2>2. SettlementTypeOK'
      BY <1>0, <1>7, <1>b, <2>1, OnStatusType, Zenon DEF DeliverFault
    <2>3. faults' \in 0..MaxFaults
      BY <1>0, <1>7 DEF DeliverFault
    <2> QED
      BY <1>0, <1>7, <1>a, <2>1, <2>2, <2>3, Zenon DEF DeliverFault, TypeOK
  <1>8. CASE RescanList
    BY <1>0, <1>8, <1>a, <1>b, <1>c, PendingRowsType, Zenon DEF RescanList, TypeOK
  <1>9. ASSUME NEW row \in listed, RescanSeed(row) PROVE TypeOK'
    BY <1>0, <1>9, <1>a, <1>b, RescanSeedType, Zenon DEF RescanSeed, TypeOK
  <1>10. CASE Restart
    <2>1. /\ \A t \in Tx : entry'[t] \in EntryType
          /\ entry' = [t \in Tx |-> entry'[t]]
      BY <1>0, <1>10, RestartEntries, Zenon DEF Restart
    <2>2. entry' \in [Tx -> EntryType]
      BY <2>1, Zenon
    <2>3. ASSUME NEW t \in Tx, entry'[t].phase \in {"mined", "confirmed"}
          PROVE  entry'[t].block \in Block
      BY <1>0, <1>10, <2>3, RestartEntries, Zenon DEF SettlementTypeOK
    <2>4. /\ head' = 0 /\ todo' = {} /\ cur' = NoTx /\ emitted' = << >> /\ listed' = {}
          /\ restarts' \in 0..MaxRestarts
      BY <1>0, <1>10 DEF Restart
    <2>5. WatcherTypeOK'
      BY <2>2, <2>3, <2>4 DEF WatcherTypeOK
    <2> QED
      BY <1>0, <1>10, <1>a, <1>b, <2>4, <2>5, Zenon DEF Restart, TypeOK
  <1>11. CASE UNCHANGED vars
    BY <1>0, <1>11, <1>a, <1>b, <1>c, Zenon DEF vars, TypeOK
  <1> QED
    BY <1>1, <1>2, <1>3, <1>4, <1>5, <1>6, <1>7, <1>8, <1>9, <1>10, <1>11, Zenon DEF Next

\* The chain watcher keeps its types: a settled row always has a block anchor
\* and a payment, a key in hand is always one that is anchored.
THEOREM TypeCorrect == Spec => []TypeOK
  BY InitType, TypeStep, PTL DEF Spec


(***************************************************************************)
(* Depth.  DeepEnough speaks of rows; to be preserved it needs the depth   *)
(* to hold wherever a block travels on its way to a row: in the tracked    *)
(* map, in the statuses of a pass, and in the rows the re-scan has read.   *)
(***************************************************************************)
\* t is in b, and b had d confirmations when one of H was the head.
Anchored(H, t, b, d) ==
    t \in Includes[b] /\ \E h \in H : b \in Branch[h] /\ Confirmations(h, b) >= d

DeepEntry(H, t, e) ==
    /\ e.phase = "mined" => t \in Includes[e.block]
    /\ e.phase = "confirmed" => Anchored(H, t, e.block, Depth)

DeepStatus(H, s) ==
    /\ s.phase = "confirmed" => Anchored(H, s.tx, s.block, Depth)
    /\ s.phase = "finalized" => Anchored(H, s.tx, s.block, FinalityDepth)

DeepRow(H, t, row) ==
    /\ row.status = "settled" => Anchored(H, t, row.block, Depth)
    /\ row.status = "finalized" => \E b \in Block : Anchored(H, t, b, FinalityDepth)

DeepEntries == \A t \in Tx : DeepEntry(heads, t, entry[t])
DeepEmitted == \A i \in 1..Len(emitted) : DeepStatus(heads, emitted[i])
DeepRows == \A t \in Tx : DeepRow(heads, t, rows[t])
DeepListed ==
    \A row \in listed : row.status = "settled" => Anchored(heads, row.tx, row.block, Depth)

\* The head a pass works with is never ahead of the chain's.
HeadBehind == tip \in heads /\ head <= Number[tip]

DeepInv == HeadBehind /\ DeepEntries /\ DeepEmitted /\ DeepRows /\ DeepListed

\* What was buried stays recorded as buried.
LEMMA DeepMonotone ==
  ASSUME NEW H, NEW G, H \subseteq G
  PROVE  /\ \A t, e : DeepEntry(H, t, e) => DeepEntry(G, t, e)
         /\ \A s : DeepStatus(H, s) => DeepStatus(G, s)
         /\ \A t, row : DeepRow(H, t, row) => DeepRow(G, t, row)
         /\ \A t, b, d : Anchored(H, t, b, d) => Anchored(G, t, b, d)
  <1>1. \A t, b, d : Anchored(H, t, b, d) => Anchored(G, t, b, d)
    BY Zenon DEF Anchored
  <1> QED
    BY <1>1, Zenon DEF DeepEntry, DeepStatus, DeepRow

\* The depth computed from the head of the pass is one the block really has:
\* the chain only grew since that head was read.
LEMMA ComputedDepth ==
  ASSUME ChainTypeOK, WatcherTypeOK, HeadBehind, NEW t \in Tx, NEW b \in Branch[tip],
         t \in Includes[b]
  PROVE  /\ \A d \in Nat \ {0} : confirmations(b) >= d => Anchored(heads, t, b, d)
         /\ Anchored(heads, t, b, 1)
  <1>1. b \in Block /\ Number[b] \in Nat /\ Number[tip] \in Nat /\ head \in Nat
    BY ChainAssumption, Zenon DEF ChainTypeOK, WatcherTypeOK
  <1>2. Number[b] <= Number[tip]
    BY ChainAssumption, Zenon DEF ChainTypeOK
  <1>3. tip \in heads /\ head <= Number[tip]
    BY Zenon DEF HeadBehind
  <1>4. ASSUME NEW d \in Nat \ {0}, Number[tip] - Number[b] + 1 >= d
        PROVE  Anchored(heads, t, b, d)
    BY <1>3, <1>4, Zenon DEF Anchored, Confirmations
  <1>5. ASSUME NEW d \in Nat \ {0}, confirmations(b) >= d
        PROVE  Number[tip] - Number[b] + 1 >= d
    BY <1>1, <1>3, <1>5 DEF confirmations
  <1> QED
    BY <1>1, <1>2, <1>4, <1>5

\* Appending one deep status keeps the statuses of the pass deep.
LEMMA DeepAppend ==
  ASSUME WatcherTypeOK, DeepEmitted, UNCHANGED heads, NEW s \in StatusType, DeepStatus(heads, s),
         emitted' = emitted \/ emitted' = Append(emitted, s)
  PROVE  DeepEmitted'
  <1>1. CASE emitted' = emitted
    BY <1>1, Zenon DEF DeepEmitted
  <1>2. CASE emitted' = Append(emitted, s)
    <2>1. emitted \in Seq(StatusType)
      BY Zenon DEF WatcherTypeOK
    <2>2. ASSUME NEW i \in 1..Len(emitted')
          PROVE  DeepStatus(heads, emitted'[i])
      <3>1. emitted'[i] = s \/ (i \in 1..Len(emitted) /\ emitted'[i] = emitted[i])
        BY <1>2, <2>1, AppendSeq
      <3> QED
        BY <3>1, Zenon DEF DeepEmitted
    <2> QED
      BY <2>2, Zenon DEF DeepEmitted
  <1> QED
    BY <1>1, <1>2, Zenon

\* An observation that moves t to b with a depth b really has.
LEMMA AdvanceDeep ==
  ASSUME WatcherTypeOK, DeepEntries, DeepEmitted, UNCHANGED heads,
         NEW t \in Tx, NEW b \in Block, NEW depth \in Nat, t \in Includes[b],
         depth >= Depth => Anchored(heads, t, b, Depth), Advance(t, b, depth)
  PROVE  DeepEntries' /\ DeepEmitted'
  <1> DEFINE ph == entry'[t].phase
  <1>1. /\ ph = IF depth >= Depth THEN "confirmed" ELSE "mined"
        /\ entry'[t].block = b
        /\ \A u \in Tx \ {t} : entry'[u] = entry[u]
        /\ emitted' = emitted \/ emitted' = Append(emitted, Status(t, ph, b))
    BY AdvanceType, Zenon
  <1>2. DeepEntry(heads, t, entry'[t])
    BY <1>1, Zenon DEF DeepEntry
  <1>3. DeepEntries'
    BY <1>1, <1>2, Zenon DEF DeepEntries
  <1>4. Status(t, ph, b) \in StatusType /\ DeepStatus(heads, Status(t, ph, b))
    BY <1>1, Zenon DEF Status, StatusType, StatusPhase, DeepStatus
  <1>5. DeepEmitted'
    BY <1>1, <1>4, DeepAppend, Zenon
  <1> QED
    BY <1>3, <1>5, Zenon

\* reverse surfaces Reorged, which asks for no depth, and drops the anchor.
LEMMA ReverseEntryDeep ==
  ASSUME WatcherTypeOK, DeepEntries, DeepEmitted, UNCHANGED heads,
         NEW t \in Tx, entry[t].block \in Block, ReverseEntry(t)
  PROVE  DeepEntries' /\ DeepEmitted'
  <1> DEFINE s == Status(t, "reorged", entry[t].block)
  <1>1. /\ entry'[t].phase = "pending"
        /\ \A u \in Tx \ {t} : entry'[u] = entry[u]
        /\ emitted' = emitted \/ emitted' = Append(emitted, s)
    BY ReverseEntryType, Zenon
  <1>2. DeepEntry(heads, t, entry'[t])
    BY <1>1, Zenon DEF DeepEntry
  <1>3. s \in StatusType /\ DeepStatus(heads, s)
    BY Zenon DEF Status, StatusType, StatusPhase, DeepStatus
  <1> HIDE DEF s
  <1>4. DeepEmitted'
    BY <1>1, <1>3, DeepAppend, Zenon
  <1> QED
    BY <1>1, <1>2, <1>4, Zenon DEF DeepEntries

\* Every read of a pass keeps the depth of what the watcher holds.
LEMMA PollDeep ==
  ASSUME ChainTypeOK, WatcherTypeOK, HeadBehind, DeepEntries, DeepEmitted,
         UNCHANGED chainVars, Poll
  PROVE  HeadBehind' /\ DeepEntries' /\ DeepEmitted'
  <1>0. UNCHANGED <<tip, heads>>
    BY Zenon DEF chainVars
  <1>a. ASSUME UNCHANGED <<entry, emitted>>
        PROVE  DeepEntries' /\ DeepEmitted'
    BY <1>0, <1>a, Zenon DEF DeepEntries, DeepEmitted
  <1>b. ASSUME UNCHANGED head
        PROVE  HeadBehind'
    BY <1>0, <1>b, Zenon DEF HeadBehind
  <1>1. CASE StartPass
    <2>1. HeadBehind'
      BY <1>0, <1>1, ChainAssumption, Zenon DEF StartPass, HeadNumber, HeadBehind, ChainTypeOK
    <2> QED
      BY <1>1, <1>a, <2>1, Zenon DEF StartPass
  <1>2. ASSUME NEW t \in Tx, PollPending(t)
        PROVE  HeadBehind' /\ DeepEntries' /\ DeepEmitted'
    <2>1. ASSUME NEW b \in ReceiptBlocks(t), NEW d, 
                 d = IF confirmations(b) = 0 THEN 1 ELSE confirmations(b), Advance(t, b, d)
          PROVE  DeepEntries' /\ DeepEmitted'
      <3>1. b \in Branch[tip] /\ b \in Block /\ t \in Includes[b] /\ d \in Nat
        BY <2>1, NodeType, Zenon DEF ReceiptBlocks
      <3>2. confirmations(b) \in Nat
        BY <3>1, NodeType, Zenon
      <3>3. d >= Depth => Anchored(heads, t, b, Depth)
        <4>1. CASE d = confirmations(b)
          BY <3>1, <4>1, ComputedDepth, DepthAssumption, Zenon
        <4>2. CASE d = 1
          <5>1. Anchored(heads, t, b, 1)
            BY <3>1, ComputedDepth, Zenon
          <5>2. d >= Depth => Depth = 1
            BY <4>2, DepthAssumption
          <5> QED
            BY <5>1, <5>2, Zenon
        <4> QED
          BY <2>1, <4>1, <4>2, Zenon
      <3> QED
        BY <1>0, <2>1, <3>1, <3>3, AdvanceDeep, Zenon
    <2> QED
      BY <1>2, <1>a, <1>b, <2>1, Zenon DEF PollPending
  <1>3. ASSUME NEW t \in Tx, PollReceipt(t)
        PROVE  HeadBehind' /\ DeepEntries' /\ DeepEmitted'
    <2>1. entry[t].block \in Block
      BY <1>3, Zenon DEF PollReceipt, WatcherTypeOK
    <2>2. ASSUME ReverseEntry(t) PROVE DeepEntries' /\ DeepEmitted'
      BY <1>0, <2>1, <2>2, ReverseEntryDeep, Zenon
    <2> QED
      BY <1>3, <1>a, <1>b, <2>2, Zenon DEF PollReceipt
  <1>4. CASE PollHeader
    <2> DEFINE b == entry[cur].block
    <2>1. cur \in Tx /\ b \in Block /\ cur \in Includes[b] /\ confirmations(b) \in Nat
      <3>1. cur \in Tx /\ b \in Block /\ entry[cur].phase \in {"mined", "confirmed"}
        BY <1>4, Zenon DEF PollHeader, WatcherTypeOK
      <3>2. cur \in Includes[b]
        BY <3>1, Zenon DEF DeepEntries, DeepEntry, Anchored
      <3> QED
        BY <3>1, <3>2, NodeType, Zenon
    <2>2. ASSUME ReverseEntry(cur) PROVE DeepEntries' /\ DeepEmitted'
      BY <1>0, <2>1, <2>2, ReverseEntryDeep, Zenon
    <2>3. ASSUME Canonical(b), Advance(cur, b, confirmations(b))
          PROVE  DeepEntries' /\ DeepEmitted'
      <3>1. confirmations(b) >= Depth => Anchored(heads, cur, b, Depth)
        BY <2>1, <2>3, ComputedDepth, DepthAssumption, Zenon DEF Canonical
      <3> QED
        BY <1>0, <2>1, <2>3, <3>1, AdvanceDeep, Zenon
    <2>4. ASSUME Canonical(b), confirmations(b) >= FinalityDepth, FinalizeEntry(cur)
          PROVE  DeepEntries' /\ DeepEmitted'
      <3> DEFINE s == Status(cur, "finalized", b)
      <3>1. Anchored(heads, cur, b, FinalityDepth)
        BY <2>1, <2>4, ComputedDepth, DepthAssumption DEF Canonical
      <3>2. s \in StatusType /\ DeepStatus(heads, s)
        BY <2>1, <3>1, Zenon DEF Status, StatusType, StatusPhase, DeepStatus
      <3>3. emitted' = emitted \/ emitted' = Append(emitted, s)
        BY <2>4, Zenon DEF FinalizeEntry, Surfaced
      <3> HIDE DEF s
      <3>4. DeepEmitted'
        BY <1>0, <3>2, <3>3, DeepAppend, Zenon
      <3>5. DeepEntry(heads, cur, Untracked)
        BY Zenon DEF DeepEntry, Untracked, Entry
      <3>6. DeepEntries'
        BY <1>0, <2>1, <2>4, <3>5, Zenon DEF DeepEntries, FinalizeEntry, WatcherTypeOK
      <3> QED
        BY <3>4, <3>6, Zenon
    <2> QED
      BY <1>4, <1>a, <1>b, <2>2, <2>3, <2>4, Zenon DEF PollHeader
  <1>5. CASE PollSkip
    BY <1>5, <1>a, <1>b, Zenon DEF PollSkip
  <1> QED
    BY <1>1, <1>2, <1>3, <1>4, <1>5, Zenon DEF Poll

\* A committed sink transaction writes the block of a deep status.
LEMMA OnStatusDeep ==
  ASSUME SettlementTypeOK, DeepRows, UNCHANGED heads,
         NEW s \in StatusType, DeepStatus(heads, s), OnStatus(s)
  PROVE  DeepRows'
  <1>0. s.tx \in Tx /\ s.block \in Block /\ rows \in [Tx -> RowType]
    BY Zenon DEF StatusType, SettlementTypeOK
  <1>1. CASE UNCHANGED rows
    BY <1>1, Zenon DEF DeepRows
  <1>2. ASSUME NEW row, rows' = [rows EXCEPT ![s.tx] = row], DeepRow(heads, s.tx, row)
        PROVE  DeepRows'
    BY <1>0, <1>2, Zenon DEF DeepRows
  <1>3. CASE s.phase = "confirmed" /\ rows' = [rows EXCEPT ![s.tx] = Row("settled", @.payment, s.block)]
    <2>1. DeepRow(heads, s.tx, Row("settled", rows[s.tx].payment, s.block))
      BY <1>3, Zenon DEF DeepRow, DeepStatus, Row
    <2> QED
      BY <1>2, <1>3, <2>1, Zenon
  <1>4. CASE rows' = [rows EXCEPT ![s.tx] = Row("reorged", @.payment, NoBlock)]
    <2>1. DeepRow(heads, s.tx, Row("reorged", rows[s.tx].payment, NoBlock))
      BY Zenon DEF DeepRow, Row
    <2> QED
      BY <1>2, <1>4, <2>1, Zenon
  <1>5. CASE s.phase = "finalized" /\ rows' = [rows EXCEPT ![s.tx] = Row("finalized", @.payment, @.block)]
    <2>1. DeepRow(heads, s.tx, Row("finalized", rows[s.tx].payment, rows[s.tx].block))
      BY <1>0, <1>5, Zenon DEF DeepRow, DeepStatus, Row
    <2> QED
      BY <1>2, <1>5, <2>1, Zenon
  <1> QED
    BY <1>1, <1>3, <1>4, <1>5, Zenon
    DEF OnStatus, Settle, MarkSettlementSettled, Reverse, Finalize, settlementVars

\* Handing the next status to the sink keeps what is known of the others.
LEMMA DispatchDeep ==
  ASSUME WatcherTypeOK, DeepEntries, DeepEmitted, UNCHANGED heads, Dispatch,
         RollBack(NextStatus) \/ UNCHANGED entry
  PROVE  DeepEntries' /\ DeepEmitted' /\ DeepStatus(heads, NextStatus)
  <1>1. /\ emitted \in Seq(StatusType) /\ emitted # << >> /\ emitted' = Tail(emitted)
        /\ entry \in [Tx -> EntryType]
    BY Zenon DEF Dispatch, WatcherTypeOK
  <1>2. DeepStatus(heads, NextStatus)
    BY <1>1, HeadTailSeq, Zenon DEF NextStatus, DeepEmitted
  <1>3. ASSUME NEW i \in 1..Len(emitted')
        PROVE  DeepStatus(heads, emitted'[i])
    <2>1. i + 1 \in 1..Len(emitted) /\ emitted'[i] = emitted[i + 1]
      BY <1>1, HeadTailSeq, Zenon
    <2> QED
      BY <2>1, Zenon DEF DeepEmitted
  <1>4. DeepEntries'
    <2>1. CASE UNCHANGED entry
      BY <2>1, Zenon DEF DeepEntries
    <2>2. ASSUME NEW t \in Tx, entry[t].phase = "confirmed",
                 entry' = [entry EXCEPT ![t] = Entry("mined", @.block, "pending", 0)]
          PROVE  DeepEntries'
      <3>1. t \in Includes[entry[t].block]
        BY <2>2, Zenon DEF DeepEntries, DeepEntry, Anchored
      <3>2. DeepEntry(heads, t, Entry("mined", entry[t].block, "pending", 0))
        BY <3>1, Zenon DEF DeepEntry, Entry
      <3> QED
        BY <1>1, <2>2, <3>2, Zenon DEF DeepEntries
    <2>3. NextStatus.tx \in Tx
      BY DispatchType, Zenon DEF StatusType
    <2> QED
      BY <2>1, <2>2, <2>3, Zenon DEF RollBack
  <1> QED
    BY <1>2, <1>3, <1>4, Zenon DEF DeepEmitted

\* Nothing is anchored or settled at the start.
LEMMA InitDeep == Init => DeepInv
  <1> SUFFICES ASSUME Init PROVE DeepInv
    BY Zenon
  <1>1. HeadBehind
    BY ChainAssumption DEF Init, ChainInit, WatcherInit, HeadBehind
  <1>2. \A H, t : DeepEntry(H, t, Untracked) /\ DeepRow(H, t, Row("none", NoPayment, NoBlock))
    BY Zenon DEF DeepEntry, DeepRow, Untracked, Entry, Row
  <1>3. DeepEntries /\ DeepRows
    BY <1>2, Zenon DEF Init, WatcherInit, SettlementInit, DeepEntries, DeepRows
  <1> QED
    BY <1>1, <1>3 DEF Init, WatcherInit, DeepInv, DeepEmitted, DeepListed

\* Every step keeps the depth invariant, one case per action of Next.
LEMMA DeepStep == TypeOK /\ DeepInv /\ [Next]_vars => DeepInv'
  <1> SUFFICES ASSUME TypeOK, DeepInv, [Next]_vars PROVE DeepInv'
    BY Zenon
  <1>0. /\ ChainTypeOK /\ SettlementTypeOK /\ WatcherTypeOK /\ listed \subseteq ListedType
        /\ HeadBehind /\ DeepEntries /\ DeepEmitted /\ DeepRows /\ DeepListed
    BY Zenon DEF TypeOK, DeepInv
  <1>a. ASSUME UNCHANGED chainVars
        PROVE  /\ UNCHANGED heads
               /\ UNCHANGED head \/ head' = 0 => HeadBehind'
               /\ UNCHANGED <<entry, emitted>> => DeepEntries' /\ DeepEmitted'
               /\ UNCHANGED settlementVars => DeepRows'
               /\ listed' \subseteq listed => DeepListed'
    <2>1. Number[tip] \in Nat
      BY <1>0, ChainAssumption, Zenon DEF ChainTypeOK
    <2>2. UNCHANGED <<heads, tip>>
      BY <1>a, Zenon DEF chainVars
    <2>3. UNCHANGED head \/ head' = 0 => HeadBehind'
      BY <1>0, <2>1, <2>2 DEF HeadBehind
    <2>4. UNCHANGED <<entry, emitted>> => DeepEntries' /\ DeepEmitted'
      BY <1>0, <2>2, Zenon DEF DeepEntries, DeepEmitted
    <2>5. UNCHANGED settlementVars => DeepRows'
      BY <1>0, <2>2, Zenon DEF settlementVars, DeepRows
    <2>6. listed' \subseteq listed => DeepListed'
      BY <1>0, <2>2, Zenon DEF DeepListed
    <2> QED
      BY <2>2, <2>3, <2>4, <2>5, <2>6, Zenon
  <1>1. CASE ChainStep
    <2>1. /\ heads \subseteq heads' /\ tip' \in heads' /\ Number[tip'] >= Number[tip] /\ tip' \in Block
          /\ UNCHANGED <<entry, emitted, head, rows, listed>>
      BY <1>1, Zenon DEF ChainStep, MoveTip, watcherVars, settlementVars
    <2>2. HeadBehind'
      BY <1>0, <2>1, ChainAssumption DEF HeadBehind, ChainTypeOK, WatcherTypeOK
    <2>3. DeepEntries' /\ DeepEmitted' /\ DeepRows' /\ DeepListed'
      BY <1>0, <2>1, DeepMonotone, Zenon DEF DeepEntries, DeepEmitted, DeepRows, DeepListed
    <2> QED
      BY <2>2, <2>3, Zenon DEF DeepInv
  <1>2. CASE LinkStep
    <2>1. PICK t \in Tx, p \in Payment : Link(t, p)
      BY <1>2, Zenon DEF LinkStep
    <2>2. DeepRow(heads, t, Row("pending", p, NoBlock))
      BY Zenon DEF DeepRow, Row
    <2>3. DeepRows'
      BY <1>0, <1>2, <2>1, <2>2, Zenon DEF Link, LinkStep, chainVars, DeepRows, SettlementTypeOK
    <2> QED
      BY <1>2, <1>a, <2>3, Zenon DEF LinkStep, watcherVars, DeepInv
  <1>3. CASE PaymentStep
    <2>1. UNCHANGED rows
      BY <1>3, Zenon DEF PaymentStep, Pay
    <2>2. DeepRows'
      BY <1>0, <1>3, <2>1, Zenon DEF PaymentStep, chainVars, DeepRows
    <2> QED
      BY <1>3, <1>a, <2>2, Zenon DEF PaymentStep, watcherVars, DeepInv
  <1>4. CASE PollStep
    BY <1>0, <1>4, <1>a, PollDeep, Zenon DEF PollStep, DeepInv
  <1>5. CASE Deliver \/ DeliverRefused \/ DeliverFault
    <2>1. /\ Dispatch /\ UNCHANGED <<chainVars, listed>> /\ head' = 0
          /\ RollBack(NextStatus) \/ UNCHANGED entry
          /\ UNCHANGED settlementVars \/ OnStatus(NextStatus)
      BY <1>5, Zenon DEF Deliver, DeliverRefused, DeliverFault, Dispatch
    <2>2. NextStatus \in StatusType
      BY <1>0, <2>1, DispatchType, Zenon
    <2>3. DeepEntries' /\ DeepEmitted' /\ DeepStatus(heads, NextStatus)
      BY <1>0, <1>a, <2>1, DispatchDeep, Zenon
    <2>4. DeepRows'
      BY <1>0, <1>a, <2>1, <2>2, <2>3, OnStatusDeep, Zenon
    <2> QED
      BY <1>a, <2>1, <2>3, <2>4, Zenon DEF DeepInv
  <1>6. CASE RescanList
    <2>1. ASSUME NEW row \in PendingRows, row.status = "settled"
          PROVE  Anchored(heads, row.tx, row.block, Depth)
      <3>1. row.tx \in Tx /\ row.status = rows[row.tx].status /\ row.block = rows[row.tx].block
        BY <1>0, PendingRowsType, Zenon DEF ListedType
      <3> QED
        BY <1>0, <2>1, <3>1, Zenon DEF DeepRows, DeepRow
    <2>2. DeepListed'
      BY <1>6, <1>a, <2>1, Zenon DEF RescanList, DeepListed
    <2> QED
      BY <1>6, <1>a, <2>2, Zenon DEF RescanList, watcherVars, DeepInv
  <1>7. ASSUME NEW row \in listed, RescanSeed(row) PROVE DeepInv'
    <2>1. row \in ListedType /\ row.tx \in Tx
      BY <1>0, Zenon DEF ListedType
    <2>2. DeepEntry(heads, row.tx, Seed(row))
      <3>1. row.status = "settled" => Anchored(heads, row.tx, row.block, Depth)
        BY <1>0, <1>7, Zenon DEF DeepListed
      <3> QED
        BY <2>1, <3>1, SeedType, Zenon DEF DeepEntry
    <2>3. DeepEntries'
      BY <1>0, <1>7, <1>a, <2>1, <2>2, Zenon DEF RescanSeed, DeepEntries, WatcherTypeOK
    <2>4. DeepEmitted'
      BY <1>0, <1>7, <1>a, Zenon DEF RescanSeed, DeepEmitted
    <2> QED
      BY <1>7, <1>a, <2>3, <2>4, Zenon DEF RescanSeed, DeepInv
  <1>8. CASE Restart
    <2>1. ASSUME NEW t \in Tx PROVE DeepEntry(heads, t, entry'[t])
      <3>1. /\ entry'[t].phase \in {"untracked", "pending", "confirmed"}
            /\ entry'[t].phase = "confirmed" =>
                   rows[t].status = "settled" /\ entry'[t].block = rows[t].block
        BY <1>0, <1>8, RestartEntries, Zenon
      <3>2. DeepRow(heads, t, rows[t])
        BY <1>0, Zenon DEF DeepRows
      <3> QED
        BY <3>1, <3>2, Zenon DEF DeepEntry, DeepRow
    <2>2. DeepEntries'
      <3>1. UNCHANGED heads
        BY <1>8, <1>a, Zenon DEF Restart
      <3> QED
        BY <2>1, <3>1, Zenon DEF DeepEntries
    <2>3. DeepEmitted'
      BY <1>8 DEF Restart, DeepEmitted
    <2> QED
      BY <1>8, <1>a, <2>2, <2>3, Zenon DEF Restart, DeepInv
  <1>9. CASE UNCHANGED vars
    BY <1>9, <1>a, Zenon DEF vars, watcherVars, DeepInv
  <1> QED
    BY <1>1, <1>2, <1>3, <1>4, <1>5, <1>6, <1>7, <1>8, <1>9, Zenon DEF Next

\* Whatever the block tree, the depths, the reorganisations, faults and
\* restarts, poll's stale head never lets a row be settled at a block that was
\* not Depth deep, or be finalised without its transaction being FinalityDepth
\* deep on some canonical chain.
THEOREM SettlesDeepEnough == Spec => []DeepEnough
  <1>1. TypeOK /\ DeepInv => DeepEnough
    BY Zenon DEF DeepInv, DeepRows, DeepRow, Anchored, DeepEnough, Buried
  <1> QED
    BY <1>1, InitType, TypeStep, InitDeep, DeepStep, PTL DEF Spec

=============================================================================
