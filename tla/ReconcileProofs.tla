--------------------------- MODULE ReconcileProofs ---------------------------
(***************************************************************************)
(* What a reconciliation run guarantees, for any rows, payments, accounts, *)
(* assets, manifests and page size: the invariant ScanInv of the scan of   *)
(* the settlements, the invariant ReportInv of what the report is built    *)
(* from, and their consequences.                                           *)
(***************************************************************************)
EXTENDS Reconcile, Sums, TLAPS

-----------------------------------------------------------------------------
(* The order of the scan *)

Key == Int \X Int

\* The keys of a scan are in a strict and total order.
LEMMA PrecedesOrder ==
  ASSUME NEW k \in Key, NEW l \in Key
  PROVE  /\ ~Precedes(k, k)
         /\ Precedes(k, l) => ~Precedes(l, k)
         /\ Precedes(k, l) \/ Precedes(l, k) \/ k = l
         /\ \A m \in Key : Precedes(k, l) /\ Precedes(l, m) => Precedes(k, m)
  <1>1. \A m \in Key : m[1] \in Int /\ m[2] \in Int /\ m = <<m[1], m[2]>>
    BY DEF Key
  <1> QED
    BY <1>1 DEF Precedes

Dated == created \in [Tx -> Int]

\* A row has a key of its own.
LEMMA SortKeys ==
  ASSUME Dated, NEW t \in Tx, NEW u \in Tx
  PROVE  SortKey(t) \in Key /\ (SortKey(t) = SortKey(u) => t = u)
  <1>1. created[t] \in Int /\ IdOf[t] \in Int /\ (IdOf[t] = IdOf[u] => t = u)
    BY ReconcileAssumption, Zenon DEF Dated
  <1> QED
    BY <1>1, Zenon DEF SortKey, Key

\* t is read before u.
Sooner(t, u) == Precedes(SortKey(t), SortKey(u))

\* So the rows are in a strict and total order.
LEMMA SoonerOrder ==
  ASSUME Dated, NEW t \in Tx, NEW u \in Tx
  PROVE  /\ ~Sooner(t, t)
         /\ Sooner(t, u) => ~Sooner(u, t)
         /\ Sooner(t, u) \/ Sooner(u, t) \/ t = u
         /\ \A v \in Tx : Sooner(t, u) /\ Sooner(u, v) => Sooner(t, v)
  <1>1. /\ SortKey(t) \in Key /\ SortKey(u) \in Key
        /\ SortKey(t) = SortKey(u) => t = u
        /\ \A v \in Tx : SortKey(v) \in Key
    BY SortKeys, Zenon
  <1> QED
    BY <1>1, PrecedesOrder, Zenon DEF Sooner

Earlier(t, S) == {u \in S : Sooner(u, t)}

Later(t, S) == {u \in S : Sooner(t, u)}

LEMMA RowsFinite ==
  ASSUME NEW S, S \subseteq Tx
  PROVE  IsFiniteSet(S) /\ Cardinality(S) \in Nat
  BY SettlementAssumption, FS_Subset, FS_CardinalityType, Zenon

\* A later row has more rows before it and fewer after it.
LEMMA SoonerCounts ==
  ASSUME Dated, NEW S, S \subseteq Tx, NEW t \in S, NEW u \in S, Sooner(t, u)
  PROVE  /\ Cardinality(Earlier(t, S)) < Cardinality(Earlier(u, S))
         /\ Cardinality(Later(u, S)) < Cardinality(Later(t, S))
  <1>0. \A v \in Tx : Earlier(v, S) \subseteq Tx /\ Later(v, S) \subseteq Tx
    BY Zenon DEF Earlier, Later
  <1>1. /\ Earlier(t, S) \subseteq Earlier(u, S)
        /\ t \in Earlier(u, S) /\ t \notin Earlier(t, S)
    BY SoonerOrder, Zenon DEF Earlier
  <1>2. /\ Later(u, S) \subseteq Later(t, S)
        /\ u \in Later(t, S) /\ u \notin Later(u, S)
    BY SoonerOrder, Zenon DEF Later
  <1>3. IsFiniteSet(Earlier(u, S)) /\ IsFiniteSet(Later(t, S))
    BY <1>0, RowsFinite, Zenon
  <1>4. Earlier(t, S) # Earlier(u, S) /\ Later(u, S) # Later(t, S)
    BY <1>1, <1>2, Zenon
  <1> QED
    BY <1>1, <1>2, <1>3, <1>4, FS_Subset, FS_CardinalityType

\* A nonempty set of rows has a first and a last one.
LEMMA EndsExist ==
  ASSUME Dated, NEW S, S \subseteq Tx, S # {}
  PROVE  /\ \E t \in S : \A u \in S : ~Sooner(u, t)
         /\ \E t \in S : \A u \in S : ~Sooner(t, u)
  <1> DEFINE E == {Cardinality(Earlier(t, S)) : t \in S}
             L == {Cardinality(Later(t, S)) : t \in S}
  <1>0. \A t \in S : Cardinality(Earlier(t, S)) \in Nat /\ Cardinality(Later(t, S)) \in Nat
    <2>1. \A t \in S : Earlier(t, S) \subseteq Tx /\ Later(t, S) \subseteq Tx
      BY Zenon DEF Earlier, Later
    <2> QED
      BY <2>1, RowsFinite, Zenon
  <1>1. E \subseteq Nat /\ E # {} /\ L \subseteq Nat /\ L # {}
    BY <1>0, Zenon
  <1> HIDE DEF E, L
  <1>2. PICK e \in E, l \in L : (\A m \in E : e <= m) /\ (\A m \in L : l <= m)
    BY <1>1, LeastNat, Zenon
  <1>3. PICK t \in S, u \in S : e = Cardinality(Earlier(t, S)) /\ l = Cardinality(Later(u, S))
    BY Zenon DEF E, L
  <1>4. ASSUME NEW v \in S PROVE ~Sooner(v, t) /\ ~Sooner(u, v)
    <2>1. e <= Cardinality(Earlier(v, S)) /\ l <= Cardinality(Later(v, S))
      BY <1>2, Zenon DEF E, L
    <2>2. /\ Sooner(v, t) => Cardinality(Earlier(v, S)) < Cardinality(Earlier(t, S))
          /\ Sooner(u, v) => Cardinality(Later(v, S)) < Cardinality(Later(u, S))
      BY SoonerCounts, Zenon
    <2> QED
      BY <1>0, <1>3, <2>1, <2>2
  <1> QED
    BY <1>4, Zenon

\* A page is the first rows of what is listed: every row outside is after
\* every row inside, and there is none when the page is short.
LEMMA PageIsPrefix ==
  ASSUME Dated, NEW S, S \subseteq Tx
  PROVE  /\ Page(S) \subseteq S
         /\ \A t \in Page(S), u \in S \ Page(S) : Sooner(t, u)
         /\ Cardinality(Page(S)) # PageSize => Page(S) = S
  <1> DEFINE P == Page(S)
  <1>0. /\ PageSize \in Nat /\ PageSize > 0
        /\ \A t \in Tx : Cardinality(Earlier(t, S)) \in Nat
    <2>1. \A t \in Tx : Earlier(t, S) \subseteq Tx
      BY Zenon DEF Earlier
    <2>2. \A t \in Tx : Cardinality(Earlier(t, S)) \in Nat
      BY <2>1, RowsFinite, Zenon
    <2> QED
      BY <2>2, ReconcileAssumption
  <1>1. P = {t \in S : Cardinality(Earlier(t, S)) < PageSize}
    BY Zenon DEF Page, Earlier, Sooner
  <1> HIDE DEF P
  <1>2. P \subseteq S
    BY <1>1, Zenon
  <1>3. ASSUME NEW t \in P, NEW u \in S, u \notin P PROVE Sooner(t, u)
    <2>1. t \in S /\ t # u /\ t \in Tx /\ u \in Tx
      BY <1>2, <1>3, Zenon
    <2>2. Cardinality(Earlier(t, S)) < PageSize /\ ~(Cardinality(Earlier(u, S)) < PageSize)
      BY <1>1, <1>3, Zenon
    <2>3. ~Sooner(u, t)
      <3>1. Sooner(u, t) => Cardinality(Earlier(u, S)) < Cardinality(Earlier(t, S))
        BY <2>1, SoonerCounts, Zenon
      <3> QED
        BY <1>0, <2>1, <2>2, <3>1
    <2> QED
      BY <2>1, <2>3, SoonerOrder, Zenon
  <1>4. ASSUME P # S PROVE Cardinality(P) = PageSize
    <2> DEFINE R == S \ P
    <2>1. PICK u \in R : \A v \in R : ~Sooner(v, u)
      <3>1. R \subseteq Tx /\ R # {}
        BY <1>2, <1>4, Zenon
      <3> HIDE DEF R
      <3> QED
        BY <3>1, EndsExist, Zenon
    <2>2. Earlier(u, S) = P
      BY <1>2, <1>3, <2>1, Zenon DEF Earlier
    <2>3. ~(Cardinality(P) < PageSize) /\ u \in Tx
      BY <1>1, <2>1, <2>2, Zenon
    <2>4. Cardinality(P) \in Nat /\ P \subseteq Tx
      BY <1>2, RowsFinite, Zenon
    <2>5. PICK t \in P : \A v \in P : ~Sooner(t, v)
      <3>1. P # {}
        BY <1>0, <2>3, FS_EmptySet
      <3> QED
        BY <2>4, <3>1, EndsExist, Zenon
    <2>6. Earlier(t, S) = P \ {t}
      <3>1. ASSUME NEW v \in P, v # t PROVE Sooner(v, t)
        BY <2>4, <2>5, <3>1, SoonerOrder, Zenon
      <3>2. ASSUME NEW v \in S, Sooner(v, t) PROVE v \in P /\ v # t
        <4>1. v \in Tx /\ t \in Tx
          BY <2>4, Zenon
        <4> QED
          BY <1>3, <3>2, <4>1, SoonerOrder, Zenon
      <3> QED
        BY <1>2, <3>1, <3>2, Zenon DEF Earlier
    <2>7. Cardinality(P \ {t}) < PageSize
      BY <1>1, <2>6, Zenon
    <2>8. IsFiniteSet(P) /\ Cardinality(P \ {t}) = Cardinality(P) - 1
      BY <2>4, RowsFinite, FS_RemoveElement
    <2> QED
      BY <1>0, <2>3, <2>4, <2>7, <2>8
  <1> QED
    BY <1>2, <1>3, <1>4, Zenon DEF P

\* The key of the last row of a page.
LastKey(page) ==
    CHOOSE k \in {SortKey(t) : t \in page} : \A t \in page : ~Precedes(k, SortKey(t))

LEMMA LastKeyIs ==
  ASSUME Dated, NEW page, page \subseteq Tx, page # {}
  PROVE  \E t \in page : LastKey(page) = SortKey(t) /\ \A u \in page : ~Sooner(t, u)
  <1>1. PICK t \in page : \A u \in page : ~Sooner(t, u)
    BY EndsExist, Zenon
  <1> DEFINE K == {SortKey(u) : u \in page}
  <1>2. \E k \in K : \A u \in page : ~Precedes(k, SortKey(u))
    BY <1>1, Zenon DEF Sooner
  <1>3. LastKey(page) \in K /\ \A u \in page : ~Precedes(LastKey(page), SortKey(u))
    BY <1>2, Zenon DEF LastKey
  <1> QED
    BY <1>3, Zenon DEF Sooner
-----------------------------------------------------------------------------
(* Types *)

Rows == [status : RowStatus, payment : Payment \cup {NoPayment}, block : Block \cup {NoBlock}]

Types ==
    /\ rows \in [Tx -> Rows]
    /\ \A t \in Tx : rows[t].status # "none" => rows[t].payment \in Payment
    /\ created \in [Tx -> Int]
    /\ balance \in [Account -> Nat]
    /\ holdings \in [Range(Lower) \X Range(Lower) -> Nat]
    /\ registry \in Seq(Entry)
    /\ cursor = NoCursor \/ cursor \in Key
    /\ sums \in [Asset -> [finalized : Int, confirmed : Int]]
    /\ moved \subseteq Tx

LEMMA TypesInit == Init => Types
  <1> SUFFICES ASSUME Init PROVE Types
    OBVIOUS
  <1>1. rows \in [Tx -> Rows] /\ \A t \in Tx : rows[t].status = "none"
    BY DEF Init, SettlementInit, Row, Rows, RowStatus
  <1>2. balance \in [Account -> Nat] /\ holdings \in [Range(Lower) \X Range(Lower) -> Nat]
    BY SettlementAssumption, ReconcileAssumption, Zenon DEF Init, SettlementInit
  <1>3. created \in [Tx -> Int] /\ sums \in [Asset -> [finalized : Int, confirmed : Int]]
    BY DEF Init
  <1>4. registry \in Seq(Entry) /\ cursor = NoCursor /\ moved = {}
    BY DEF Init
  <1> QED
    BY <1>1, <1>2, <1>3, <1>4, Zenon DEF Types

\* A posting that is funded leaves no account below 0.
LEMMA FundedPosting ==
  ASSUME balance \in [Account -> Nat], NEW e, Funded(e),
         NEW x, NEW y, NEW k \in Int, e.lines = Transfer(x, y, k)
  PROVE  ApplyToBalances(e.lines) \in [Account -> Nat]
  <1> DEFINE lines == e.lines
  <1>1. \A z \in DOMAIN lines : lines[z] \in Int
    BY DEF Transfer
  <1>2. \A z \in DOMAIN lines : balance[z] + lines[z] >= 0
    BY Zenon DEF Funded
  <1>3. ApplyToBalances(lines) = [z \in Account |-> IF z \in DOMAIN lines THEN balance[z] + lines[z] ELSE balance[z]]
    BY Zenon DEF ApplyToBalances
  <1> HIDE DEF lines
  <1>4. \A z \in Account : (IF z \in DOMAIN lines THEN balance[z] + lines[z] ELSE balance[z]) \in Nat
    BY <1>1, <1>2
  <1> QED
    BY <1>3, <1>4, Zenon DEF lines

\* What a step of the sink does to a row and to what moved.  The last of them
\* posts for a row that is final, and leaves it.
Settles(t) ==
    /\ rows[t].status \in {"pending", "reorged"}
    /\ \E b \in Block : rows' = [rows EXCEPT ![t] = Row("settled", @.payment, b)]
    /\ moved' = IF Running THEN moved \cup {t} ELSE moved

Reverses(t) ==
    /\ rows[t].status = "settled"
    /\ rows' = [rows EXCEPT ![t] = Row("reorged", @.payment, NoBlock)]
    /\ moved' = IF Running THEN moved \cup {t} ELSE moved

Finalizes(t) ==
    /\ rows[t].status = "settled"
    /\ rows' = [rows EXCEPT ![t] = Row("finalized", @.payment, @.block)]
    /\ UNCHANGED moved

Reposts(t) ==
    /\ rows[t].status = "finalized"
    /\ UNCHANGED <<rows, moved>>

SinkActs(t) == Settles(t) \/ Reverses(t) \/ Finalizes(t) \/ Reposts(t)

\* What moved follows what counts.
LEMMA MovedIs ==
  ASSUME NEW t, moved' = IF Running /\ Counts(t) # Counts(t)' THEN moved \cup {t} ELSE moved
  PROVE  /\ (Counts(t) /\ ~Counts(t)') \/ (~Counts(t) /\ Counts(t)')
               => moved' = IF Running THEN moved \cup {t} ELSE moved
         /\ (Counts(t) /\ Counts(t)') => moved' = moved
  BY DEF Counts

\* Every status delivered is applied, whatever the row's state.
LEMMA SinkSteps ==
  ASSUME Types, NEW t \in Tx, NEW b \in Block, NEW phase \in {"confirmed", "reorged", "finalized"},
         SinkStep([tx |-> t, phase |-> phase, block |-> b])
  PROVE  /\ SinkActs(t) /\ balance' \in [Account -> Nat]
         /\ Followed /\ UNCHANGED <<created, holdings, runVars, shifted>>
  <1> DEFINE s == [tx |-> t, phase |-> phase, block |-> b]
             p == rows[t].payment
  <1>1. /\ s.tx = t /\ s.phase = phase /\ s.block = b
        /\ Followed /\ Delivered(s) /\ OnStatus(s)
        /\ moved' = IF Running /\ Counts(t) # Counts(t)' THEN moved \cup {t} ELSE moved
        /\ UNCHANGED <<created, holdings, runVars, shifted>>
    BY DEF SinkStep, Counts
  <1> HIDE DEF s
  <1>0. /\ (Counts(t) /\ ~Counts(t)') \/ (~Counts(t) /\ Counts(t)')
               => moved' = IF Running THEN moved \cup {t} ELSE moved
        /\ (Counts(t) /\ Counts(t)') => moved' = moved
    BY <1>1, MovedIs, Zenon
  <1>2. /\ rows[t].status \in {"pending", "reorged", "settled", "finalized"}
        /\ phase = "confirmed" => rows[t].status # "settled"
        /\ phase # "confirmed" => rows[t].status = "settled"
    BY <1>1 DEF Delivered
  <1>3. /\ rows \in [Tx -> Rows] /\ balance \in [Account -> Nat]
        /\ p \in Payment /\ Amount[p] \in Int
    <2>1. rows \in [Tx -> Rows] /\ balance \in [Account -> Nat] /\ p \in Payment
      BY <1>2 DEF Types
    <2> QED
      BY <2>1, SettlementAssumption
  <1>4. CASE phase = "confirmed"
    <2>1. PostWithin(SettleEntry(p, b)) /\ MarkSettlementSettled(t, b)
      BY <1>1, <1>2, <1>4 DEF OnStatus, Settle
    <2>2. SettleEntry(p, b).lines = Transfer(DestOf[p], House, Amount[p])
      BY DEF SettleEntry
    <2>3. balance' \in [Account -> Nat]
      <3>1. Funded(SettleEntry(p, b)) /\ balance' = ApplyToBalances(SettleEntry(p, b).lines)
        BY <2>1, Zenon DEF PostWithin, Accepts
      <3> QED
        BY <1>3, <2>2, <3>1, FundedPosting, Zenon
    <2>4. CASE rows[t].status \in {"pending", "reorged"}
      <3>1. rows' = [rows EXCEPT ![t] = Row("settled", p, b)]
        BY <2>1, <2>4, Zenon DEF MarkSettlementSettled
      <3>2. rows'[t].status = "settled"
        BY <1>3, <3>1 DEF Row
      <3>3. ~Counts(t) /\ Counts(t)'
        BY <2>4, <3>2 DEF Counts
      <3> QED
        BY <1>0, <1>1, <2>3, <2>4, <3>1, <3>3, Zenon DEF SinkActs, Settles
    <2>5. CASE rows[t].status = "finalized"
      <3>1. rows' = rows
        BY <2>1, <2>5 DEF MarkSettlementSettled
      <3>2. Counts(t) /\ Counts(t)'
        BY <2>5, <3>1 DEF Counts
      <3> QED
        BY <1>0, <1>1, <2>3, <2>5, <3>1, <3>2, Zenon DEF SinkActs, Reposts
    <2> QED
      BY <1>2, <1>4, <2>4, <2>5
  <1>5. CASE phase = "reorged"
    <2>0. rows[t].status = "settled"
      BY <1>2, <1>5
    <2>1. /\ PostWithin(ReversalEntry(p, b))
          /\ rows' = [rows EXCEPT ![t] = Row("reorged", p, NoBlock)]
      BY <1>1, <1>5, <2>0 DEF OnStatus, Reverse
    <2>2. ReversalEntry(p, b).lines = Transfer(House, DestOf[p], Amount[p])
      BY DEF ReversalEntry
    <2>3. balance' \in [Account -> Nat]
      <3>1. Funded(ReversalEntry(p, b)) /\ balance' = ApplyToBalances(ReversalEntry(p, b).lines)
        BY <2>1, Zenon DEF PostWithin, Accepts
      <3> QED
        BY <1>3, <2>2, <3>1, FundedPosting, Zenon
    <2>4. rows'[t].status = "reorged"
      BY <1>3, <2>1 DEF Row
    <2>5. Counts(t) /\ ~Counts(t)'
      BY <2>0, <2>4 DEF Counts
    <2> QED
      BY <1>0, <1>1, <2>0, <2>1, <2>3, <2>5, Zenon DEF SinkActs, Reverses
  <1>6. CASE phase = "finalized"
    <2>0. rows[t].status = "settled"
      BY <1>2, <1>6
    <2>1. rows' = [rows EXCEPT ![t] = Row("finalized", p, rows[t].block)] /\ balance' = balance
      BY <1>1, <1>6, <2>0 DEF OnStatus, Finalize, ledgerVars
    <2>2. rows'[t].status = "finalized"
      BY <1>3, <2>1 DEF Row
    <2>3. Counts(t) /\ Counts(t)'
      BY <2>0, <2>2 DEF Counts
    <2> QED
      BY <1>0, <1>1, <1>3, <2>0, <2>1, <2>3, Zenon DEF SinkActs, Finalizes
  <1> QED
    BY <1>4, <1>5, <1>6, Zenon

-----------------------------------------------------------------------------
(* The totals *)

Linked == {t \in Tx : rows[t].status # "none"}

Priced == [t \in Tx |-> Amount[rows[t].payment]]

\* The rows of S that are in asset a.
Part(S, a) == {t \in S : IsIn(t, a)}

LEMMA LinkedRows ==
  ASSUME Types, NEW S, S \subseteq Linked
  PROVE  /\ S \subseteq Tx /\ IsFiniteSet(S) /\ \A t \in S : Priced[t] \in Nat \ {0} /\ Priced[t] \in Int
         /\ \A a : Part(S, a) \subseteq S /\ IsFiniteSet(Part(S, a))
  <1>1. S \subseteq Tx /\ IsFiniteSet(S)
    BY RowsFinite, Zenon DEF Linked
  <1>2. ASSUME NEW t \in S PROVE Priced[t] \in Nat \ {0} /\ Priced[t] \in Int
    <2>1. t \in Tx /\ rows[t].payment \in Payment
      BY Zenon DEF Types, Linked
    <2>2. Priced[t] \in Nat \ {0}
      BY <2>1, SettlementAssumption, Zenon DEF Priced
    <2> QED
      BY <2>2
  <1>3. ASSUME NEW a PROVE Part(S, a) \subseteq S /\ IsFiniteSet(Part(S, a))
    BY <1>1, FS_Subset, Zenon DEF Part
  <1> QED
    BY <1>1, <1>2, <1>3, Zenon

\* The total of linked rows is a sum of their amounts.
LEMMA TotalIs ==
  ASSUME Types, NEW S, S \subseteq Linked, NEW a
  PROVE  /\ Total(S, a) = SumFunctionOnSet(Priced, Part(S, a))
         /\ Total(S, a) \in Nat
  <1> DEFINE P == Part(S, a)
             f == [t \in P |-> Amount[rows[t].payment]]
  <1>1. P \subseteq S /\ IsFiniteSet(P) /\ \A t \in P : Priced[t] \in Nat /\ Priced[t] \in Int /\ f[t] = Priced[t]
    <2>1. P \subseteq S /\ IsFiniteSet(P) /\ P \subseteq Tx
      BY LinkedRows, Zenon
    <2>2. \A t \in P : Priced[t] \in Nat /\ Priced[t] \in Int
      BY <2>1, LinkedRows
    <2>3. \A t \in P : f[t] = Priced[t]
      BY <2>1, Zenon DEF Priced
    <2> QED
      BY <2>1, <2>2, <2>3, Zenon
  <1>2. Total(S, a) = SumFunctionOnSet(f, P)
    BY Zenon DEF Total, Part
  <1> HIDE DEF f, P
  <1>3. SumFunctionOnSet(f, P) = SumFunctionOnSet(Priced, P)
    BY ONLY <1>1, SumSame, Zenon
  <1>4. SumFunctionOnSet(Priced, P) \in Nat
    BY ONLY <1>1, SumNat, Zenon
  <1> QED
    BY <1>2, <1>3, <1>4, Zenon DEF P

\* Nothing counts for nothing.
LEMMA TotalEmpty == \A a : Total({}, a) = 0
  <1> SUFFICES ASSUME NEW a PROVE Total({}, a) = 0
    BY Zenon
  <1> DEFINE P == {t \in {} : IsIn(t, a)}
             f == [t \in P |-> Amount[rows[t].payment]]
  <1>1. Total({}, a) = SumFunctionOnSet(f, P)
    BY Zenon DEF Total
  <1>2. P = {}
    BY Zenon
  <1> HIDE DEF f, P
  <1> QED
    BY <1>1, <1>2, SumUnfold, FS_EmptySet, Zenon

\* The total of two sets that share no row.
LEMMA TotalDisjoint ==
  ASSUME Types, NEW S, S \subseteq Linked, NEW T, T \subseteq Linked, S \cap T = {},
         NEW U, U = S \cup T, NEW a
  PROVE  Total(U, a) = Total(S, a) + Total(T, a)
  <1> DEFINE P == Part(S, a)
             Q == Part(T, a)
  <1>1. /\ IsFiniteSet(P) /\ IsFiniteSet(Q) /\ P \cap Q = {}
        /\ \A x \in P \cup Q : Priced[x] \in Int
    <2>1. IsFiniteSet(P) /\ IsFiniteSet(Q) /\ P \subseteq S /\ Q \subseteq T
      BY LinkedRows, Zenon
    <2>2. \A x \in S \cup T : Priced[x] \in Int
      BY LinkedRows, Zenon
    <2> QED
      BY <2>1, <2>2, Zenon
  <1>2. Part(U, a) = P \cup Q /\ U \subseteq Linked
    BY Zenon DEF Part
  <1> HIDE DEF P, Q
  <1>3. SumFunctionOnSet(Priced, P \cup Q) = SumFunctionOnSet(Priced, P) + SumFunctionOnSet(Priced, Q)
    BY ONLY <1>1, SumDisjoint, Zenon
  <1>4. /\ Total(S, a) = SumFunctionOnSet(Priced, P)
        /\ Total(T, a) = SumFunctionOnSet(Priced, Q)
    BY TotalIs, Zenon DEF P, Q
  <1>5. Total(U, a) = SumFunctionOnSet(Priced, Part(U, a))
    BY <1>2, TotalIs, Zenon
  <1> QED
    BY <1>2, <1>3, <1>4, <1>5, Zenon

\* A total is about the payments of its rows alone.
LEMMA TotalKept ==
  ASSUME NEW S, NEW a, \A t \in S : rows'[t].payment = rows[t].payment
  PROVE  Total(S, a)' = Total(S, a)
  <1> DEFINE P == {t \in S : IsIn(t, a)}
             Q == {t \in S : AssetOf[DestOf[rows'[t].payment]] = a}
             f == [t \in P |-> Amount[rows[t].payment]]
             g == [t \in Q |-> Amount[rows'[t].payment]]
  <1>1. P = Q
    BY Zenon DEF IsIn
  <1>2. f = g
    BY <1>1, Zenon
  <1>3. Total(S, a) = SumFunctionOnSet(f, P)
    BY Zenon DEF Total
  <1>4. Total(S, a)' = SumFunctionOnSet(g, Q)
    BY Zenon DEF Total, IsIn
  <1> HIDE DEF P, Q, f, g
  <1> QED
    BY <1>1, <1>2, <1>3, <1>4, Zenon

-----------------------------------------------------------------------------
(* Every step keeps the types *)

\* The rows a page may hold are linked.
LEMMA ListedLinked ==
  \A c : ListSettlementsForReconcile(c) \subseteq Linked
  BY DEF ListSettlementsForReconcile, Linked, Counts

\* What ReadPage does, with the page it reads.
LEMMA ReadPageIs ==
  ASSUME Types, ReadPage
  PROVE  LET page == Page(ListSettlementsForReconcile(cursor))
         IN  /\ pc = "scan"
             /\ page \subseteq ListSettlementsForReconcile(cursor)
             /\ page \subseteq Linked
             /\ sums' = accumulate(page)
             /\ cursor' = IF page = {} THEN cursor ELSE LastKey(page)
             /\ pc' = IF Cardinality(page) = PageSize THEN "scan" ELSE "balances"
             /\ UNCHANGED <<rows, created, balance, holdings, registry, moved, actuals,
                            liabilities, exit, shifted>>
  <1> DEFINE page == Page(ListSettlementsForReconcile(cursor))
  <1>1. page \subseteq ListSettlementsForReconcile(cursor)
    BY Zenon DEF Page
  <1>2. page \subseteq Linked
    BY <1>1, ListedLinked, Zenon
  <1>3. UNCHANGED <<rows, created, balance, holdings, registry, moved, actuals, liabilities,
                    exit, shifted>>
    BY Zenon DEF ReadPage, Unmoved, settlementVars
  <1>4. /\ pc = "scan"
        /\ sums' = accumulate(page)
        /\ pc' = IF Cardinality(page) = PageSize THEN "scan" ELSE "balances"
    BY Zenon DEF ReadPage
  <1>5. cursor' = IF page = {} THEN cursor ELSE LastKey(page)
    BY DEF ReadPage, LastKey
  <1> QED
    BY <1>1, <1>2, <1>3, <1>4, <1>5, Zenon

LEMMA AccumulateType ==
  ASSUME Types, NEW page, page \subseteq Linked
  PROVE  accumulate(page) \in [Asset -> [finalized : Int, confirmed : Int]]
  <1> DEFINE F == {t \in page : rows[t].status = "finalized"}
             S == {t \in page : rows[t].status = "settled"}
  <1>1. F \subseteq Linked /\ S \subseteq Linked
    BY Zenon
  <1>2. \A a : Total(F, a) \in Nat /\ Total(S, a) \in Nat
    <2> HIDE DEF F, S
    <2> QED
      BY <1>1, TotalIs, Zenon
  <1>3. accumulate(page) = [a \in Asset |-> [finalized |-> sums[a].finalized + Total(F, a),
                                             confirmed |-> sums[a].confirmed + Total(S, a)]]
    BY Zenon DEF accumulate
  <1>4. \A a \in Asset : sums[a].finalized \in Int /\ sums[a].confirmed \in Int
    BY DEF Types
  <1> HIDE DEF F, S
  <1>5. \A a \in Asset : /\ sums[a].finalized + Total(F, a) \in Int
                         /\ sums[a].confirmed + Total(S, a) \in Int
    BY <1>2, <1>4
  <1> QED
    BY <1>3, <1>5

\* One row is written over, keeping its payment if it has one.
LEMMA RowTypes ==
  ASSUME Types, NEW t \in Tx, NEW r \in Rows, r.payment \in Payment, rows' = [rows EXCEPT ![t] = r]
  PROVE  /\ rows' \in [Tx -> Rows]
         /\ \A u \in Tx : rows'[u].status # "none" => rows'[u].payment \in Payment
  <1>1. rows \in [Tx -> Rows] /\ \A u \in Tx : rows[u].status # "none" => rows[u].payment \in Payment
    BY Zenon DEF Types
  <1>2. \A u \in Tx : rows'[u] = IF u = t THEN r ELSE rows[u]
    BY <1>1, Zenon
  <1> QED
    BY <1>1, <1>2, Zenon

LEMMA SinkTypes ==
  ASSUME Types, NEW t \in Tx, SinkActs(t), balance' \in [Account -> Nat],
         UNCHANGED <<created, holdings, runVars>>
  PROVE  Types'
  <1> DEFINE p == rows[t].payment
  <1>0. rows[t].status # "none" /\ p \in Payment /\ rows[t].block \in Block \cup {NoBlock}
    <2>1. rows[t].status # "none"
      BY Zenon DEF SinkActs, Settles, Reverses, Finalizes, Reposts
    <2>2. rows[t] \in Rows
      BY Zenon DEF Types
    <2> QED
      BY <2>1, <2>2, Zenon DEF Types, Rows
  <1>1. rows \in [Tx -> Rows] /\ moved \subseteq Tx
    BY Zenon DEF Types
  <1>2. \A b \in Block \cup {NoBlock}, st \in {"settled", "reorged", "finalized"} :
            Row(st, p, b) \in Rows /\ Row(st, p, b).payment \in Payment
    BY <1>0 DEF Row, Rows, RowStatus
  <1>3. /\ rows' \in [Tx -> Rows]
        /\ \A u \in Tx : rows'[u].status # "none" => rows'[u].payment \in Payment
    <2>1. CASE Settles(t)
      <3>1. PICK b \in Block : rows' = [rows EXCEPT ![t] = Row("settled", p, b)]
        BY <2>1, Zenon DEF Settles
      <3> QED
        BY <1>2, <3>1, RowTypes, Zenon
    <2>2. CASE Reverses(t)
      <3>1. rows' = [rows EXCEPT ![t] = Row("reorged", p, NoBlock)]
        BY <2>2, Zenon DEF Reverses
      <3> QED
        BY <1>2, <3>1, RowTypes, Zenon
    <2>3. CASE Finalizes(t)
      <3>1. rows' = [rows EXCEPT ![t] = Row("finalized", p, rows[t].block)]
        BY <2>3, Zenon DEF Finalizes
      <3> QED
        BY <1>0, <1>2, <3>1, RowTypes, Zenon
    <2>4. CASE Reposts(t)
      BY <2>4, Zenon DEF Reposts, Types
    <2> QED
      BY <2>1, <2>2, <2>3, <2>4, Zenon DEF SinkActs
  <1>4. moved' \subseteq Tx
    BY <1>1 DEF SinkActs, Settles, Reverses, Finalizes, Reposts
  <1> QED
    BY <1>3, <1>4, Zenon DEF Types, runVars

LEMMA TypesNext == Types /\ [Next]_vars => Types'
  <1> SUFFICES ASSUME Types, [Next]_vars PROVE Types'
    BY Zenon
  <1>1. ASSUME NEW entries \in Manifest, Begin(entries) PROVE Types'
    <2>1. registry' \in Seq(Entry)
      BY <1>1, ReconcileAssumption, Zenon DEF Begin, Quit, Types
    <2>2. UNCHANGED <<rows, created, balance, holdings, cursor, sums, moved>>
      BY <1>1, Zenon DEF Begin, Quit, Unmoved, settlementVars
    <2> QED
      BY <2>1, <2>2, Zenon DEF Types
  <1>2. CASE ReadPage
    <2> DEFINE page == Page(ListSettlementsForReconcile(cursor))
    <2>1. /\ page \subseteq Linked
          /\ sums' = accumulate(page)
          /\ cursor' = IF page = {} THEN cursor ELSE LastKey(page)
          /\ UNCHANGED <<rows, created, balance, holdings, registry, moved>>
      BY <1>2, ReadPageIs, Zenon
    <2> HIDE DEF page
    <2>2. sums' \in [Asset -> [finalized : Int, confirmed : Int]]
      BY <2>1, AccumulateType, Zenon
    <2>3. cursor' = NoCursor \/ cursor' \in Key
      <3>1. Dated /\ page \subseteq Tx
        BY <2>1, Zenon DEF Types, Dated, Linked
      <3>2. page # {} => LastKey(page) \in Key
        BY <3>1, LastKeyIs, SortKeys, Zenon
      <3> QED
        BY <2>1, <3>2, Zenon DEF Types
    <2> QED
      BY <2>1, <2>2, <2>3, Zenon DEF Types
  <1>3. CASE BalanceOf \/ (\E a \in Asset : SumLiabilities(a)) \/ BuildReport \/ Fails
    BY <1>3, Zenon DEF BalanceOf, SumLiabilities, BuildReport, Fails, Quit, Unmoved,
                       settlementVars, Types
  <1>4. ASSUME NEW l \in Links, LinkRow(l) PROVE Types'
    <2>1. l.tx \in Tx /\ l.payment \in Payment /\ l.at \in Int
      BY ReconcileAssumption
    <2>2. /\ rows' = [rows EXCEPT ![l.tx] = Row("pending", l.payment, NoBlock)]
          /\ created' = [created EXCEPT ![l.tx] = l.at]
          /\ UNCHANGED <<balance, holdings, registry, cursor, sums, moved>>
      BY <1>4, Zenon DEF LinkRow, Link, runVars
    <2>3. /\ Row("pending", l.payment, NoBlock) \in Rows
          /\ Row("pending", l.payment, NoBlock).payment \in Payment
      BY <2>1 DEF Row, Rows, RowStatus
    <2>4. /\ rows' \in [Tx -> Rows]
          /\ \A u \in Tx : rows'[u].status # "none" => rows'[u].payment \in Payment
      BY <2>1, <2>2, <2>3, RowTypes, Zenon
    <2>5. created' \in [Tx -> Int]
      BY <2>1, <2>2, Zenon DEF Types
    <2> QED
      BY <2>2, <2>4, <2>5, Zenon DEF Types
  <1>5. ASSUME NEW t \in Tx, NEW b \in Block, NEW phase \in {"confirmed", "reorged", "finalized"},
               SinkStep([tx |-> t, phase |-> phase, block |-> b])
        PROVE  Types'
    BY <1>5, SinkSteps, SinkTypes, Zenon
  <1>6. CASE ChainStep \/ UNCHANGED vars
    BY <1>6, Zenon DEF ChainStep, vars, settlementVars, runVars, Types
  <1>7. ASSUME NEW x \in Account, NEW y \in Account, PaymentStep(x, y)
        PROVE  Types'
    <2> DEFINE e == [kind |-> "payment", lines |-> Transfer(x, y, 1)]
    <2>1. /\ Funded(e) /\ balance' = ApplyToBalances(e.lines)
          /\ UNCHANGED <<rows, created, holdings, runVars, moved>>
      BY <1>7, Zenon DEF PaymentStep, Pay
    <2>2. e.lines = Transfer(x, y, 1) /\ 1 \in Int
      OBVIOUS
    <2> HIDE DEF e
    <2>3. balance \in [Account -> Nat]
      BY Zenon DEF Types
    <2>4. balance' \in [Account -> Nat]
      BY <2>1, <2>2, <2>3, FundedPosting, Zenon
    <2> QED
      BY <2>1, <2>4, Zenon DEF Types, runVars
  <1>8. ASSUME NEW m \in Transfers, TokenTransfer(m) PROVE Types'
    <2>1. m.at \in Range(Lower) \X Range(Lower) /\ m.amount \in Int
      BY ReconcileAssumption
    <2>2. /\ holdings[m.at] + m.amount >= 0
          /\ holdings' = [holdings EXCEPT ![m.at] = @ + m.amount]
          /\ UNCHANGED <<rows, created, balance, runVars, moved>>
      BY <1>8, Zenon DEF TokenTransfer, settlementVars
    <2>3. holdings' \in [Range(Lower) \X Range(Lower) -> Nat]
      BY <2>1, <2>2 DEF Types
    <2> QED
      BY <2>2, <2>3, Zenon DEF Types, runVars
  <1> QED
    BY <1>1, <1>2, <1>3, <1>4, <1>5, <1>6, <1>7, <1>8, Zenon DEF Next, RunStep, Meanwhile

-----------------------------------------------------------------------------
(* The scan *)

\* The scan has passed the place of t.
Behind(t) == cursor # NoCursor /\ ~Precedes(cursor, SortKey(t))

\* The sums are those of the rows c: rows behind the cursor, among them every
\* row there that has not moved.
Counted(c) ==
    /\ \A t \in c : t \in Linked /\ Behind(t) /\ (t \in moved \/ Counts(t))
    /\ \A t \in Tx \ moved : Counts(t) /\ (Behind(t) \/ pc = "balances") => t \in c
    /\ \A a \in Asset : sums[a].finalized + sums[a].confirmed = Total(c, a)

ScanInv ==
    /\ Types
    /\ pc \in {"start", "scan", "balances", "done"}
    /\ pc = "start" => cursor = NoCursor
    /\ pc # "done" => \E c \in SUBSET Tx : Counted(c)

LEMMA ScanInit == Init => ScanInv
  <1> SUFFICES ASSUME Init PROVE ScanInv
    OBVIOUS
  <1>1. Types
    BY TypesInit
  <1>2. /\ pc = "start" /\ cursor = NoCursor
        /\ \A t \in Tx : rows[t].status = "none"
        /\ \A a \in Asset : sums[a].finalized + sums[a].confirmed = 0
    BY DEF Init, SettlementInit, Row
  <1>3. Counted({})
    <2>1. \A t \in Tx : ~Counts(t)
      BY <1>2 DEF Counts
    <2> QED
      BY <1>2, <2>1, TotalEmpty, Zenon DEF Counted
  <1> QED
    BY <1>1, <1>2, <1>3 DEF ScanInv

\* A page adds its rows to the sums.
LEMMA PageAdds ==
  ASSUME Types, NEW c, c \subseteq Linked, NEW page, page \subseteq Linked, c \cap page = {},
         \A t \in page : Counts(t), NEW a \in Asset,
         sums[a].finalized + sums[a].confirmed = Total(c, a)
  PROVE  accumulate(page)[a].finalized + accumulate(page)[a].confirmed = Total(c \cup page, a)
  <1> DEFINE F == {t \in page : rows[t].status = "finalized"}
             S == {t \in page : rows[t].status = "settled"}
  <1>1. F \subseteq Linked /\ S \subseteq Linked /\ F \cap S = {} /\ F \cup S = page
    BY DEF Counts
  <1>2. accumulate(page)[a] = [finalized |-> sums[a].finalized + Total(F, a),
                               confirmed |-> sums[a].confirmed + Total(S, a)]
    BY Zenon DEF accumulate
  <1> HIDE DEF F, S
  <1>3. Total(page, a) = Total(F, a) + Total(S, a)
    BY ONLY Types, <1>1, TotalDisjoint
  <1>4. Total(c \cup page, a) = Total(c, a) + Total(page, a)
    BY ONLY Types, c \subseteq Linked, page \subseteq Linked, c \cap page = {}, TotalDisjoint, SMT
  <1>5. Total(F, a) \in Nat /\ Total(S, a) \in Nat
    BY <1>1, TotalIs, Zenon
  <1>6. sums[a].finalized \in Int /\ sums[a].confirmed \in Int
    BY DEF Types
  <1> QED
    BY <1>2, <1>3, <1>4, <1>5, <1>6

\* ReadPage counts the rows of its page, and passes them.
LEMMA ReadPageCounts ==
  ASSUME Types, ReadPage, NEW c, c \subseteq Tx, Counted(c),
         NEW page, page = Page(ListSettlementsForReconcile(cursor))
  PROVE  page \subseteq Tx /\ Counted(c \cup page)'
  <1> DEFINE listed == ListSettlementsForReconcile(cursor)
  <1>1. /\ pc = "scan"
        /\ page \subseteq Linked /\ page \subseteq listed
        /\ sums' = accumulate(page)
        /\ cursor' = IF page = {} THEN cursor ELSE LastKey(page)
        /\ pc' = IF Cardinality(page) = PageSize THEN "scan" ELSE "balances"
        /\ UNCHANGED <<rows, created, moved>>
    BY ReadPageIs
  <1>2. /\ listed \subseteq Tx /\ Dated /\ page \subseteq Tx /\ c \subseteq Linked
        /\ cursor = NoCursor \/ cursor \in Key
        /\ \A t \in listed : Counts(t) /\ ~Behind(t)
        /\ \A t \in Tx : Counts(t) => t \in listed \/ Behind(t)
        /\ \A t \in listed : cursor # NoCursor => Precedes(cursor, SortKey(t))
        /\ \A t \in Tx : SortKey(t) \in Key
    <2>1. Dated
      BY Zenon DEF Types, Dated
    <2> QED
      BY <2>1, <1>1, SortKeys, Zenon DEF ListSettlementsForReconcile, Types, Counted, Behind
  <1>3. /\ \A t \in page, u \in listed \ page : Sooner(t, u)
        /\ Cardinality(page) # PageSize => page = listed
    <2>1. page = Page(listed)
      BY Zenon
    <2> HIDE DEF listed
    <2>2. /\ \A t \in Page(listed), u \in listed \ Page(listed) : Sooner(t, u)
          /\ Cardinality(Page(listed)) # PageSize => Page(listed) = listed
      BY <1>2, PageIsPrefix, Zenon
    <2> QED
      BY <2>1, <2>2, Zenon
  <1> HIDE DEF listed
  <1>4. /\ \A t \in c \cup page : Behind(t)'
        /\ \A t \in listed \ page : ~Behind(t)'
    <2>1. CASE page = {}
      <3>1. /\ UNCHANGED <<cursor, created>>
            /\ \A t \in Tx : Behind(t)' <=> Behind(t)
        BY <1>1, <2>1, Zenon DEF Behind, SortKey
      <3> QED
        BY <1>1, <1>2, <2>1, <3>1, Zenon DEF Counted
    <2>2. CASE page # {}
      <3>1. PICK t \in page : LastKey(page) = SortKey(t) /\ \A u \in page : ~Sooner(t, u)
        BY <1>2, <2>2, LastKeyIs, Zenon
      <3>2. /\ cursor' = SortKey(t) /\ t \in Tx /\ t \in listed /\ SortKey(t) # NoCursor
            /\ UNCHANGED created
        BY <1>1, <1>2, <2>2, <3>1 DEF SortKey, NoCursor
      <3>3. \A u \in Tx : Behind(u)' <=> ~Sooner(t, u)
        BY <3>2, Zenon DEF Behind, Sooner, SortKey
      <3>4. ASSUME NEW u \in c PROVE Behind(u)'
        <4>1. u \in Tx /\ cursor \in Key /\ ~Precedes(cursor, SortKey(u)) /\ Precedes(cursor, SortKey(t))
          BY <1>2, <3>2, Zenon DEF Counted, Behind
        <4>2. SortKey(u) \in Key /\ SortKey(t) \in Key
          BY <1>2, <3>2, <4>1, Zenon
        <4>3. ~Sooner(t, u)
          BY <4>1, <4>2, PrecedesOrder, Zenon DEF Sooner
        <4> QED
          BY <3>3, <4>1, <4>3, Zenon
      <3>5. \A u \in page : Behind(u)'
        BY <1>2, <3>1, <3>3, Zenon
      <3>6. \A u \in listed \ page : ~Behind(u)'
        BY <1>2, <1>3, <3>3, Zenon
      <3> QED
        BY <3>4, <3>5, <3>6, Zenon
    <2> QED
      BY <2>1, <2>2, Zenon
  <1>5. \A t \in c \cup page : (t \in Linked /\ Behind(t) /\ (t \in moved \/ Counts(t)))'
    BY <1>1, <1>2, <1>4, Zenon DEF Counted, Linked, Counts
  <1>6. ASSUME NEW t \in Tx, t \notin moved', Counts(t)', Behind(t)' \/ pc' = "balances"
        PROVE  t \in c \cup page
    <2>1. t \notin moved /\ Counts(t)
      BY <1>1, <1>6, Zenon DEF Counts
    <2>2. CASE t \notin listed
      BY <1>2, <2>1, <2>2, Zenon DEF Counted
    <2>3. CASE t \in listed
      <3>1. t \notin page => pc' = "scan" /\ ~Behind(t)'
        BY <1>1, <1>3, <1>4, <2>3, Zenon
      <3> QED
        BY <1>6, <3>1
    <2> QED
      BY <2>2, <2>3, Zenon
  <1>7. ASSUME NEW a \in Asset
        PROVE  sums'[a].finalized + sums'[a].confirmed = Total(c \cup page, a)'
    <2>1. c \cap page = {} /\ \A t \in page : Counts(t)
      BY <1>1, <1>2, Zenon DEF Counted
    <2>2. sums[a].finalized + sums[a].confirmed = Total(c, a)
      BY Zenon DEF Counted
    <2>3. accumulate(page)[a].finalized + accumulate(page)[a].confirmed = Total(c \cup page, a)
      BY <1>1, <1>2, <2>1, <2>2, PageAdds, Zenon
    <2>4. Total(c \cup page, a)' = Total(c \cup page, a)
      <3>1. \A t \in c \cup page : rows'[t].payment = rows[t].payment
        BY <1>1, Zenon
      <3> QED
        BY <3>1, TotalKept, Zenon
    <2> QED
      BY <1>1, <2>3, <2>4, Zenon
  <1> QED
    BY <1>2, <1>5, <1>6, <1>7, Zenon DEF Counted

\* A step that leaves the scan and its rows alone leaves what is counted.
LEMMA CountedKept ==
  ASSUME NEW c, Counted(c), UNCHANGED <<rows, created, cursor, sums, moved>>,
         pc' = "balances" => pc = "balances"
  PROVE  Counted(c)'
  <1>1. \A a \in Asset : Total(c, a)' = Total(c, a)
    BY TotalKept, Zenon
  <1>2. /\ \A t : Behind(t)' <=> Behind(t)
        /\ \A t : Counts(t)' <=> Counts(t)
        /\ Linked' = Linked
    BY Zenon DEF Behind, SortKey, Counts, Linked
  <1> QED
    BY <1>1, <1>2, Zenon DEF Counted

\* A row that appears, among older ones or not, does not count.
LEMMA LinkCounted ==
  ASSUME Types, NEW c, c \subseteq Tx, Counted(c), NEW l \in Links, LinkRow(l)
  PROVE  Counted(c)'
  <1>0. l.tx \in Tx
    BY ReconcileAssumption
  <1>1. /\ rows[l.tx].status = "none"
        /\ rows' = [rows EXCEPT ![l.tx] = Row("pending", l.payment, NoBlock)]
        /\ created' = [created EXCEPT ![l.tx] = l.at]
        /\ UNCHANGED <<cursor, sums, moved, pc>>
    BY Zenon DEF LinkRow, Link, runVars
  <1>2. \A u \in Tx : u # l.tx => rows'[u] = rows[u] /\ created'[u] = created[u]
    BY <1>1, Zenon DEF Types
  <1>3. ~Counts(l.tx) /\ ~Counts(l.tx)' /\ l.tx \notin Linked
    <2>1. rows'[l.tx].status = "pending"
      BY <1>0, <1>1 DEF Types, Row
    <2> QED
      BY <1>1, <2>1 DEF Counts, Linked
  <1>4. l.tx \notin c
    BY <1>3, Zenon DEF Counted
  <1>5. \A u \in Tx : u # l.tx => /\ Behind(u)' <=> Behind(u)
                                  /\ Counts(u)' <=> Counts(u)
                                  /\ u \in Linked' <=> u \in Linked
    BY <1>1, <1>2, Zenon DEF Behind, SortKey, Counts, Linked
  <1>6. \A a \in Asset : Total(c, a)' = Total(c, a)
    <2>1. \A u \in c : rows'[u].payment = rows[u].payment
      BY <1>2, <1>4, Zenon
    <2> QED
      BY <2>1, TotalKept, Zenon
  <1> QED
    BY <1>1, <1>3, <1>4, <1>5, <1>6, Zenon DEF Counted

\* What the sink does to a row: the same payment, and it counts on or has moved.
LEMMA SinkRow ==
  ASSUME Types, NEW t \in Tx, SinkActs(t)
  PROVE  /\ \A u \in Tx : u # t => rows'[u] = rows[u]
         /\ rows'[t].payment = rows[t].payment
         /\ t \in Linked /\ t \in Linked'
         /\ \/ moved' = moved /\ Counts(t) /\ Counts(t)'
            \/ moved' = IF Running THEN moved \cup {t} ELSE moved
  <1>0. rows \in [Tx -> Rows]
    BY Zenon DEF Types
  <1>1. CASE Settles(t)
    <2>1. PICK b \in Block : rows' = [rows EXCEPT ![t] = Row("settled", rows[t].payment, b)]
      BY <1>1, Zenon DEF Settles
    <2>2. rows[t].status \in {"pending", "reorged"} /\ moved' = IF Running THEN moved \cup {t} ELSE moved
      BY <1>1, Zenon DEF Settles
    <2>3. rows'[t].status = "settled" /\ rows'[t].payment = rows[t].payment
      BY <1>0, <2>1 DEF Row
    <2>4. \A u \in Tx : u # t => rows'[u] = rows[u]
      BY <1>0, <2>1, Zenon
    <2>5. t \in Linked /\ t \in Linked'
      BY <2>2, <2>3 DEF Linked
    <2> QED
      BY <2>2, <2>3, <2>4, <2>5, Zenon
  <1>2. CASE Reverses(t)
    <2>1. /\ rows' = [rows EXCEPT ![t] = Row("reorged", rows[t].payment, NoBlock)]
          /\ rows[t].status = "settled" /\ moved' = IF Running THEN moved \cup {t} ELSE moved
      BY <1>2, Zenon DEF Reverses
    <2>3. rows'[t].status = "reorged" /\ rows'[t].payment = rows[t].payment
      BY <1>0, <2>1 DEF Row
    <2>4. \A u \in Tx : u # t => rows'[u] = rows[u]
      BY <1>0, <2>1, Zenon
    <2>5. t \in Linked /\ t \in Linked'
      BY <2>1, <2>3 DEF Linked
    <2> QED
      BY <2>1, <2>3, <2>4, <2>5, Zenon
  <1>3. CASE Finalizes(t)
    <2>1. /\ rows' = [rows EXCEPT ![t] = Row("finalized", rows[t].payment, rows[t].block)]
          /\ rows[t].status = "settled" /\ moved' = moved
      BY <1>3, Zenon DEF Finalizes
    <2>3. rows'[t].status = "finalized" /\ rows'[t].payment = rows[t].payment
      BY <1>0, <2>1 DEF Row
    <2>4. \A u \in Tx : u # t => rows'[u] = rows[u]
      BY <1>0, <2>1, Zenon
    <2>5. t \in Linked /\ t \in Linked' /\ Counts(t) /\ Counts(t)'
      BY <2>1, <2>3 DEF Linked, Counts
    <2> QED
      BY <2>1, <2>3, <2>4, <2>5, Zenon
  <1>4. CASE Reposts(t)
    <2>1. rows' = rows /\ moved' = moved /\ rows[t].status = "finalized"
      BY <1>4, Zenon DEF Reposts
    <2>2. t \in Linked /\ t \in Linked' /\ Counts(t) /\ Counts(t)'
      BY <2>1 DEF Linked, Counts
    <2> QED
      BY <2>1, <2>2, Zenon
  <1> QED
    BY <1>1, <1>2, <1>3, <1>4, Zenon DEF SinkActs

\* A row that the sink settles or reverses has moved; any other counts on.
LEMMA SinkCounted ==
  ASSUME Types, pc = "start" => cursor = NoCursor, Followed,
         pc \in {"start", "scan", "balances"},
         NEW c, c \subseteq Tx, Counted(c),
         NEW t \in Tx, SinkActs(t),
         UNCHANGED <<created, runVars>>
  PROVE  Counted(c)'
  <1>1. /\ \A u \in Tx : u # t => rows'[u] = rows[u]
        /\ rows'[t].payment = rows[t].payment
        /\ t \in Linked /\ t \in Linked'
        /\ \/ moved' = moved /\ Counts(t) /\ Counts(t)'
           \/ moved' = IF Running THEN moved \cup {t} ELSE moved
    BY SinkRow, Zenon
  <1>2. UNCHANGED <<created, cursor, sums, pc>>
    BY Zenon DEF runVars
  <1>3. /\ \A u : Behind(u)' <=> Behind(u)
        /\ \A u \in Tx : u # t => (Counts(u)' <=> Counts(u)) /\ (u \in Linked' <=> u \in Linked)
    BY <1>1, <1>2, Zenon DEF Behind, SortKey, Counts, Linked
  <1>4. \A a \in Asset : Total(c, a)' = Total(c, a)
    <2>1. \A u \in c : rows'[u].payment = rows[u].payment
      BY <1>1, Zenon
    <2> QED
      BY <2>1, TotalKept, Zenon
  <1>5. CASE moved' = moved /\ Counts(t) /\ Counts(t)'
    BY <1>1, <1>2, <1>3, <1>4, <1>5, Zenon DEF Counted
  <1>6. CASE moved' = moved \cup {t}
    BY <1>1, <1>2, <1>3, <1>4, <1>6, Zenon DEF Counted
  <1>7. CASE moved' = moved /\ ~Running
    <2>1. pc = "start" /\ cursor = NoCursor
      BY <1>7 DEF Running
    <2>2. c = {} /\ (\A u : ~Behind(u)) /\ pc' # "balances"
      BY <1>2, <2>1 DEF Counted, Behind
    <2> QED
      BY <1>2, <1>3, <1>4, <1>7, <2>2, Zenon DEF Counted
  <1> QED
    BY <1>1, <1>5, <1>6, <1>7, Zenon

LEMMA ScanNext == ScanInv /\ [Next]_vars => ScanInv'
  <1> SUFFICES ASSUME ScanInv, [Next]_vars PROVE ScanInv'
    BY Zenon
  <1> DEFINE Some == \E c \in SUBSET Tx : Counted(c)
  <1>0. /\ Types /\ Types'
        /\ pc \in {"start", "scan", "balances", "done"}
        /\ pc = "start" => cursor = NoCursor
        /\ pc # "done" => Some
    BY TypesNext, Zenon DEF ScanInv
  <1>1. ASSUME UNCHANGED <<rows, created, cursor, sums, moved>>,
               pc' \in {"start", "scan", "balances", "done"},
               pc' = "balances" => pc = "balances", pc' = "start" => pc = "start",
               pc' # "done" => pc # "done"
        PROVE  ScanInv'
    <2>1. Some => Some'
      BY <1>1, CountedKept, Zenon
    <2> HIDE DEF Some
    <2> QED
      BY <1>0, <1>1, <2>1, Zenon DEF ScanInv, Some
  <1>2. ASSUME NEW entries \in Manifest, Begin(entries) PROVE ScanInv'
    <2>1. UNCHANGED <<rows, created, cursor, sums, moved>> /\ pc = "start" /\ pc' \in {"scan", "done"}
      BY <1>2 DEF Begin, Quit, Unmoved, settlementVars
    <2> QED
      BY <1>1, <2>1
  <1>3. CASE ReadPage
    <2>1. PICK page : page = Page(ListSettlementsForReconcile(cursor))
      BY Zenon
    <2>2. pc = "scan" /\ pc' \in {"scan", "balances"}
      BY <1>3 DEF ReadPage
    <2>3. PICK c \in SUBSET Tx : Counted(c)
      BY <1>0, <2>2
    <2>4. page \subseteq Tx /\ Counted(c \cup page)'
      BY <1>0, <1>3, <2>1, <2>3, ReadPageCounts, Zenon
    <2>5. Some'
      BY <2>4, Zenon
    <2> QED
      BY <1>0, <2>2, <2>5 DEF ScanInv
  <1>4. CASE BalanceOf \/ (\E a \in Asset : SumLiabilities(a)) \/ BuildReport \/ Fails
    <2>1. UNCHANGED <<rows, created, cursor, sums, moved>>
      BY <1>4, Zenon DEF BalanceOf, SumLiabilities, BuildReport, Fails, Quit, Unmoved, settlementVars
    <2>2. pc' = "done" \/ UNCHANGED pc
      BY <1>4, Zenon DEF BalanceOf, SumLiabilities, BuildReport, Fails, Quit
    <2>3. pc # "done"
      BY <1>4 DEF BalanceOf, SumLiabilities, BuildReport, Fails
    <2> QED
      BY <1>0, <1>1, <2>1, <2>2, <2>3
  <1>5. ASSUME NEW l \in Links, LinkRow(l) PROVE ScanInv'
    <2>1. pc # "done" /\ UNCHANGED <<pc, cursor>>
      BY <1>5, Zenon DEF LinkRow, Followed, runVars
    <2>2. PICK c \in SUBSET Tx : Counted(c)
      BY <1>0, <2>1, Zenon
    <2>3. Counted(c)'
      BY <1>0, <1>5, <2>2, LinkCounted, Zenon
    <2> QED
      BY <1>0, <2>1, <2>3, Zenon DEF ScanInv
  <1>6. ASSUME NEW t \in Tx, NEW b \in Block, NEW phase \in {"confirmed", "reorged", "finalized"},
               SinkStep([tx |-> t, phase |-> phase, block |-> b])
        PROVE  ScanInv'
    <2>1. SinkActs(t) /\ Followed /\ UNCHANGED <<created, holdings, runVars, shifted>>
      BY <1>0, <1>6, SinkSteps, Zenon
    <2>2. pc \in {"start", "scan", "balances"} /\ UNCHANGED <<created, runVars, pc, cursor>>
      BY <1>0, <2>1 DEF Followed, runVars
    <2>3. PICK c \in SUBSET Tx : Counted(c)
      BY <1>0, <2>2
    <2>4. Counted(c)'
      BY <1>0, <2>1, <2>2, <2>3, SinkCounted, Zenon
    <2> QED
      BY <1>0, <2>2, <2>4, Zenon DEF ScanInv
  <1>7. CASE ChainStep \/ UNCHANGED vars \/ (\E x, y \in Account : PaymentStep(x, y))
             \/ (\E m \in Transfers : TokenTransfer(m))
    <2>1. UNCHANGED <<rows, created, runVars, moved>>
      BY <1>7, Zenon DEF ChainStep, vars, PaymentStep, Pay, TokenTransfer, settlementVars
    <2>2. UNCHANGED <<rows, created, cursor, sums, moved, pc>>
      BY <2>1, Zenon DEF runVars
    <2> QED
      BY <1>0, <1>1, <2>2, Zenon
  <1> QED
    BY <1>2, <1>3, <1>4, <1>5, <1>6, <1>7, Zenon DEF Next, RunStep, Meanwhile

LEMMA ScanInvariance == Spec => []ScanInv
  BY ScanInit, ScanNext, PTL DEF Spec

(***************************************************************************)
(* CountedOnce of every behaviour: AggregateSettlements counts every row   *)
(* that has not moved since the run began exactly once, whatever rows are  *)
(* inserted, settled, reversed or finalised between its pages.             *)
(***************************************************************************)
THEOREM CountedOnceHolds == Spec => []CountedOnce
<1>1. ScanInv => CountedOnce
  <2> SUFFICES ASSUME ScanInv, pc = "balances"
               PROVE  \A a \in Asset : \E extra \in SUBSET moved :
                        sums[a].finalized + sums[a].confirmed
                            = Total({t \in Tx \ moved : Counts(t)} \cup extra, a)
    BY Zenon DEF CountedOnce
  <2>1. PICK c \in SUBSET Tx : Counted(c)
    BY DEF ScanInv
  <2> DEFINE still == {t \in Tx \ moved : Counts(t)}
             extra == c \cap moved
  <2>2. still \cup extra = c
    BY <2>1, Zenon DEF Counted
  <2>3. \A a \in Asset : sums[a].finalized + sums[a].confirmed = Total(still \cup extra, a)
    BY <2>1, <2>2, Zenon DEF Counted
  <2>4. extra \in SUBSET moved
    BY Zenon
  <2> QED
    BY <2>3, <2>4, Zenon
<1> QED
  BY <1>1, ScanInvariance, PTL

-----------------------------------------------------------------------------
(* The ledger *)

\* No account is below 0, so the accounts other than the clearing account sum to
\* no less: what the report calls liabilities is never above 0.
LEMMA NothingOwed ==
  ASSUME Types, NEW a
  PROVE  SumNonHouseLiabilities(a) \in Nat
  <1> DEFINE S == {x \in Account \ {House} : AssetOf[x] = a}
  <1>1. S \subseteq Account
    BY Zenon
  <1>2. IsFiniteSet(S)
    BY <1>1, ReconcileAssumption, FS_Subset, Zenon
  <1>3. \A x \in S : balance[x] \in Nat
    BY <1>1, Zenon DEF Types
  <1> HIDE DEF S
  <1>4. SumFunctionOnSet(balance, S) \in Nat
    BY ONLY <1>2, <1>3, SumNat, Zenon
  <1> QED
    BY <1>4, Zenon DEF SumNonHouseLiabilities, S

-----------------------------------------------------------------------------
(* The report *)

Read == [asset : Asset, actual : Nat]

\* What has been read of the chain is still so unless a treasury's balance moved.
ReportInv ==
    /\ pc = "start" => actuals = << >> /\ liabilities = << >>
    /\ \A a \in DOMAIN liabilities : liabilities[a] \in Int /\ liabilities[a] <= 0
    /\ Running =>
          /\ LoadRegistry(registry)
          /\ actuals \in Seq(Read)
          /\ Len(actuals) <= Len(registry)
          /\ \A i \in 1 .. Len(actuals) :
                /\ actuals[i].asset = registry[i].asset
                /\ ~shifted => actuals[i].actual = holdings[Place(registry[i])]

LEMMA ReportInit == Init => ReportInv
  BY DEF Init, ReportInv, Running

LEMMA ReportKept ==
  ASSUME ReportInv, pc' = "start" => pc = "start", Running' => Running,
         UNCHANGED <<registry, actuals, liabilities>>,
         Running /\ ~shifted' => holdings' = holdings /\ ~shifted
  PROVE  ReportInv'
  <1>1. UNCHANGED registry => (LoadRegistry(registry)' <=> LoadRegistry(registry))
    BY Zenon DEF LoadRegistry
  <1>2. /\ pc' = "start" => actuals' = << >> /\ liabilities' = << >>
        /\ \A a \in DOMAIN liabilities' : liabilities'[a] \in Int /\ liabilities'[a] <= 0
    BY Zenon DEF ReportInv
  <1>3. Running' => /\ LoadRegistry(registry)'
                    /\ actuals' \in Seq(Read)
                    /\ Len(actuals') <= Len(registry')
    BY <1>1, Zenon DEF ReportInv
  <1>4. ASSUME Running', NEW i \in 1 .. Len(actuals')
        PROVE  /\ actuals'[i].asset = registry'[i].asset
               /\ ~shifted' => actuals'[i].actual = holdings'[Place(registry'[i])]
    BY <1>4, Zenon DEF ReportInv
  <1> QED
    BY <1>2, <1>3, <1>4, Zenon DEF ReportInv, Place

\* What an entry of a registry that was loaded says.
LEMMA EntryIs ==
  ASSUME Types, LoadRegistry(registry), NEW i \in 1 .. Len(registry)
  PROVE  registry[i].asset \in Asset /\ Place(registry[i]) \in Range(Lower) \X Range(Lower)
  <1>1. registry \in Seq(Entry) /\ DOMAIN registry = 1 .. Len(registry)
    BY DEF Types
  <1>2. registry[i] \in Entry
    BY ONLY <1>1, i \in 1 .. Len(registry), SMT
  <1>3. /\ registry[i].address \in Address /\ registry[i].token \in Address
        /\ registry[i].asset \in Asset \cup {NoAsset}
    BY <1>2 DEF Entry
  <1>4. registry[i].asset # NoAsset
    BY <1>1, Zenon DEF LoadRegistry, Validate
  <1>5. Lower[registry[i].address] \in Range(Lower) /\ Lower[registry[i].token] \in Range(Lower)
    BY <1>3, ReconcileAssumption, Zenon DEF Range
  <1> QED
    BY <1>3, <1>4, <1>5, Zenon DEF Place

\* BalanceOf reads one more treasury.
LEMMA BalanceOfReports ==
  ASSUME Types, ReportInv, BalanceOf
  PROVE  ReportInv'
  <1> DEFINE n == Len(actuals) + 1
             r == [asset |-> registry[n].asset, actual |-> holdings[Place(registry[n])]]
  <1>1. /\ pc = "balances" /\ Running /\ Len(actuals) < Len(registry)
        /\ actuals' = Append(actuals, r)
        /\ UNCHANGED <<pc, registry, liabilities, holdings, shifted>>
    BY DEF BalanceOf, Unmoved, Running
  <1>2. /\ LoadRegistry(registry)
        /\ actuals \in Seq(Read)
        /\ \A i \in 1 .. Len(actuals) :
                /\ actuals[i].asset = registry[i].asset
                /\ ~shifted => actuals[i].actual = holdings[Place(registry[i])]
        /\ \A a \in DOMAIN liabilities : liabilities[a] \in Int /\ liabilities[a] <= 0
    BY <1>1, Zenon DEF ReportInv
  <1>3. Len(registry) \in Nat /\ Len(actuals) \in Nat
    BY <1>2 DEF Types
  <1>4. n \in 1 .. Len(registry)
    BY ONLY <1>1, <1>3, SMT
  <1>5. r \in Read
    <2> HIDE DEF n
    <2>1. registry[n].asset \in Asset /\ Place(registry[n]) \in Range(Lower) \X Range(Lower)
      BY <1>2, <1>4, EntryIs, Zenon
    <2>2. holdings[Place(registry[n])] \in Nat
      BY <2>1, Zenon DEF Types
    <2> QED
      BY <2>1, <2>2 DEF Read
  <1> HIDE DEF r
  <1>6. /\ actuals' \in Seq(Read)
        /\ Len(actuals') = n /\ Len(actuals') <= Len(registry')
        /\ actuals'[n] = r /\ \A i \in 1 .. Len(actuals) : actuals'[i] = actuals[i]
    BY <1>1, <1>2, <1>3, <1>5
  <1>7. ASSUME NEW i \in 1 .. Len(actuals')
        PROVE  /\ actuals'[i].asset = registry'[i].asset
               /\ ~shifted' => actuals'[i].actual = holdings'[Place(registry'[i])]
    <2>1. CASE i = n
      <3>1. r.asset = registry[n].asset /\ r.actual = holdings[Place(registry[n])]
        BY DEF r
      <3> QED
        BY <1>1, <1>6, <2>1, <3>1, Zenon
    <2>2. CASE i # n
      <3>1. i \in 1 .. Len(actuals)
        BY <1>3, <1>6, <2>2
      <3> QED
        BY <1>1, <1>2, <1>6, <3>1, Zenon
    <2> QED
      BY <2>1, <2>2, Zenon
  <1>8. LoadRegistry(registry)' /\ pc' # "start"
    BY <1>1, <1>2 DEF LoadRegistry
  <1>9. \A a \in DOMAIN liabilities' : liabilities'[a] \in Int /\ liabilities'[a] <= 0
    BY <1>1, <1>2, Zenon
  <1> QED
    BY <1>6, <1>7, <1>8, <1>9, Zenon DEF ReportInv, Place

\* SumLiabilities adds a number that is not above 0.
LEMMA SumLiabilitiesReports ==
  ASSUME Types, ReportInv, NEW a \in Asset, SumLiabilities(a)
  PROVE  ReportInv'
  <1>1. /\ pc = "balances" /\ Running
        /\ liabilities' = [x \in DOMAIN liabilities \cup {a} |->
                            IF x = a THEN -SumNonHouseLiabilities(a) ELSE liabilities[x]]
        /\ UNCHANGED <<pc, registry, actuals, holdings, shifted>>
    BY DEF SumLiabilities, Unmoved, Running
  <1>2. -SumNonHouseLiabilities(a) \in Int /\ -SumNonHouseLiabilities(a) <= 0
    <2>1. SumNonHouseLiabilities(a) \in Nat
      BY NothingOwed, Zenon
    <2> QED
      BY ONLY <2>1, SMT
  <1>3. \A x \in DOMAIN liabilities' : liabilities'[x] \in Int /\ liabilities'[x] <= 0
    <2>1. \A x \in DOMAIN liabilities : liabilities[x] \in Int /\ liabilities[x] <= 0
      BY Zenon DEF ReportInv
    <2> QED
      BY <1>1, <1>2, <2>1, Zenon
  <1>4. (LoadRegistry(registry)' <=> LoadRegistry(registry)) /\ pc' # "start"
    BY <1>1 DEF LoadRegistry
  <1> QED
    BY <1>1, <1>3, <1>4, Zenon DEF ReportInv, Place

LEMMA ReportNext == Types /\ ReportInv /\ [Next]_vars => ReportInv'
  <1> SUFFICES ASSUME Types, ReportInv, [Next]_vars PROVE ReportInv'
    BY Zenon
  <1>1. ASSUME NEW entries \in Manifest, Begin(entries) PROVE ReportInv'
    <2>1. pc = "start" /\ actuals = << >> /\ liabilities = << >> /\ UNCHANGED <<actuals, liabilities>>
      BY <1>1, Zenon DEF Begin, Quit, ReportInv
    <2>2. /\ actuals' \in Seq(Read) /\ Len(actuals') = 0
          /\ \A a \in DOMAIN liabilities' : liabilities'[a] \in Int /\ liabilities'[a] <= 0
      BY <2>1
    <2>3. CASE LoadRegistry(entries)
      <3>1. registry' = entries /\ pc' = "scan"
        BY <1>1, <2>3, Zenon DEF Begin
      <3>2. LoadRegistry(registry)'
        BY <2>3, <3>1, Zenon DEF LoadRegistry
      <3>3. Len(registry') \in Nat
        <4>1. entries \in Seq(Entry)
          BY ReconcileAssumption, Zenon
        <4> QED
          BY <3>1, <4>1
      <3>4. pc' # "start" /\ Len(actuals') <= Len(registry') /\ 1 .. Len(actuals') = {}
        BY <2>2, <3>1, <3>3
      <3> QED
        BY <2>2, <3>2, <3>4, Zenon DEF ReportInv
    <2>4. CASE ~LoadRegistry(entries)
      <3>1. pc' # "start" /\ ~Running'
        BY <1>1, <2>4 DEF Begin, Quit, Running
      <3> QED
        BY <2>2, <3>1, Zenon DEF ReportInv
    <2> QED
      BY <2>3, <2>4, Zenon
  <1>2. CASE ReadPage
    <2>1. UNCHANGED <<registry, actuals, liabilities, holdings, shifted>>
      BY <1>2, ReadPageIs, Zenon
    <2>2. Running /\ pc' # "start"
      BY <1>2 DEF ReadPage, Running
    <2> QED
      BY <2>1, <2>2, ReportKept, Zenon
  <1>3. CASE BalanceOf
    BY <1>3, BalanceOfReports, Zenon
  <1>4. ASSUME NEW a \in Asset, SumLiabilities(a) PROVE ReportInv'
    BY <1>4, SumLiabilitiesReports, Zenon
  <1>5. CASE BuildReport \/ Fails
    <2>1. pc' # "start" /\ ~Running'
      BY <1>5 DEF BuildReport, Fails, Quit, Running
    <2>2. UNCHANGED <<registry, actuals, liabilities>>
      BY <1>5, Zenon DEF BuildReport, Fails, Quit
    <2> QED
      BY <2>1, <2>2, Zenon DEF ReportInv
  <1>6. CASE Meanwhile \/ UNCHANGED vars
    <2>1. UNCHANGED runVars /\ (Running /\ ~shifted' => holdings' = holdings /\ ~shifted)
      <3>1. ASSUME NEW l \in Links, LinkRow(l)
            PROVE  UNCHANGED <<runVars, holdings, shifted>>
        BY <3>1, Zenon DEF LinkRow
      <3>2. ASSUME NEW t \in Tx, NEW b \in Block, NEW phase \in {"confirmed", "reorged", "finalized"},
                   SinkStep([tx |-> t, phase |-> phase, block |-> b])
            PROVE  UNCHANGED <<runVars, holdings, shifted>>
        BY <3>2, Zenon DEF SinkStep
      <3>3. ASSUME NEW m \in Transfers, TokenTransfer(m)
            PROVE  UNCHANGED runVars /\ shifted' = (shifted \/ Running)
        BY <3>3, Zenon DEF TokenTransfer
      <3>4. ASSUME NEW x \in Account, NEW y \in Account, PaymentStep(x, y)
            PROVE  UNCHANGED <<runVars, holdings, shifted>>
        BY <3>4, Zenon DEF PaymentStep
      <3>5. CASE ChainStep \/ UNCHANGED vars
        <4>1. UNCHANGED <<runVars, holdings, shifted>>
          BY <3>5, Zenon DEF ChainStep, vars
        <4> QED
          BY <4>1, Zenon
      <3> QED
        BY <1>6, <3>1, <3>2, <3>3, <3>4, <3>5, Zenon DEF Meanwhile
    <2>2. UNCHANGED <<pc, registry, actuals, liabilities>> /\ (Running' <=> Running)
      BY <2>1, Zenon DEF Running, runVars
    <2> QED
      BY <2>1, <2>2, ReportKept, Zenon
  <1> QED
    BY <1>1, <1>2, <1>3, <1>4, <1>5, <1>6, Zenon DEF Next, RunStep

RInv == ScanInv /\ ReportInv

LEMMA RunInvariance == Spec => []RInv
<1>1. Init => RInv
  BY ScanInit, ReportInit, Zenon DEF RInv
<1>2. RInv /\ [Next]_vars => RInv'
  <2>1. ScanInv => Types
    BY Zenon DEF ScanInv
  <2> QED
    BY <2>1, ScanNext, ReportNext, Zenon DEF RInv
<1> QED
  BY <1>1, <1>2, PTL DEF Spec

\* What was read adds up to no less than nothing, and covers what is owed.
LEMMA ReadCovers ==
  ASSUME Types, ReportInv, Running, NEW a
  PROVE  Actual(a) \in Nat /\ Actual(a) >= Owed(a)
  <1> DEFINE D == DOMAIN actuals
             I == {i \in D : actuals[i].asset = a}
             f == [i \in D |-> actuals[i].actual]
  <1>1. actuals \in Seq(Read)
    BY Zenon DEF ReportInv
  <1>2. D = 1 .. Len(actuals) /\ Len(actuals) \in Nat /\ \A i \in D : actuals[i] \in Read
    BY ONLY <1>1, SMT
  <1>3. \A i \in D : f[i] \in Nat
    BY <1>2 DEF Read
  <1>4. IsFiniteSet(I) /\ I \subseteq D
    <2>1. IsFiniteSet(D)
      BY <1>2, FS_Interval
    <2> QED
      BY <2>1, FS_Subset, Zenon
  <1>5. Actual(a) = SumFunctionOnSet(f, I)
    BY Zenon DEF Actual
  <1> HIDE DEF f, I, D
  <1>6. SumFunctionOnSet(f, I) \in Nat
    <2>1. \A i \in I : f[i] \in Nat
      BY <1>3, <1>4, Zenon
    <2> QED
      BY ONLY <1>4, <2>1, SumNat, Zenon
  <1>7. Owed(a) \in Int /\ Owed(a) <= 0
    BY DEF Owed, ReportInv
  <1> QED
    BY <1>5, <1>6, <1>7

\* The treasuries the registry lists for an asset are distinct places: what was
\* read of them adds up to what they hold.
LEMMA ActualIsHeld ==
  ASSUME Types, ReportInv, Running, ~shifted, Len(actuals) = Len(registry), NEW a \in Asset
  PROVE  Actual(a) = Held(a)
  <1> DEFINE D == 1 .. Len(registry)
             I == {i \in D : registry[i].asset = a}
             m == [i \in D |-> Place(registry[i])]
             f == [i \in D |-> actuals[i].actual]
             H == {Place(registry[i]) : i \in {j \in DOMAIN registry : registry[j].asset = a}}
  <1>1. /\ LoadRegistry(registry)
        /\ \A i, j \in DOMAIN registry : i # j => ~SamePair(registry[i], registry[j])
        /\ actuals \in Seq(Read) /\ registry \in Seq(Entry)
        /\ \A i \in 1 .. Len(actuals) : /\ actuals[i].asset = registry[i].asset
                                       /\ actuals[i].actual = holdings[Place(registry[i])]
    BY Zenon DEF ReportInv, LoadRegistry, Types
  <1>2. DOMAIN actuals = D /\ DOMAIN registry = D /\ Len(registry) \in Nat
    BY <1>1
  <1>3. \A i \in D : /\ actuals[i].asset = registry[i].asset
                     /\ actuals[i].actual = holdings[Place(registry[i])]
                     /\ holdings[Place(registry[i])] \in Nat
    BY <1>1, EntryIs, Zenon DEF Types
  <1>4. IsFiniteSet(I) /\ I \subseteq D
    <2>1. IsFiniteSet(D)
      BY <1>2, FS_Interval
    <2> QED
      BY <2>1, FS_Subset, Zenon
  <1>5. H = ImageOf(m, I)
    <2>1. H = {Place(registry[i]) : i \in I}
      BY <1>2, Zenon
    <2> QED
      BY <2>1, Zenon DEF ImageOf
  <1>6. \A i, j \in I : m[i] = m[j] => i = j
    <2> SUFFICES ASSUME NEW i \in I, NEW j \in I, m[i] = m[j], i # j
                 PROVE  FALSE
      BY Zenon
    <2>1. /\ i \in DOMAIN registry /\ registry[i].asset = a /\ m[i] = Place(registry[i])
          /\ j \in DOMAIN registry /\ registry[j].asset = a /\ m[j] = Place(registry[j])
      BY <1>2, Zenon
    <2>2. Lower[registry[i].address] = Lower[registry[j].address]
      BY <2>1 DEF Place
    <2>3. ~SamePair(registry[i], registry[j])
      BY <1>1, <2>1, Zenon
    <2> QED
      BY <2>1, <2>2, <2>3, Zenon DEF SamePair
  <1>7. ASSUME NEW i \in I PROVE f[i] \in Int /\ holdings[m[i]] = f[i]
    <2>1. f[i] = holdings[Place(registry[i])] /\ m[i] = Place(registry[i])
          /\ holdings[Place(registry[i])] \in Nat
      BY <1>3, <1>4, Zenon
    <2> QED
      BY <2>1
  <1>8. Actual(a) = SumFunctionOnSet(f, I)
    <2>1. {i \in DOMAIN actuals : actuals[i].asset = a} = I
      BY <1>2, <1>3, Zenon
    <2>2. [i \in DOMAIN actuals |-> actuals[i].actual] = f
      BY <1>2, Zenon
    <2> HIDE DEF f, I
    <2> QED
      BY <2>1, <2>2, Zenon DEF Actual
  <1>9. Held(a) = SumFunctionOnSet(holdings, H)
    BY Zenon DEF Held
  <1> HIDE DEF f, m, I, H, D
  <1>10. SumFunctionOnSet(holdings, ImageOf(m, I)) = SumFunctionOnSet(f, I)
    BY ONLY <1>4, <1>6, <1>7, SumImage, SMT
  <1> QED
    BY <1>5, <1>8, <1>9, <1>10, Zenon

(***************************************************************************)
(* TrueExit of every behaviour, while the sink settles, reverses and posts *)
(* again and payments move money into and out of any account: exit 0 means *)
(* that the places listed hold the amount of the rows that counted         *)
(* throughout and of some that moved, and when none moved, holding that    *)
(* amount is enough for exit 0.                                            *)
(***************************************************************************)
THEOREM TrueExitHolds == Spec => TrueExit
<1> DEFINE Honest == BuildReport /\ ~shifted
                        => /\ exit' = ExitClean => \A a \in Asset : Backed(a)
                           /\ moved = {} /\ (\A a \in Asset : Backed(a)) => exit' = ExitClean
<1>1. RInv /\ CountedOnce => Honest
  <2> SUFFICES ASSUME RInv, CountedOnce, BuildReport, ~shifted
               PROVE  /\ exit' = ExitClean => \A a \in Asset : Backed(a)
                      /\ moved = {} /\ (\A a \in Asset : Backed(a)) => exit' = ExitClean
    BY Zenon
  <2>1. /\ Types /\ ReportInv
        /\ pc = "balances" /\ Running
        /\ Len(actuals) = Len(registry)
        /\ exit' = reconcileExitCode
    BY DEF RInv, ScanInv, BuildReport, Quit, Running
  <2>2. exit' = ExitClean <=> Clean
    BY <2>1 DEF reconcileExitCode, ExitClean, ExitDiscrepancy
  <2> DEFINE still == {t \in Tx \ moved : Counts(t)}
  <2>3. ASSUME NEW a \in Asset
        PROVE  /\ Actual(a) >= Owed(a)
               /\ Discrepancy(a) = 0 <=> Held(a) = sums[a].finalized + sums[a].confirmed
               /\ \E extra \in SUBSET moved :
                      sums[a].finalized + sums[a].confirmed = Total(still \cup extra, a)
    <3>1. Actual(a) = Held(a) /\ Actual(a) \in Nat /\ Actual(a) >= Owed(a)
      BY <2>1, ActualIsHeld, ReadCovers, Zenon
    <3>2. sums[a].finalized \in Int /\ sums[a].confirmed \in Int
      BY <2>1 DEF Types
    <3>3. Discrepancy(a) = 0 <=> Held(a) = sums[a].finalized + sums[a].confirmed
      BY <3>1, <3>2 DEF Discrepancy
    <3>4. \E extra \in SUBSET moved :
             sums[a].finalized + sums[a].confirmed = Total(still \cup extra, a)
      BY <2>1, Zenon DEF CountedOnce
    <3> QED
      BY <3>1, <3>3, <3>4, Zenon
  <2>4. ASSUME exit' = ExitClean, NEW a \in Asset PROVE Backed(a)
    BY <2>2, <2>3, <2>4, Zenon DEF Clean, Backed
  <2>5. ASSUME moved = {}, NEW a \in Asset, Backed(a) PROVE Discrepancy(a) = 0
    <3>1. \A extra \in SUBSET moved : extra = {}
      BY <2>5, Zenon
    <3> HIDE DEF still
    <3>2. Held(a) = Total(still \cup {}, a)
      BY <2>5, <3>1, Zenon DEF Backed, still
    <3>3. sums[a].finalized + sums[a].confirmed = Total(still \cup {}, a)
      BY <2>3, <3>1, Zenon
    <3> QED
      BY <2>3, <3>2, <3>3, Zenon
  <2> QED
    BY <2>2, <2>3, <2>4, <2>5, Zenon DEF Clean
<1>2. RInv /\ CountedOnce /\ [Next]_vars => [Honest]_vars
  BY <1>1, Zenon
<1>3. Spec => [][Honest]_vars
  BY <1>2, RunInvariance, CountedOnceHolds, PTL DEF Spec
<1> QED
  BY <1>3, Zenon DEF TrueExit

\* BuildReport finds no asset UNDERCOLLATERALIZED.
AlwaysCollateralized ==
    [][BuildReport => \A a \in Asset : Actual(a) >= Owed(a)]_vars

(***************************************************************************)
(* The verdict is always OK, whatever the treasuries hold and however the  *)
(* ledger moves during a run: from balances that are not below 0 no posting*)
(* leads to one that is, so the sum that reconcileReport negates to get the*)
(* liabilities of an asset is not below 0 either.                          *)
(***************************************************************************)
THEOREM VerdictAlwaysOK == Spec => AlwaysCollateralized
<1> DEFINE Covers == BuildReport => \A a \in Asset : Actual(a) >= Owed(a)
<1>1. RInv => Covers
  <2>1. RInv /\ BuildReport => Types /\ ReportInv /\ Running
    BY DEF RInv, ScanInv, BuildReport, Running
  <2> QED
    BY <2>1, ReadCovers, Zenon
<1>2. RInv /\ [Next]_vars => [Covers]_vars
  BY <1>1, Zenon
<1>3. Spec => [][Covers]_vars
  BY <1>2, RunInvariance, PTL DEF Spec
<1> QED
  BY <1>3, Zenon DEF AlwaysCollateralized
=============================================================================
