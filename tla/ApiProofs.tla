----------------------------- MODULE ApiProofs ------------------------------
(***************************************************************************)
(* What the payments behind POST /v1/payments guarantee, for any requests, *)
(* keys, accounts, cancellations, faults and expiries.  IBase is the part  *)
(* of the invariant that every theorem about the API rests on; the room    *)
(* under a key, what the answers know, the books and the position of a     *)
(* client in the list each add a part of their own.                        *)
(***************************************************************************)
EXTENDS Api, Sums, TLAPS

Codes == {201, 400, 409, 422, 500}
Labels == {"idle", "load", "handler", "complete", "release", "done", "gone"}

Types ==
    /\ payments \in [Attempt -> {"none", "completed", "canceled"}]
    /\ cancelling \in [Canceller -> Attempt \cup {NoPayment}]
    /\ keys \in [Key -> KeyRow]
    /\ lapses \in [Key -> Nat]
    /\ pc \in [Attempt -> Labels]
    /\ answer \in [Attempt -> [code : Codes, payment : Attempt \cup {NoPayment}] \cup {NoAnswer}]

\* A request that is about to be completed has made its payment, which it
\* announces.
Announced ==
    \A a \in Attempt : pc[a] = "complete" =>
        a \in Existing /\ answer[a] = [code |-> 201, payment |-> a]

\* Nobody has a payment before the handler has run.
NotYet == \A a \in Attempt : pc[a] \in {"idle", "load", "handler"} => payments[a] = "none"

IBase == Types /\ Announced /\ NotYet

\* The initial state has the types.
LEMMA InitBase == Init => IBase
  BY ApiAssumption
  DEF Init, PaymentsInit, KeysInit, IBase, Types, Announced, NotYet, NoRow, KeyRow, Labels

\* Updating two fields of a row.
LEMMA RowUpdate ==
  ASSUME NEW S, NEW H, NEW A, NEW row \in [status : S, hash : H, answer : A, expired : BOOLEAN],
         NEW st \in S, NEW v \in A
  PROVE  [row EXCEPT !.status = st, !.answer = v]
            \in [status : S, hash : H, answer : A, expired : BOOLEAN]
  BY Zenon

\* What the statements on the key table write has the type of the table.
LEMMA KeyTypes ==
  ASSUME Types, NEW k \in Key
  PROVE  /\ \A b \in Attempt : InsertIdempotencyKey(k, BodyOf[b]) => keys' \in [Key -> KeyRow]
         /\ \A b \in Attempt : CompleteIdempotencyKey(k, [code |-> 201, payment |-> b])
                              => keys' \in [Key -> KeyRow]
         /\ DeleteIdempotencyKey(k) => keys' \in [Key -> KeyRow]
         /\ SweepExpired => keys' \in [Key -> KeyRow]
         /\ Expire(k) => keys' \in [Key -> KeyRow]
  <1>0. NoRow \in KeyRow
    BY Zenon DEF NoRow, KeyRow
  <1>1. ASSUME NEW b \in Attempt, InsertIdempotencyKey(k, BodyOf[b])
        PROVE  keys' \in [Key -> KeyRow]
    <2>1. [NoRow EXCEPT !.status = "in_flight", !.hash = BodyOf[b]] \in KeyRow
      BY Zenon DEF NoRow, KeyRow
    <2> QED BY <1>1, <2>1, Zenon DEF InsertIdempotencyKey, Types
  <1>2. ASSUME NEW b \in Attempt, CompleteIdempotencyKey(k, [code |-> 201, payment |-> b])
        PROVE  keys' \in [Key -> KeyRow]
    <2>0. keys[k] \in KeyRow
      BY Zenon DEF Types
    <2> DEFINE v == [code |-> 201, payment |-> b]
    <2>1. v \in [code : {201}, payment : Attempt] \cup {NoAnswer}
      BY Zenon
    <2> HIDE DEF v
    <2>2. [keys[k] EXCEPT !.status = "completed", !.answer = v] \in KeyRow
      <3> DEFINE S == {"absent", "in_flight", "completed"}
                 H == {BodyOf[c] : c \in Attempt} \cup {NoAnswer}
                 A == [code : {201}, payment : Attempt] \cup {NoAnswer}
                 R == [status : S, hash : H, answer : A, expired : BOOLEAN]
      <3>1. KeyRow = R /\ v \in A /\ "completed" \in S
        BY <2>1, Zenon DEF KeyRow
      <3> HIDE DEF S, H, A
      <3>2. \A row \in R, st \in S, w \in A : [row EXCEPT !.status = st, !.answer = w] \in R
        BY ONLY RowUpdate, Zenon
      <3> HIDE DEF R
      <3> QED BY ONLY <2>0, <3>1, <3>2, Zenon
    <2> QED BY <1>2, <2>2, Zenon DEF CompleteIdempotencyKey, Types, v
  <1>3. ASSUME Expire(k) PROVE keys' \in [Key -> KeyRow]
    <2>0. keys[k] \in KeyRow
      BY Zenon DEF Types
    <2>1. [keys[k] EXCEPT !.expired = TRUE] \in KeyRow
      BY <2>0, Zenon DEF KeyRow
    <2> QED BY <1>3, <2>1, Zenon DEF Expire, Types
  <1> QED
    BY <1>0, <1>1, <1>2, <1>3, Zenon DEF Types, DeleteIdempotencyKey, SweepExpired

\* The steps of a request in the middleware that touch neither payments nor
\* keys.
LEMMA BaseQuiet ==
  ASSUME IBase, NEW a \in Attempt,
         BeginTaken(a) \/ Replay(a) \/ LoadFails(a) \/ HandleInvalid(a) \/ HandleRefused(a)
           \/ CompleteFails(a) \/ ReleaseFails(a)
  PROVE  IBase'
  <1> USE ApiAssumption, PaymentsAssumption
      DEF IBase, Types, Labels, Codes, KeyRow, Announced, NotYet, Goto, Error, Respond, Existing,
          paymentVars, keyVars
  <1>1. CASE BeginTaken(a) BY <1>1 DEF BeginTaken
  <1>2. CASE Replay(a)
    <2>1. keys[KeyOf[a]].answer \in [code : {201}, payment : Attempt] \cup {NoAnswer}
      OBVIOUS
    <2>2. answer' \in [Attempt -> [code : Codes, payment : Attempt \cup {NoPayment}] \cup {NoAnswer}]
      <3>1. keys[KeyOf[a]].answer \in [code : Codes, payment : Attempt \cup {NoPayment}] \cup {NoAnswer}
        BY <2>1
      <3> QED BY <1>2, <3>1 DEF Replay
    <2> QED BY <1>2, <2>2 DEF Replay
  <1>3. CASE LoadFails(a) BY <1>3 DEF LoadFails
  <1>4. CASE HandleInvalid(a) BY <1>4 DEF HandleInvalid
  <1>5. CASE HandleRefused(a) BY <1>5 DEF HandleRefused
  <1>6. CASE CompleteFails(a) BY <1>6 DEF CompleteFails
  <1>7. CASE ReleaseFails(a) BY <1>7 DEF ReleaseFails
  <1> QED BY <1>1, <1>2, <1>3, <1>4, <1>5, <1>6, <1>7, Zenon

\* The steps of a request that write the key table or make the payment.
LEMMA BaseWrites ==
  ASSUME IBase, NEW a \in Attempt,
         BeginFresh(a) \/ BeginFails(a) \/ HandleCreate(a) \/ HandleFails(a) \/ Complete(a)
           \/ Release(a)
  PROVE  IBase'
  <1> USE ApiAssumption, PaymentsAssumption
      DEF IBase, Types, Labels, Codes, KeyRow, Announced, NotYet, Goto, Error, Respond, Existing,
          paymentVars, keyVars
  <1>1. CASE BeginFresh(a) BY <1>1, KeyTypes DEF BeginFresh
  <1>2. CASE BeginFails(a) BY <1>2, KeyTypes DEF BeginFails
  <1>3. CASE HandleCreate(a) BY <1>3 DEF HandleCreate, Create
  <1>4. CASE HandleFails(a)
    <2>1. CASE Create(a) BY <1>4, <2>1 DEF HandleFails, Create
    <2>2. CASE UNCHANGED <<ledgerVars, paymentVars>> BY <1>4, <2>2 DEF HandleFails
    <2> QED BY <1>4, <2>1, <2>2, Zenon DEF HandleFails
  <1>5. CASE Complete(a) BY <1>5, KeyTypes DEF Complete
  <1>6. CASE Release(a) BY <1>6, KeyTypes DEF Release
  <1> QED BY <1>1, <1>2, <1>3, <1>4, <1>5, <1>6, Zenon

\* A step that moves no request, payment or cancellation.
LEMMA BaseKept ==
  ASSUME IBase, UNCHANGED <<payments, cancelling, pc, answer>>,
         keys' \in [Key -> KeyRow], lapses' \in [Key -> Nat]
  PROVE  IBase'
  <1>1. Existing' = Existing
    BY Zenon DEF Existing
  <1>2. Types'
    BY Zenon DEF IBase, Types
  <1>3. Announced' /\ NotYet'
    BY <1>1, Zenon DEF IBase, Announced, NotYet
  <1> QED BY <1>2, <1>3, Zenon DEF IBase

\* Cancelling and listing.
LEMMA BaseCancelling ==
  ASSUME IBase, Cancelling
  PROVE  IBase'
  <1> USE ApiAssumption, PaymentsAssumption
      DEF IBase, Types, Labels, Codes, KeyRow, Announced, NotYet, Existing, paymentVars, keyVars,
          apiVars
  <1>1. ASSUME NEW c \in Canceller, NEW p \in Attempt, CancelRead(c, p) PROVE IBase'
    BY <1>1 DEF Cancelling, CancelRead
  <1>2. ASSUME NEW c \in Canceller, CancelCommit(c) PROVE IBase'
    BY <1>2 DEF Cancelling, CancelCommit
  <1>3. ASSUME NEW c \in Canceller, CancelRollback(c) PROVE IBase'
    BY <1>3 DEF Cancelling, CancelRollback
  <1>4. ASSUME List PROVE IBase'
    BY <1>4 DEF Cancelling, List
  <1> QED BY <1>1, <1>2, <1>3, <1>4 DEF Cancelling, PaymentsNext

\* The steps around the requests.
LEMMA BaseWorld ==
  ASSUME IBase, Crash \/ OtherPosting \/ Cancelling \/ Age \/ Sweep \/ UNCHANGED vars
  PROVE  IBase'
  <1>0. Types
    BY Zenon DEF IBase
  <1>1. CASE Crash
    BY <1>1 DEF Crash, Running, IBase, Types, Labels, Announced, NotYet, Existing, paymentVars, keyVars
  <1>2. CASE OtherPosting \/ UNCHANGED vars
    <2>1. UNCHANGED <<payments, cancelling, keys, lapses, pc, answer>>
      BY <1>2, Zenon DEF OtherPosting, vars, paymentVars, keyVars, apiVars
    <2>2. keys' \in [Key -> KeyRow] /\ lapses' \in [Key -> Nat]
      BY <1>0, <2>1, Zenon DEF Types
    <2> QED BY <2>1, <2>2, BaseKept, Zenon
  <1>4. CASE Age
    <2>1. PICK k \in Aging : Expire(k) /\ UNCHANGED <<ledgerVars, paymentVars, apiVars>>
      BY <1>4, Zenon DEF Age
    <2>2. keys' \in [Key -> KeyRow]
      BY <1>0, <2>1, KeyTypes, ApiAssumption, Zenon
    <2>3. UNCHANGED <<payments, cancelling, lapses, pc, answer>>
      BY <2>1, Zenon DEF Expire, paymentVars, apiVars
    <2>4. lapses' \in [Key -> Nat]
      BY <1>0, <2>3, Zenon DEF Types
    <2> QED BY <2>2, <2>3, <2>4, BaseKept, Zenon
  <1>5. CASE Sweep
    <2>1. SweepExpired /\ UNCHANGED <<payments, cancelling, pc, answer>>
      BY <1>5, Zenon DEF Sweep, paymentVars, apiVars
    <2>2. lapses' \in [Key -> Nat]
      BY <1>0, <2>1 DEF SweepExpired, Types
    <2>3. PICK k \in Key : TRUE
      BY <2>1, Zenon DEF SweepExpired
    <2>4. keys' \in [Key -> KeyRow]
      BY <1>0, <2>1, <2>3, KeyTypes, Zenon
    <2> QED BY <2>1, <2>2, <2>4, BaseKept, Zenon
  <1> QED BY <1>1, <1>2, <1>4, <1>5, BaseCancelling, Zenon

LEMMA BaseStep == IBase /\ [Next]_vars => IBase'
  BY BaseQuiet, BaseWrites, BaseWorld, Zenon DEF Next, Step, Failure

(***************************************************************************)
(* Payments and books.                                                     *)
(***************************************************************************)

\* Entries of different payments, and a payment's entry and its reversal,
\* differ.
LEMMA EntriesDiffer ==
  ASSUME NEW p, NEW q
  PROVE  /\ PaymentEntry(p) = PaymentEntry(q) => p = q
         /\ ReversalEntry(p) = ReversalEntry(q) => p = q
         /\ PaymentEntry(p) # ReversalEntry(q)
  BY Zenon DEF PaymentEntry, ReversalEntry

\* Creating a payment writes its own books, and nobody else's.
LEMMA CreateBooks ==
  ASSUME Types, BooksMatch, NEW a \in Attempt, payments[a] = "none", Create(a)
  PROVE  BooksMatch'
  BY EntriesDiffer, Zenon DEF Types, BooksMatch, Create, PostWithin

\* So does cancelling it.
LEMMA CancelBooks ==
  ASSUME Types, BooksMatch, NEW c \in Canceller, CancelCommit(c)
  PROVE  BooksMatch'
  <1>1. cancelling[c] \in Attempt
    BY Zenon DEF Types, CancelCommit
  <1> QED BY <1>1, EntriesDiffer, Zenon DEF Types, BooksMatch, CancelCommit, PostWithin

\* Every step keeps payments and books together.
LEMMA BooksStep == IBase /\ BooksMatch /\ [Next]_vars => BooksMatch'
  <1> SUFFICES ASSUME IBase, BooksMatch, [Next]_vars PROVE BooksMatch'
    BY Zenon
  <1>0. Types /\ NotYet
    BY Zenon DEF IBase
  <1>1. ASSUME UNCHANGED <<payments, journal, facts>> PROVE BooksMatch'
    BY <1>1, Zenon DEF BooksMatch, PaymentEntry, ReversalEntry
  <1>2. ASSUME NEW a \in Attempt, BeginFresh(a) \/ BeginTaken(a) \/ Step(a) \/ Failure(a)
        PROVE  BooksMatch'
    <2>1. ASSUME HandleCreate(a) PROVE BooksMatch'
      BY <1>0, <2>1, CreateBooks, Zenon DEF HandleCreate, NotYet
    <2>2. ASSUME HandleFails(a) PROVE BooksMatch'
      BY <1>0, <1>1, <2>2, CreateBooks, Zenon DEF HandleFails, NotYet, ledgerVars, paymentVars
    <2>3. ASSUME BeginFresh(a) \/ BeginTaken(a) \/ Replay(a) \/ HandleInvalid(a)
                   \/ HandleRefused(a) \/ Complete(a) \/ Release(a) \/ BeginFails(a)
                   \/ LoadFails(a) \/ CompleteFails(a) \/ ReleaseFails(a)
          PROVE  UNCHANGED <<payments, journal, facts>>
      BY <2>3, Zenon
      DEF BeginFresh, BeginTaken, Replay, HandleInvalid, HandleRefused, Complete, Release,
          BeginFails, LoadFails, CompleteFails, ReleaseFails, ledgerVars, paymentVars
    <2> QED BY <1>1, <1>2, <2>1, <2>2, <2>3, Zenon DEF Step, Failure
  <1>3. CASE OtherPosting
    <2>1. PICK e \in Others : PostWithin(e)
      BY <1>3, Zenon DEF OtherPosting
    <2>2. \A p \in Attempt : e # PaymentEntry(p) /\ e # ReversalEntry(p)
      BY ApiAssumption DEF PaymentEntry, ReversalEntry
    <2> QED
      BY <1>3, <2>1, <2>2, Zenon DEF OtherPosting, PostWithin, BooksMatch, paymentVars
  <1>4. CASE Cancelling
    <2>1. ASSUME NEW c \in Canceller, NEW p \in Attempt, CancelRead(c, p) PROVE BooksMatch'
      BY <1>1, <2>1, Zenon DEF CancelRead, ledgerVars
    <2>2. ASSUME List PROVE BooksMatch'
      BY <1>1, <2>2, Zenon DEF List, ledgerVars
    <2>3. ASSUME NEW c \in Canceller, CancelRollback(c) PROVE BooksMatch'
      BY <1>1, <2>3, Zenon DEF CancelRollback, ledgerVars
    <2> QED
      BY <1>0, <1>4, <2>1, <2>2, <2>3, CancelBooks, Zenon DEF Cancelling, PaymentsNext
  <1>5. CASE Crash \/ Age \/ Sweep \/ UNCHANGED vars
    BY <1>1, <1>5, Zenon DEF Crash, Age, Sweep, vars, ledgerVars, paymentVars
  <1> QED
    BY <1>2, <1>3, <1>4, <1>5, Zenon DEF Next

\* A payment has its entries and its events exactly as its status says.
THEOREM BooksMatchHolds == Spec => []BooksMatch
  <1>1. Init => BooksMatch
    BY Zenon DEF Init, PaymentsInit, BooksMatch
  <1> QED
    BY <1>1, InitBase, BaseStep, BooksStep, PTL DEF Spec

(***************************************************************************)
(* One payment per claim.  A slot of a key is a request that has made a    *)
(* payment under it, or may still make one, or may still free the key      *)
(* without having made one.  A key with s slots, forgotten l times, has    *)
(* s <= 1 + l, and s <= l when its row is absent: that is the room a new   *)
(* claim takes.                                                            *)
(***************************************************************************)
Slots(k) ==
    {a \in Attempt : /\ KeyOf[a] = k
                     /\ payments[a] # "none" \/ pc[a] \in {"handler", "release"}}

OneSlot == \A k \in Key : lapses[k] = 0 => \A a, b \in Slots(k) : a = b

Room(k) == Cardinality(Slots(k)) + (IF Present(k) THEN 0 ELSE 1) <= 1 + lapses[k]

IOnce == \A k \in Key : Room(k)

\* Slots are finitely many, before and after a step.
LEMMA SlotsFinite ==
  ASSUME NEW k
  PROVE  /\ IsFiniteSet(Slots(k)) /\ Cardinality(Slots(k)) \in Nat
         /\ IsFiniteSet(Slots(k)') /\ Cardinality(Slots(k)') \in Nat
  BY PaymentsAssumption, FS_Subset, FS_CardinalityType, Zenon DEF Slots

\* At first there is no slot.
LEMMA InitOnce == Init => IOnce
  <1> SUFFICES ASSUME Init, NEW k \in Key PROVE Room(k)
    BY Zenon DEF IOnce
  <1>1. Slots(k) = {}
    BY Zenon DEF Init, PaymentsInit, Slots
  <1> QED BY <1>1, FS_EmptySet DEF Init, KeysInit, Room

\* A step that gives a key no slot, and neither frees nor forgets it, keeps
\* its room.
LEMMA RoomKept ==
  ASSUME IBase, NEW k \in Key, Room(k),
         Slots(k)' \subseteq Slots(k), lapses'[k] = lapses[k], Present(k) => Present(k)'
  PROVE  Room(k)'
  <1>1. Cardinality(Slots(k)') <= Cardinality(Slots(k))
    BY SlotsFinite, FS_Subset, Zenon
  <1>2. lapses[k] \in Nat
    BY Zenon DEF IBase, Types
  <1> QED BY <1>1, <1>2, SlotsFinite DEF Room

\* Forgetting a key makes the room it frees.
LEMMA RoomForgotten ==
  ASSUME IBase, NEW k \in Key, Room(k),
         Slots(k)' \subseteq Slots(k), lapses'[k] = lapses[k] + 1
  PROVE  Room(k)'
  <1>1. Cardinality(Slots(k)') <= Cardinality(Slots(k))
    BY SlotsFinite, FS_Subset, Zenon
  <1>2. lapses[k] \in Nat
    BY Zenon DEF IBase, Types
  <1> QED BY <1>1, <1>2, SlotsFinite DEF Room

\* A claim takes the room of the absent row.
LEMMA RoomClaimed ==
  ASSUME IBase, NEW k \in Key, Room(k), NEW a \in Attempt,
         Slots(k)' \subseteq Slots(k) \cup {a}, lapses'[k] = lapses[k],
         ~Present(k), Present(k)'
  PROVE  Room(k)'
  <1>0. IsFiniteSet(Slots(k)) /\ Cardinality(Slots(k)) \in Nat
    BY SlotsFinite, Zenon
  <1>1. /\ IsFiniteSet(Slots(k) \cup {a})
        /\ Cardinality(Slots(k) \cup {a}) <= Cardinality(Slots(k)) + 1
    <2>1. /\ IsFiniteSet(Slots(k) \cup {a})
          /\ a \in Slots(k) => Cardinality(Slots(k) \cup {a}) = Cardinality(Slots(k))
          /\ a \notin Slots(k) => Cardinality(Slots(k) \cup {a}) = Cardinality(Slots(k)) + 1
      BY <1>0, FS_AddElement, Zenon
    <2> QED BY <1>0, <2>1
  <1>2. Cardinality(Slots(k)') <= Cardinality(Slots(k) \cup {a})
    BY <1>1, FS_Subset, Zenon
  <1>3. lapses[k] \in Nat
    BY Zenon DEF IBase, Types
  <1>4. Cardinality(Slots(k) \cup {a}) \in Nat
    BY <1>1, FS_CardinalityType, Zenon
  <1> QED BY <1>1, <1>2, <1>3, <1>4, SlotsFinite DEF Room

\* A release gives its own slot back.
LEMMA RoomReleased ==
  ASSUME IBase, NEW k \in Key, Room(k), NEW a \in Slots(k),
         Slots(k)' \subseteq Slots(k) \ {a}, lapses'[k] = lapses[k]
  PROVE  Room(k)'
  <1>1. /\ IsFiniteSet(Slots(k) \ {a})
        /\ Cardinality(Slots(k) \ {a}) = Cardinality(Slots(k)) - 1
    BY SlotsFinite, FS_RemoveElement, Zenon
  <1>2. Cardinality(Slots(k)') <= Cardinality(Slots(k) \ {a})
    BY <1>1, FS_Subset, Zenon
  <1>3. lapses[k] \in Nat
    BY Zenon DEF IBase, Types
  <1> QED BY <1>1, <1>2, <1>3, SlotsFinite DEF Room

\* Every step keeps the room of every key.
LEMMA OnceStep == IBase /\ IOnce /\ [Next]_vars => IOnce'
  <1> SUFFICES ASSUME IBase, IOnce, [Next]_vars, NEW k \in Key PROVE Room(k)'
    BY Zenon DEF IOnce
  <1>0. Room(k)
    BY Zenon DEF IOnce
  <1> USE ApiAssumption DEF IBase, Types, Goto, Slots, Present, paymentVars, keyVars
  <1>1. ASSUME NEW a \in Attempt,
               BeginTaken(a) \/ Replay(a) \/ LoadFails(a) \/ HandleInvalid(a)
                 \/ HandleRefused(a) \/ CompleteFails(a) \/ ReleaseFails(a)
        PROVE  Room(k)'
    <2>1. /\ UNCHANGED <<payments, keys, lapses>>
          /\ \A b \in Attempt : pc'[b] \in {"handler", "release"} => pc[b] \in {"handler", "release"}
      BY <1>1
      DEF BeginTaken, Replay, LoadFails, HandleInvalid, HandleRefused, CompleteFails, ReleaseFails
    <2> QED BY <1>0, <2>1, RoomKept, Zenon
  <1>2. ASSUME NEW a \in Attempt, BeginFresh(a) PROVE Room(k)'
    <2>1. CASE KeyOf[a] = k
      BY <1>0, <1>2, <2>1, RoomClaimed, Zenon DEF BeginFresh, InsertIdempotencyKey, NoRow
    <2>2. CASE KeyOf[a] # k
      BY <1>0, <1>2, <2>2, RoomKept, Zenon DEF BeginFresh, InsertIdempotencyKey
    <2> QED BY <2>1, <2>2, Zenon
  <1>3. ASSUME NEW a \in Attempt, BeginFails(a) PROVE Room(k)'
    BY <1>0, <1>3, RoomKept, Zenon DEF BeginFails, InsertIdempotencyKey, NoRow
  <1>4. ASSUME NEW a \in Attempt, HandleCreate(a) PROVE Room(k)'
    BY <1>0, <1>4, RoomKept, Zenon DEF HandleCreate, Create
  <1>5. ASSUME NEW a \in Attempt, HandleFails(a) PROVE Room(k)'
    <2>1. CASE Create(a) BY <1>0, <1>5, <2>1, RoomKept, Zenon DEF HandleFails, Create
    <2>2. CASE UNCHANGED <<ledgerVars, paymentVars>>
      BY <1>0, <1>5, <2>2, RoomKept, Zenon DEF HandleFails
    <2> QED BY <1>5, <2>1, <2>2, Zenon DEF HandleFails
  <1>6. ASSUME NEW a \in Attempt, Complete(a) PROVE Room(k)'
    BY <1>0, <1>6, RoomKept DEF Complete, CompleteIdempotencyKey
  <1>7. ASSUME NEW a \in Attempt, Release(a) PROVE Room(k)'
    <2>1. CASE KeyOf[a] # k
      BY <1>0, <1>7, <2>1, RoomKept, Zenon DEF Release, DeleteIdempotencyKey
    <2>2. CASE KeyOf[a] = k /\ a \notin Existing
      BY <1>0, <1>7, <2>2, RoomReleased, Zenon DEF Release, Existing
    <2>3. CASE KeyOf[a] = k /\ a \in Existing /\ Present(k)
      BY <1>0, <1>7, <2>3, RoomForgotten, Zenon DEF Release
    <2>4. CASE KeyOf[a] = k /\ a \in Existing /\ ~Present(k)
      BY <1>0, <1>7, <2>4, RoomKept, Zenon DEF Release
    <2> QED BY <2>1, <2>2, <2>3, <2>4, Zenon
  <1>8. CASE Crash
    BY <1>0, <1>8, RoomKept, Zenon DEF Crash, Running
  <1>9. CASE OtherPosting \/ UNCHANGED vars
    BY <1>0, <1>9, RoomKept, Zenon DEF OtherPosting, apiVars, vars
  <1>10. CASE Cancelling
    <2>1. /\ UNCHANGED <<keys, lapses, pc>>
          /\ \A a \in Attempt : payments'[a] # "none" => payments[a] # "none"
      BY <1>10, Zenon
      DEF Cancelling, PaymentsNext, CancelRead, CancelCommit, CancelRollback, List, apiVars
    <2> QED BY <1>0, <2>1, RoomKept, Zenon
  <1>11. CASE Age
    BY <1>0, <1>11, RoomKept DEF Age, Expire, apiVars
  <1>12. CASE Sweep
    <2>1. CASE keys[k].expired
      BY <1>0, <1>12, <2>1, RoomForgotten, Zenon DEF Sweep, SweepExpired, apiVars
    <2>2. CASE ~keys[k].expired
      BY <1>0, <1>12, <2>2, RoomKept, Zenon DEF Sweep, SweepExpired, apiVars
    <2> QED BY <2>1, <2>2, Zenon
  <1> QED
    BY <1>1, <1>2, <1>3, <1>4, <1>5, <1>6, <1>7, <1>8, <1>9, <1>10, <1>11, <1>12, Zenon
    DEF Next, Step, Failure

\* A key yields one payment per claim of it, whatever fails, crashes, expires
\* or races.
THEOREM OncePerClaimHolds == Spec => []OncePerClaim
  <1>1. IBase /\ IOnce => OncePerClaim
    <2> SUFFICES ASSUME IBase, IOnce, NEW k \in Key
                 PROVE  Cardinality(Under(k)) <= 1 + lapses[k]
      BY Zenon DEF OncePerClaim
    <2>1. Under(k) \in SUBSET Slots(k)
      BY Zenon DEF Under, Existing, Slots
    <2>2. Cardinality(Under(k)) <= Cardinality(Slots(k)) /\ IsFiniteSet(Under(k))
      BY <2>1, SlotsFinite, FS_Subset, Zenon
    <2>3. Cardinality(Under(k)) \in Nat /\ lapses[k] \in Nat /\ Room(k)
      BY <2>2, FS_CardinalityType, Zenon DEF IBase, Types, IOnce
    <2> QED BY <2>2, <2>3, SlotsFinite DEF Room
  <1> QED
    BY <1>1, InitBase, BaseStep, InitOnce, OnceStep, PTL DEF Spec

\* A key that was never forgotten has one slot at most.
LEMMA OnlyOneSlot == IBase /\ IOnce => OneSlot
  <1> SUFFICES ASSUME IBase, IOnce, NEW k \in Key, lapses[k] = 0, NEW a \in Slots(k), NEW b \in Slots(k)
               PROVE  a = b
    BY Zenon DEF OneSlot
  <1>1. Cardinality(Slots(k)) <= 1
    BY SlotsFinite DEF IOnce, Room, Present
  <1>2. Cardinality(Slots(k)) # 0
    BY SlotsFinite, FS_EmptySet, Zenon
  <1>3. Cardinality(Slots(k)) = 1
    BY <1>1, <1>2, SlotsFinite
  <1>4. PICK x : Slots(k) = {x}
    BY <1>3, SlotsFinite, FS_Singleton, Zenon
  <1> QED BY <1>4, Zenon

(***************************************************************************)
(* What clients are told.  While a key has never been forgotten it has one *)
(* slot at most, so the request that holds it still finds its own row, and *)
(* a completed row names the one payment of the key.                       *)
(***************************************************************************)
Sound(a) ==
    /\ answer[a].payment \in Existing
    /\ KeyOf[answer[a].payment] = KeyOf[a]
    /\ BodyOf[answer[a].payment] = BodyOf[a]

RowTrue(k) ==
    lapses[k] = 0 /\ keys[k].status = "completed" =>
        \E p \in Existing : /\ keys[k].answer = [code |-> 201, payment |-> p]
                            /\ KeyOf[p] = k
                            /\ BodyOf[p] = keys[k].hash

HolderTrue(a) ==
    lapses[KeyOf[a]] = 0 /\ pc[a] \in {"handler", "complete"} =>
        keys[KeyOf[a]].status = "in_flight" /\ keys[KeyOf[a]].hash = BodyOf[a]

ToldTrue(a) == lapses[KeyOf[a]] = 0 /\ pc[a] = "done" /\ answer[a].code = 201 => Sound(a)

RefusedTrue(a) ==
    /\ pc[a] \in {"release", "done"} /\ answer[a].code \in {400, 422} => a \notin Existing
    /\ pc[a] = "release" => answer[a].code # 201

ITruth ==
    /\ \A k \in Key : RowTrue(k)
    /\ \A a \in Attempt : HolderTrue(a)
    /\ \A a \in Attempt : ToldTrue(a)
    /\ \A a \in Attempt : RefusedTrue(a)

LEMMA InitTruth == Init => ITruth
  BY ApiAssumption
  DEF Init, PaymentsInit, KeysInit, NoRow, ITruth, RowTrue, HolderTrue, ToldTrue, RefusedTrue,
      Existing

\* A step that loses no payment and completes no row keeps a row true.
LEMMA RowKept ==
  ASSUME NEW k \in Key, RowTrue(k), Existing \subseteq Existing', lapses'[k] = 0 => lapses[k] = 0,
         keys'[k].status = "completed" => /\ keys[k].status = "completed"
                                         /\ keys'[k].answer = keys[k].answer
                                         /\ keys'[k].hash = keys[k].hash
  PROVE  RowTrue(k)'
  BY Zenon DEF RowTrue

\* A step that leaves a request's row alone and starts no handler keeps its
\* holder true.
LEMMA HolderKept ==
  ASSUME NEW a \in Attempt, HolderTrue(a),
         lapses'[KeyOf[a]] = 0 =>
            lapses[KeyOf[a]] = 0 /\ keys'[KeyOf[a]] = keys[KeyOf[a]],
         pc'[a] \in {"handler", "complete"} => pc[a] \in {"handler", "complete"}
  PROVE  HolderTrue(a)'
  BY Zenon DEF HolderTrue

\* A step that loses no payment keeps what a client was told true.
LEMMA ToldKept ==
  ASSUME NEW a \in Attempt, ToldTrue(a), Existing \subseteq Existing',
         lapses'[KeyOf[a]] = 0 => lapses[KeyOf[a]] = 0,
         pc'[a] = "done" /\ answer'[a].code = 201 => pc[a] = "done" /\ answer'[a] = answer[a]
  PROVE  ToldTrue(a)'
  BY DEF ToldTrue, Sound

\* No step loses a payment, or forgets that a key was forgotten.
LEMMA Monotone ==
  ASSUME IBase, [Next]_vars
  PROVE  Existing \subseteq Existing' /\ \A k \in Key : lapses'[k] = 0 => lapses[k] = 0
  <1> USE ApiAssumption
      DEF IBase, Types, Existing, paymentVars, keyVars, apiVars
  <1>1. ASSUME NEW a \in Attempt,
               BeginFresh(a) \/ BeginTaken(a) \/ Replay(a) \/ HandleInvalid(a)
                 \/ HandleRefused(a) \/ Complete(a) \/ BeginFails(a) \/ LoadFails(a)
                 \/ CompleteFails(a) \/ ReleaseFails(a)
        PROVE  UNCHANGED <<payments, lapses>>
    BY <1>1
    DEF BeginFresh, BeginTaken, Replay, HandleInvalid, HandleRefused, Complete, BeginFails,
        LoadFails, CompleteFails, ReleaseFails
  <1>2. ASSUME NEW a \in Attempt, HandleCreate(a) \/ HandleFails(a)
        PROVE  Existing \subseteq Existing' /\ UNCHANGED lapses
    BY <1>2, Zenon DEF HandleCreate, HandleFails, Create
  <1>3. ASSUME NEW a \in Attempt, Release(a)
        PROVE  UNCHANGED payments /\ \A k \in Key : lapses'[k] = 0 => lapses[k] = 0
    BY <1>3 DEF Release
  <1>4. CASE Crash \/ OtherPosting \/ Age \/ UNCHANGED vars
    BY <1>4, Zenon DEF Crash, OtherPosting, Age, Expire, vars
  <1>5. CASE Cancelling
    BY <1>5, Zenon DEF Cancelling, PaymentsNext, CancelRead, CancelCommit, CancelRollback, List
  <1>6. CASE Sweep
    BY <1>6 DEF Sweep, SweepExpired
  <1> QED
    BY <1>1, <1>2, <1>3, <1>4, <1>5, <1>6, Zenon DEF Next, Step, Failure

\* A step that touches neither payments nor keys keeps the answers true when
\* the requests it moves end, or are told the truth.
LEMMA TruthQuiet ==
  ASSUME ITruth, Existing' = Existing, UNCHANGED <<keys, lapses>>,
         \A b \in Attempt :
            \/ pc'[b] = pc[b] /\ answer'[b] = answer[b]
            \/ pc'[b] \in {"load", "gone"}
            \/ /\ pc'[b] \in {"release", "done"}
               /\ answer'[b].code # 201
               /\ answer'[b].code \in {400, 422} => b \notin Existing
            \/ /\ pc'[b] = "done"
               /\ answer'[b].code = 201
               /\ lapses[KeyOf[b]] = 0 => Sound(b)'
  PROVE  ITruth'
  <1>1. \A k \in Key : RowTrue(k)'
    BY DEF ITruth, RowTrue
  <1>2. ASSUME NEW b \in Attempt PROVE HolderTrue(b)'
    BY <1>2 DEF ITruth, HolderTrue
  <1>3. ASSUME NEW b \in Attempt PROVE ToldTrue(b)'
    <2>1. CASE pc'[b] = pc[b] /\ answer'[b] = answer[b]
      BY <2>1 DEF ITruth, ToldTrue, Sound
    <2> QED BY <2>1, Zenon DEF ToldTrue
  <1>4. ASSUME NEW b \in Attempt PROVE RefusedTrue(b)'
    BY <1>4 DEF ITruth, RefusedTrue
  <1> QED BY <1>1, <1>2, <1>3, <1>4, Zenon DEF ITruth

\* The steps of a request in the middleware that touch neither payments nor
\* keys.
LEMMA TruthMiddleware ==
  ASSUME IBase, ITruth, NEW a \in Attempt,
         BeginTaken(a) \/ Replay(a) \/ LoadFails(a) \/ HandleInvalid(a) \/ HandleRefused(a)
           \/ CompleteFails(a) \/ ReleaseFails(a)
  PROVE  ITruth'
  <1>1. /\ UNCHANGED <<payments, keys, lapses>>
        /\ \A b \in Attempt : b # a => pc'[b] = pc[b] /\ answer'[b] = answer[b]
    BY DEF IBase, Types, BeginTaken, Replay, LoadFails, HandleInvalid, HandleRefused,
           CompleteFails, ReleaseFails, Goto, Error, Respond, paymentVars, keyVars
  <1>2. Existing' = Existing
    BY <1>1, Zenon DEF Existing
  <1>3. pc \in [Attempt -> Labels] /\ DOMAIN answer = Attempt /\ KeyOf[a] \in Key
    BY ApiAssumption, Zenon DEF IBase, Types
  <1> USE DEF Goto, Error, Respond
  <1>4. CASE BeginTaken(a)
    <2>1. pc'[a] = "load"
      BY <1>3, <1>4, Zenon DEF BeginTaken
    <2> QED BY <1>1, <1>2, <2>1, TruthQuiet
  <1>5. CASE LoadFails(a)
    <2>1. pc'[a] = "done" /\ answer'[a].code = 500
      BY <1>3, <1>5, Zenon DEF LoadFails
    <2> QED BY <1>1, <1>2, <2>1, TruthQuiet
  <1>6. CASE HandleInvalid(a) \/ HandleRefused(a)
    <2>1. pc[a] = "handler" /\ pc'[a] = "release" /\ answer'[a].code \in {400, 422}
      BY <1>3, <1>6 DEF HandleInvalid, HandleRefused
    <2>2. a \notin Existing
      BY <2>1, Zenon DEF IBase, NotYet, Existing
    <2> QED BY <1>1, <1>2, <2>1, <2>2, TruthQuiet
  <1>7. CASE ReleaseFails(a)
    <2>1. pc[a] = "release" /\ pc'[a] = "done" /\ answer'[a] = answer[a]
      BY <1>3, <1>7, Zenon DEF ReleaseFails
    <2>2. answer[a].code # 201 /\ (answer[a].code \in {400, 422} => a \notin Existing)
      BY ONLY ITruth, a \in Attempt, <2>1, Zenon DEF ITruth, RefusedTrue
    <2> QED BY <1>1, <1>2, <2>1, <2>2, TruthQuiet
  <1>8. CASE CompleteFails(a)
    <2>1. pc[a] = "complete" /\ pc'[a] = "done" /\ answer'[a] = answer[a]
      BY <1>3, <1>8, Zenon DEF CompleteFails
    <2>2. a \in Existing /\ answer[a] = [code |-> 201, payment |-> a]
      BY <2>1, Zenon DEF IBase, Announced
    <2>3. Sound(a)'
      BY <1>2, <2>1, <2>2 DEF Sound
    <2> QED BY <1>1, <1>2, <2>1, <2>2, <2>3, TruthQuiet
  <1>9. CASE Replay(a)
    <2>0. pc[a] = "load" /\ pc'[a] = "done"
      BY <1>3, <1>9, Zenon DEF Replay
    <2>1. pc'[a] = "done" /\ a \notin Existing
      BY <2>0, Zenon DEF IBase, NotYet, Existing
    <2>2. CASE answer'[a].code \in {409, 422, 500}
      BY <1>1, <1>2, <2>1, <2>2, TruthQuiet
    <2>3. CASE /\ keys[KeyOf[a]].status = "completed" /\ keys[KeyOf[a]].hash = BodyOf[a]
               /\ answer'[a] = keys[KeyOf[a]].answer
      <3>1. CASE lapses[KeyOf[a]] = 0
        <4>1. PICK p \in Existing : /\ keys[KeyOf[a]].answer = [code |-> 201, payment |-> p]
                                   /\ KeyOf[p] = KeyOf[a] /\ BodyOf[p] = keys[KeyOf[a]].hash
          <5>1. RowTrue(KeyOf[a])
            BY <1>3, Zenon DEF ITruth
          <5> QED BY <2>3, <3>1, <5>1, Zenon DEF RowTrue
        <4>2. Sound(a)' /\ answer'[a].code = 201
          <5>1. answer'[a] = [code |-> 201, payment |-> p]
            BY ONLY <2>3, <4>1, Zenon
          <5>2. answer'[a].code = 201 /\ answer'[a].payment = p
            BY ONLY <5>1
          <5> QED BY ONLY <1>2, <2>3, <4>1, <5>2, Zenon DEF Sound
        <4> QED BY <1>1, <1>2, <2>1, <4>2, TruthQuiet
      <3>2. CASE lapses[KeyOf[a]] # 0
        BY <1>1, <1>2, <2>1, <3>2, TruthQuiet
      <3> QED BY <3>1, <3>2, Zenon
    <2>4. keys[KeyOf[a]].status \in {"absent", "in_flight", "completed"}
      BY <1>3, Zenon DEF IBase, Types, KeyRow
    <2> QED BY <1>3, <1>9, <2>2, <2>3, <2>4 DEF Replay
  <1> QED BY <1>4, <1>5, <1>6, <1>7, <1>8, <1>9, Zenon

\* Every step keeps the answers true.
LEMMA TruthStep == IBase /\ OneSlot /\ ITruth /\ [Next]_vars => ITruth'
  <1> SUFFICES ASSUME IBase, OneSlot, ITruth, [Next]_vars PROVE ITruth'
    BY Zenon
  <1>0. /\ Types /\ Announced /\ NotYet
        /\ Existing \subseteq Existing' /\ \A k \in Key : lapses'[k] = 0 => lapses[k] = 0
    BY Monotone, Zenon DEF IBase
  <1> USE <1>0, ApiAssumption, PaymentsAssumption
      DEF ITruth, Types, Labels, Goto, Error, Respond, paymentVars, keyVars
  <1>1. ASSUME NEW a \in Attempt,
               BeginTaken(a) \/ Replay(a) \/ LoadFails(a) \/ HandleInvalid(a)
                 \/ HandleRefused(a) \/ CompleteFails(a) \/ ReleaseFails(a)
        PROVE  ITruth'
    BY <1>1, TruthMiddleware, Zenon
  <1>2. ASSUME NEW a \in Attempt, BeginFresh(a) PROVE ITruth'
    <2>1. \A k \in Key : RowTrue(k)'
      BY <1>2, RowKept, Zenon DEF BeginFresh, InsertIdempotencyKey, NoRow, Present
    <2>2. \A b \in Attempt : HolderTrue(b)'
      BY <1>2 DEF BeginFresh, InsertIdempotencyKey, NoRow, Present, HolderTrue
    <2>3. \A b \in Attempt : ToldTrue(b)'
      BY <1>2, ToldKept, Zenon DEF BeginFresh, InsertIdempotencyKey, NoRow, Present
    <2>4. \A b \in Attempt : RefusedTrue(b)'
      BY <1>2 DEF BeginFresh, InsertIdempotencyKey, NoRow, Present, RefusedTrue, Existing
    <2> QED BY <2>1, <2>2, <2>3, <2>4, Zenon
  <1>3. ASSUME NEW a \in Attempt, BeginFails(a) PROVE ITruth'
    <2>1. \A k \in Key : RowTrue(k)'
      <3>1. CASE InsertIdempotencyKey(KeyOf[a], BodyOf[a])
        BY <1>3, <3>1, RowKept, Zenon DEF BeginFails, InsertIdempotencyKey, NoRow
      <3>2. CASE UNCHANGED keys
        BY <1>3, <3>2, RowKept, Zenon DEF BeginFails
      <3> QED BY <1>3, <3>1, <3>2, Zenon DEF BeginFails
    <2>2. \A b \in Attempt : HolderTrue(b)'
      BY <1>3 DEF BeginFails, InsertIdempotencyKey, NoRow, Present, HolderTrue
    <2>3. \A b \in Attempt : ToldTrue(b)'
      BY <1>3, ToldKept DEF BeginFails, InsertIdempotencyKey, NoRow, Present
    <2>4. \A b \in Attempt : RefusedTrue(b)'
      BY <1>3 DEF BeginFails, InsertIdempotencyKey, NoRow, Present, RefusedTrue, Existing
    <2> QED BY <2>1, <2>2, <2>3, <2>4, Zenon
  <1>4. ASSUME NEW a \in Attempt, HandleCreate(a) PROVE ITruth'
    <2>1. \A k \in Key : RowTrue(k)'
      BY <1>4, RowKept, Zenon DEF HandleCreate, Create
    <2>2. \A b \in Attempt : HolderTrue(b)'
      BY <1>4, HolderKept, Zenon DEF HandleCreate, Create
    <2>3. \A b \in Attempt : ToldTrue(b)'
      BY <1>4, ToldKept, Zenon DEF HandleCreate, Create
    <2>4. \A b \in Attempt : RefusedTrue(b)'
      BY <1>4 DEF HandleCreate, Create, RefusedTrue, Existing
    <2> QED BY <2>1, <2>2, <2>3, <2>4, Zenon
  <1>5. ASSUME NEW a \in Attempt, HandleFails(a) PROVE ITruth'
    <2>1. \A k \in Key : RowTrue(k)'
      BY <1>5, RowKept, Zenon DEF HandleFails, Create
    <2>2. \A b \in Attempt : HolderTrue(b)'
      BY <1>5, Zenon DEF HandleFails, Create, HolderTrue
    <2>3. \A b \in Attempt : ToldTrue(b)'
      <3>1. \A b \in Attempt : pc'[b] = "done" => b # a /\ pc[b] = "done" /\ answer'[b] = answer[b]
        BY <1>5, Zenon DEF HandleFails
      <3>2. \A b \in Attempt : /\ ToldTrue(b)
                               /\ lapses'[KeyOf[b]] = 0 => lapses[KeyOf[b]] = 0
        BY Zenon
      <3> QED BY ONLY <1>0, <3>1, <3>2, ToldKept, Zenon
    <2>4. \A b \in Attempt : RefusedTrue(b)'
      BY <1>5 DEF HandleFails, Create, RefusedTrue, Existing
    <2> QED BY <2>1, <2>2, <2>3, <2>4, Zenon
  <1>6. ASSUME NEW a \in Attempt, Complete(a) PROVE ITruth'
    <2>0. ASSUME NEW b \in Attempt, KeyOf[b] = KeyOf[a], lapses[KeyOf[a]] = 0,
                 pc[b] \in {"handler", "complete"}
          PROVE  b = a
      <3>1. a \in Slots(KeyOf[a]) /\ b \in Slots(KeyOf[a])
        BY <1>6, <2>0, Zenon DEF Complete, Announced, Slots, Existing
      <3>2. KeyOf[a] \in Key
        BY Zenon
      <3> QED BY ONLY OneSlot, <2>0, <3>1, <3>2, Zenon DEF OneSlot
    <2>1. \A k \in Key : RowTrue(k)'
      <3>1. ASSUME NEW k \in Key, k # KeyOf[a] PROVE RowTrue(k)'
        BY <1>6, <3>1, RowKept, Zenon DEF Complete, CompleteIdempotencyKey
      <3>2. ASSUME lapses'[KeyOf[a]] = 0, Present(KeyOf[a]) PROVE RowTrue(KeyOf[a])'
        <4>1. a \in Existing' /\ answer[a] = [code |-> 201, payment |-> a]
          BY <1>6, Zenon DEF Complete, Announced
        <4>2. keys[KeyOf[a]].hash = BodyOf[a]
          BY <1>6, <3>2, Zenon DEF Complete, HolderTrue
        <4>3. keys'[KeyOf[a]].answer = answer[a] /\ keys'[KeyOf[a]].hash = keys[KeyOf[a]].hash
          BY <1>6, <3>2 DEF Complete, CompleteIdempotencyKey, KeyRow
        <4>4. /\ a \in Existing' /\ BodyOf[a] = keys'[KeyOf[a]].hash
              /\ keys'[KeyOf[a]].answer = [code |-> 201, payment |-> a]
          BY ONLY <4>1, <4>2, <4>3, Zenon
        <4> QED BY ONLY <4>4, Zenon DEF RowTrue
      <3>3. ASSUME ~Present(KeyOf[a]) PROVE RowTrue(KeyOf[a])'
        BY <1>6, <3>3, Zenon DEF Complete, CompleteIdempotencyKey, Present, RowTrue
      <3>4. ASSUME lapses'[KeyOf[a]] # 0 PROVE RowTrue(KeyOf[a])'
        BY <3>4, Zenon DEF RowTrue
      <3> QED BY <3>1, <3>2, <3>3, <3>4, Zenon
    <2>2. \A b \in Attempt : HolderTrue(b)'
      BY <1>6, <2>0 DEF Complete, CompleteIdempotencyKey, Present, Announced, HolderTrue
    <2>3. \A b \in Attempt : ToldTrue(b)'
      <3>1. ASSUME NEW b \in Attempt, b # a PROVE ToldTrue(b)'
        BY <1>6, <3>1, ToldKept, Zenon DEF Complete
      <3>2. ToldTrue(a)'
        <4>1. a \in Existing' /\ answer[a] = [code |-> 201, payment |-> a] /\ answer' = answer
          BY <1>6, Zenon DEF Complete, Announced
        <4>2. answer'[a].payment = a
          BY ONLY <4>1
        <4> QED BY ONLY <4>1, <4>2, Zenon DEF ToldTrue, Sound
      <3> QED BY <3>1, <3>2, Zenon
    <2>4. \A b \in Attempt : RefusedTrue(b)'
      BY <1>6 DEF Complete, CompleteIdempotencyKey, Present, Announced, RefusedTrue, Existing
    <2> QED BY <2>1, <2>2, <2>3, <2>4, Zenon
  <1>7. ASSUME NEW a \in Attempt, Release(a) PROVE ITruth'
    <2>0. ASSUME NEW b \in Attempt, KeyOf[b] = KeyOf[a], lapses[KeyOf[a]] = 0,
                 pc[b] \in {"handler", "complete"}
          PROVE  b = a
      <3>1. a \in Slots(KeyOf[a]) /\ b \in Slots(KeyOf[a])
        BY <1>7, <2>0, Zenon DEF Release, Announced, Slots, Existing
      <3>2. KeyOf[a] \in Key
        BY Zenon
      <3> QED BY ONLY OneSlot, <2>0, <3>1, <3>2, Zenon DEF OneSlot
    <2>1. \A k \in Key : RowTrue(k)'
      BY <1>7, RowKept, Zenon DEF Release, DeleteIdempotencyKey, NoRow, Present
    <2>2. \A b \in Attempt : HolderTrue(b)'
      <3> SUFFICES ASSUME NEW b \in Attempt PROVE HolderTrue(b)'
        BY Zenon
      <3>1. /\ pc'[a] = "done" /\ (b # a => pc'[b] = pc[b])
            /\ lapses'[KeyOf[b]] = 0 => lapses[KeyOf[b]] = 0
            /\ KeyOf[b] # KeyOf[a] => keys'[KeyOf[b]] = keys[KeyOf[b]]
            /\ HolderTrue(b)
        BY <1>7, Zenon DEF Release, DeleteIdempotencyKey
      <3>2. CASE KeyOf[b] = KeyOf[a]
        BY ONLY <2>0, <3>1, <3>2, b \in Attempt, Zenon DEF HolderTrue
      <3>3. CASE KeyOf[b] # KeyOf[a]
        <4>1. pc'[b] \in {"handler", "complete"} => pc[b] \in {"handler", "complete"}
          BY ONLY <3>1, Zenon
        <4> QED BY ONLY <3>1, <3>3, <4>1, b \in Attempt, HolderKept, Zenon
      <3> QED BY <3>2, <3>3, Zenon
    <2>3. \A b \in Attempt : ToldTrue(b)'
      BY <1>7, ToldKept DEF Release, DeleteIdempotencyKey, NoRow, Present, Announced, RefusedTrue
    <2>4. \A b \in Attempt : RefusedTrue(b)'
      BY <1>7 DEF Release, DeleteIdempotencyKey, NoRow, Present, RefusedTrue, Existing
    <2> QED BY <2>1, <2>2, <2>3, <2>4, Zenon
  <1>8. CASE Crash
    BY <1>8, TruthQuiet DEF Crash, Running, Existing
  <1>9. CASE OtherPosting \/ UNCHANGED vars
    <2>1. UNCHANGED <<keys, lapses, pc, answer, payments>>
      BY <1>9, Zenon DEF OtherPosting, vars, keyVars, paymentVars, apiVars
    <2> QED BY <2>1, TruthQuiet DEF Existing
  <1>10. CASE Age
    <2>1. \A k \in Key : RowTrue(k)'
      BY <1>10, RowKept DEF Age, Expire, apiVars
    <2>2. \A b \in Attempt : HolderTrue(b)'
      BY <1>10 DEF Age, Expire, apiVars, HolderTrue
    <2>3. \A b \in Attempt : ToldTrue(b)'
      BY <1>10, ToldKept DEF Age, Expire, apiVars
    <2>4. \A b \in Attempt : RefusedTrue(b)'
      BY <1>10 DEF Age, Expire, apiVars, RefusedTrue, Existing
    <2> QED BY <2>1, <2>2, <2>3, <2>4, Zenon
  <1>11. CASE Sweep
    <2>1. \A k \in Key : RowTrue(k)'
      BY <1>11, RowKept, Zenon DEF Sweep, SweepExpired, NoRow, apiVars
    <2>2. \A b \in Attempt : HolderTrue(b)'
      <3>1. pc' = pc /\ \A k \in Key : lapses'[k] = 0 => lapses[k] = 0 /\ keys'[k] = keys[k]
        <4>1. lapses \in [Key -> Nat]
          BY Zenon
        <4> QED BY ONLY <1>11, <4>1 DEF Sweep, SweepExpired, apiVars
      <3>2. \A b \in Attempt : HolderTrue(b) /\ KeyOf[b] \in Key
        BY Zenon
      <3> QED BY ONLY <3>1, <3>2, HolderKept, Zenon
    <2>3. \A b \in Attempt : ToldTrue(b)'
      BY <1>11, ToldKept, Zenon DEF Sweep, SweepExpired, NoRow, apiVars
    <2>4. \A b \in Attempt : RefusedTrue(b)'
      BY <1>11 DEF Sweep, SweepExpired, NoRow, apiVars, RefusedTrue, Existing
    <2> QED BY <2>1, <2>2, <2>3, <2>4, Zenon
  <1>12. CASE Cancelling
    <2>1. /\ UNCHANGED <<keys, lapses, pc, answer>>
          /\ \A b \in Attempt : payments'[b] # "none" <=> payments[b] # "none"
      BY <1>12, Zenon
      DEF Cancelling, PaymentsNext, CancelRead, CancelCommit, CancelRollback, List, apiVars
    <2>2. Existing' = Existing
      BY <2>1, Zenon DEF Existing
    <2> QED BY ONLY ITruth, <2>1, <2>2, TruthQuiet, Zenon
  <1> QED
    BY <1>1, <1>2, <1>3, <1>4, <1>5, <1>6, <1>7, <1>8, <1>9, <1>10, <1>11, <1>12, Zenon
    DEF Next, Step, Failure

\* Clients are told the truth as long as their key was never forgotten.
THEOREM TruthfulAnswersHold == Spec => []TruthfulAnswers
  <1>1. IBase /\ IOnce /\ ITruth => TruthfulAnswers
    <2> SUFFICES ASSUME IBase, IOnce, ITruth PROVE TruthfulAnswers
      BY Zenon
    <2>1. ASSUME NEW a \in Attempt, NEW b \in Attempt, KeyOf[a] = KeyOf[b],
                 lapses[KeyOf[a]] = 0, Sound(a), Sound(b)
          PROVE  answer[a].payment = answer[b].payment
      BY <2>1, OnlyOneSlot, ApiAssumption DEF OneSlot, Sound, Slots, Existing
    <2> QED
      BY <2>1 DEF ITruth, ToldTrue, RefusedTrue, TruthfulAnswers, Under, Sound, Existing
  <1> QED
    BY <1>1, InitBase, BaseStep, InitOnce, OnceStep, OnlyOneSlot, InitTruth, TruthStep, PTL DEF Spec

(***************************************************************************)
(* Paging.  The walk's position (at, id) splits the payments: what lies on *)
(* the newer side, the position included, and existed at the start has     *)
(* been listed once, and what lies on the older side has not been listed.  *)
(***************************************************************************)

\* What a step does to the payments, their events and the walk.
LEMMA PaymentsEffect ==
  ASSUME IBase, [Next]_vars
  PROVE  \/ \E a \in Attempt : payments[a] = "none" /\ Create(a)
         \/ \E c \in Canceller : CancelCommit(c)
         \/ List
         \/ UNCHANGED <<payments, created, facts, walk>>
  <1>0. NotYet
    BY Zenon DEF IBase
  <1>1. ASSUME NEW a \in Attempt, BeginFresh(a) \/ BeginTaken(a) \/ Step(a) \/ Failure(a)
        PROVE  \/ payments[a] = "none" /\ Create(a)
               \/ UNCHANGED <<payments, created, facts, walk>>
    <2>1. CASE HandleCreate(a)
      BY <1>0, <2>1, Zenon DEF HandleCreate, NotYet
    <2>a. CASE HandleFails(a)
      <3>1. payments[a] = "none"
        BY <1>0, <2>a, Zenon DEF HandleFails, NotYet
      <3>2. Create(a) \/ UNCHANGED paymentVars
        BY <2>a, Zenon DEF HandleFails
      <3> QED
        BY <3>1, <3>2, Zenon DEF paymentVars
    <2>2. ASSUME BeginFresh(a) \/ BeginTaken(a) \/ Replay(a) \/ HandleInvalid(a)
                 \/ HandleRefused(a) \/ Complete(a) \/ Release(a) \/ BeginFails(a)
                 \/ LoadFails(a) \/ CompleteFails(a) \/ ReleaseFails(a)
          PROVE  UNCHANGED paymentVars
      BY <2>2, Zenon
      DEF BeginFresh, BeginTaken, Replay, HandleInvalid, HandleRefused, Complete, Release,
          BeginFails, LoadFails, CompleteFails, ReleaseFails
    <2>3. UNCHANGED paymentVars => UNCHANGED <<payments, created, facts, walk>>
      BY Zenon DEF paymentVars
    <2> QED
      BY <1>1, <2>1, <2>a, <2>2, <2>3, Zenon DEF Step, Failure
  <1>2. CASE Crash \/ OtherPosting \/ Age \/ Sweep \/ UNCHANGED vars
    BY <1>2, Zenon DEF Crash, OtherPosting, Age, Sweep, vars, paymentVars
  <1>3. CASE Cancelling
    BY <1>3, Zenon DEF Cancelling, PaymentsNext, CancelRead, CancelRollback
  <1> QED
    BY <1>1, <1>2, <1>3, Zenon DEF Next

\* p was created before q, in the order of the list.
Before(p, q) == Older(created[p], p, created[q], q)

Dated == created \in [Attempt -> Nat]

\* Payments are in a strict and total order.
LEMMA BeforeOrder ==
  ASSUME Dated, NEW p \in Attempt, NEW q \in Attempt
  PROVE  /\ ~Before(p, p)
         /\ Before(p, q) => ~Before(q, p)
         /\ Before(p, q) \/ Before(q, p) \/ p = q
         /\ \A r \in Attempt : Before(p, q) /\ Before(q, r) => Before(p, r)
  <1>1. /\ p \in Nat /\ q \in Nat /\ created[p] \in Nat /\ created[q] \in Nat
        /\ \A r \in Attempt : r \in Nat /\ created[r] \in Nat
    BY PaymentsAssumption, Zenon DEF Dated
  <1> QED
    BY <1>1 DEF Before, Older

\* The first of any set of payments.
LEMMA OldestExists ==
  ASSUME Dated, NEW page, page \subseteq Attempt, page # {}
  PROVE  \E p \in page : Newer(p, page) = page \ {p}
  <1> DEFINE T == {created[p] : p \in page}
  <1>0. \A p \in page : p \in Nat /\ created[p] \in Nat
    BY PaymentsAssumption, Zenon DEF Dated
  <1>1. PICK t \in T : \A u \in T : t <= u
    <2>1. T \subseteq Nat /\ T # {}
      BY <1>0, Zenon
    <2> HIDE DEF T
    <2> QED
      BY <2>1, LeastNat, Zenon
  <1> DEFINE I == {p \in page : created[p] = t}
  <1>2. PICK p \in I : \A q \in I : p <= q
    <2>1. I \subseteq Nat /\ I # {}
      BY <1>0, <1>1, Zenon
    <2> HIDE DEF I
    <2> QED
      BY <2>1, LeastNat, Zenon
  <1>3. p \in page /\ created[p] = t /\ \A q \in page : t <= created[q]
    BY <1>1, <1>2, Zenon
  <1>4. ASSUME NEW q \in page, q # p PROVE Older(created[p], p, created[q], q)
    <2>1. created[q] = t => p <= q
      BY <1>2, Zenon
    <2> QED
      BY <1>0, <1>3, <1>4, <2>1 DEF Older
  <1>5. ~Older(created[p], p, created[p], p)
    BY <1>0, <1>3 DEF Older
  <1> QED
    BY <1>3, <1>4, <1>5, Zenon DEF Newer

\* What is newer than a newer row is newer, and fewer.
LEMMA NewerShrinks ==
  ASSUME Dated, NEW rows, rows \subseteq Attempt, NEW p \in rows, NEW q \in rows, Before(p, q)
  PROVE  /\ Cardinality(Newer(q, rows)) \in Nat /\ Cardinality(Newer(p, rows)) \in Nat
         /\ Cardinality(Newer(q, rows)) < Cardinality(Newer(p, rows))
  <1>1. IsFiniteSet(Newer(p, rows)) /\ Newer(q, rows) \subseteq Newer(p, rows)
    <2>1. Newer(p, rows) \subseteq Attempt
      BY Zenon DEF Newer
    <2>2. \A r \in rows : Before(q, r) => Before(p, r)
      BY BeforeOrder, Zenon
    <2> QED
      BY <2>1, <2>2, PaymentsAssumption, FS_Subset, Zenon DEF Newer, Before
  <1>2. q \in Newer(p, rows) /\ q \notin Newer(q, rows)
    BY BeforeOrder, Zenon DEF Newer, Before
  <1> QED
    BY <1>1, <1>2, FS_Subset, FS_CardinalityType

PageOf(rows) == {p \in rows : Cardinality(Newer(p, rows)) < PageLimit}

LastOf(page) == CHOOSE p \in page : Newer(p, page) = page \ {p}

\* What List returns: the whole of a short list, and otherwise the rows from
\* the newest to the last one, everything else being before it.
LEMMA PageIsPrefix ==
  ASSUME Dated, NEW rows, rows \subseteq Attempt
  PROVE  /\ Cardinality(rows) <= PageLimit => PageOf(rows) = rows
         /\ Cardinality(rows) > PageLimit =>
                LET last == LastOf(PageOf(rows))
                IN  /\ last \in PageOf(rows)
                    /\ \A p \in PageOf(rows) \ {last} : Before(last, p)
                    /\ \A p \in rows \ PageOf(rows) : Before(p, last)
  <1>0. /\ IsFiniteSet(rows) /\ Cardinality(rows) \in Nat /\ PageLimit \in Nat /\ PageLimit > 0
        /\ \A p : IsFiniteSet(Newer(p, rows)) /\ Cardinality(Newer(p, rows)) \in Nat
    <2>1. \A p : Newer(p, rows) \subseteq Attempt
      BY Zenon DEF Newer
    <2>2. IsFiniteSet(rows) /\ \A p : IsFiniteSet(Newer(p, rows))
      BY <2>1, PaymentsAssumption, FS_Subset, Zenon
    <2>3. Cardinality(rows) \in Nat /\ \A p : Cardinality(Newer(p, rows)) \in Nat
      BY <2>2, FS_CardinalityType, Zenon
    <2> QED
      BY <2>2, <2>3, PaymentsAssumption
  <1>1. ASSUME Cardinality(rows) <= PageLimit PROVE PageOf(rows) = rows
    <2>1. ASSUME NEW p \in rows PROVE Cardinality(Newer(p, rows)) < PageLimit
      <3>1. Newer(p, rows) \subseteq rows /\ p \notin Newer(p, rows)
        BY BeforeOrder, Zenon DEF Newer, Before
      <3>2. Cardinality(Newer(p, rows)) < Cardinality(rows)
        BY <1>0, <3>1, FS_Subset
      <3> QED
        BY <1>0, <1>1, <3>2
    <2> QED
      BY <2>1, Zenon DEF PageOf
  <1>2. ASSUME Cardinality(rows) > PageLimit
        PROVE  PageOf(rows) # {}
    <2> DEFINE N == {Cardinality(Newer(p, rows)) : p \in rows}
    <2>1. rows # {}
      BY <1>0, <1>2, FS_EmptySet
    <2>2. PICK n \in N : \A m \in N : n <= m
      <3>1. N \subseteq Nat /\ N # {}
        BY <1>0, <2>1, Zenon
      <3> HIDE DEF N
      <3> QED
        BY <3>1, LeastNat, Zenon
    <2>3. PICK p \in rows : n = Cardinality(Newer(p, rows))
      BY Zenon
    <2>4. \A q \in rows : n <= Cardinality(Newer(q, rows))
      BY <2>2, Zenon
    <2>5. ASSUME NEW q \in Newer(p, rows) PROVE FALSE
      <3>1. q \in rows /\ Before(p, q)
        BY Zenon DEF Newer, Before
      <3>2. Cardinality(Newer(q, rows)) < Cardinality(Newer(p, rows))
        BY <3>1, NewerShrinks, Zenon
      <3> HIDE DEF N
      <3> QED
        BY <1>0, <2>3, <2>4, <3>1, <3>2
    <2>6. Cardinality(Newer(p, rows)) = 0
      BY <2>5, FS_EmptySet, Zenon
    <2> QED
      BY <1>0, <2>6, Zenon DEF PageOf
  <1>3. ASSUME Cardinality(rows) > PageLimit, NEW last, last = LastOf(PageOf(rows))
        PROVE  /\ last \in PageOf(rows)
               /\ \A p \in PageOf(rows) \ {last} : Before(last, p)
               /\ \A p \in rows \ PageOf(rows) : Before(p, last)
    <2>1. PageOf(rows) \subseteq rows
      BY Zenon DEF PageOf
    <2>2. \E p \in PageOf(rows) : Newer(p, PageOf(rows)) = PageOf(rows) \ {p}
      <3> HIDE DEF PageOf
      <3> QED
        BY <1>2, <1>3, <2>1, OldestExists, Zenon
    <2>3. last \in PageOf(rows) /\ Newer(last, PageOf(rows)) = PageOf(rows) \ {last}
      BY <1>3, <2>2, Zenon DEF LastOf
    <2>4. \A p \in PageOf(rows) \ {last} : Before(last, p)
      BY <2>3, Zenon DEF Newer, Before
    <2>5. ASSUME NEW p \in rows, p \notin PageOf(rows) PROVE Before(p, last)
      <3>1. ~(Cardinality(Newer(p, rows)) < PageLimit) /\ Cardinality(Newer(last, rows)) < PageLimit
        BY <2>3, <2>5, Zenon DEF PageOf
      <3>2. last \in rows /\ last # p
        BY <2>1, <2>3, <2>5, Zenon
      <3>3. ~Before(last, p)
        <4>1. Before(last, p) => Cardinality(Newer(p, rows)) < Cardinality(Newer(last, rows))
          BY <3>2, NewerShrinks, Zenon
        <4> QED
          BY <1>0, <3>1, <4>1
      <3> QED
        BY <3>2, <3>3, BeforeOrder, Zenon
    <2> QED
      BY <2>3, <2>4, <2>5, Zenon
  <1> QED
    BY <1>1, <1>3, Zenon

WalkType ==
    walk \in [state : {"new", "more", "end"}, at : Nat, id : Attempt \cup {NoPayment},
              start : SUBSET Attempt, listed : [Attempt -> Nat]]

Walked ==
    /\ walk.state = "new" => \A p \in Attempt : walk.listed[p] = 0
    /\ walk.state = "more" =>
          /\ walk.id \in Existing /\ walk.at = created[walk.id] /\ walk.start \subseteq Existing
          /\ \A p \in Attempt : \/ walk.listed[p] = 0
                                \/ walk.listed[p] = 1 /\ p \in Existing /\ ~Before(p, walk.id)
          /\ \A p \in walk.start : walk.listed[p] = 1 \/ Before(p, walk.id)
    /\ walk.state = "end" => WalkComplete

\* The fields ListPage writes.
LEMMA ListPageFields ==
  ASSUME WalkType, NEW rows, ListPage(rows)
  PROVE  LET page == PageOf(rows)
             more == Cardinality(rows) > PageLimit
         IN  /\ walk' = [state |-> walk'.state, at |-> walk'.at, id |-> walk'.id,
                         start |-> walk'.start, listed |-> walk'.listed]
             /\ walk'.state = IF more THEN "more" ELSE "end"
             /\ walk'.at = IF more THEN created[LastOf(page)] ELSE walk.at
             /\ walk'.id = IF more THEN LastOf(page) ELSE walk.id
             /\ walk'.start = IF walk.state = "new" THEN Existing ELSE walk.start
             /\ walk'.listed = [p \in Attempt |-> IF p \in page THEN walk.listed[p] + 1
                                                  ELSE walk.listed[p]]
  <1> DEFINE page == PageOf(rows)
             more == Cardinality(rows) > PageLimit
             st == IF more THEN "more" ELSE "end"
             at == IF more THEN created[LastOf(page)] ELSE walk.at
             id == IF more THEN LastOf(page) ELSE walk.id
             start == IF walk.state = "new" THEN Existing ELSE walk.start
             listed == [p \in Attempt |-> IF p \in page THEN walk.listed[p] + 1 ELSE walk.listed[p]]
  <1>1. walk' = [walk EXCEPT !.state = st, !.at = at, !.id = id, !.start = start, !.listed = listed]
    BY Zenon DEF ListPage, PageOf, LastOf
  <1>2. walk = [state |-> walk.state, at |-> walk.at, id |-> walk.id,
                start |-> walk.start, listed |-> walk.listed]
    BY Zenon DEF WalkType
  <1> HIDE DEF st, at, id, start, listed
  <1>3. walk' = [state |-> st, at |-> at, id |-> id, start |-> start, listed |-> listed]
    BY <1>1, <1>2, Zenon
  <1> QED
    BY <1>3, Zenon DEF st, at, id, start, listed

\* A page keeps the split, if the rows it is taken from are the unlisted side.
LEMMA ListPageWalked ==
  ASSUME WalkType, Dated, UNCHANGED <<payments, created>>,
         NEW rows, rows \subseteq Existing, ListPage(rows),
         NEW start, start = IF walk.state = "new" THEN Existing ELSE walk.start,
         start \subseteq Existing,
         \A p \in rows : walk.listed[p] = 0,
         \A p \in Attempt : \/ walk.listed[p] = 0
                            \/ /\ walk.listed[p] = 1 /\ p \in Existing
                               /\ \A r \in rows : ~Before(p, r),
         \A p \in start : walk.listed[p] = 1 \/ p \in rows
  PROVE  WalkType' /\ Walked'
  <1> DEFINE page == PageOf(rows)
             last == LastOf(page)
             more == Cardinality(rows) > PageLimit
  <1>0. /\ Existing \subseteq Attempt /\ rows \subseteq Attempt /\ page \subseteq rows
        /\ walk.listed \in [Attempt -> Nat] /\ walk.at \in Nat
        /\ walk.id \in Attempt \cup {NoPayment}
        /\ Existing' = Existing /\ \A p, q : Before(p, q)' <=> Before(p, q)
    BY Zenon DEF Existing, PageOf, WalkType, Before
  <1>1. /\ walk' = [state |-> walk'.state, at |-> walk'.at, id |-> walk'.id,
                    start |-> walk'.start, listed |-> walk'.listed]
        /\ walk'.state = IF more THEN "more" ELSE "end"
        /\ walk'.at = IF more THEN created[last] ELSE walk.at
        /\ walk'.id = IF more THEN last ELSE walk.id
        /\ walk'.start = start
        /\ walk'.listed = [p \in Attempt |-> IF p \in page THEN walk.listed[p] + 1
                                             ELSE walk.listed[p]]
    BY ListPageFields, Zenon
  <1>2. /\ ~more => page = rows
        /\ more => /\ last \in page
                   /\ \A p \in page \ {last} : Before(last, p)
                   /\ \A p \in rows \ page : Before(p, last)
    <2>1. Cardinality(rows) \in Nat /\ PageLimit \in Nat
      BY <1>0, PaymentsAssumption, FS_Subset, FS_CardinalityType, Zenon
    <2>2. ~more => Cardinality(rows) <= PageLimit
      BY <2>1
    <2> QED
      BY <1>0, <2>2, PageIsPrefix, Zenon
  <1> HIDE DEF page, last, more
  <1>3. \A p \in Attempt : /\ walk'.listed[p] \in Nat
                           /\ p \in page => walk'.listed[p] = 1
                           /\ p \notin page => walk'.listed[p] = walk.listed[p]
    BY <1>0, <1>1
  <1>4. WalkType'
    <2>1. walk'.state \in {"new", "more", "end"} /\ walk'.start \in SUBSET Attempt
      BY <1>0, <1>1, Zenon
    <2>2. walk'.at \in Nat /\ walk'.id \in Attempt \cup {NoPayment}
      <3>1. CASE more
        <4>1. last \in Attempt
          BY <1>0, <1>2, <3>1, Zenon
        <4> QED
          BY <1>1, <3>1, <4>1, Zenon DEF Dated
      <3>2. CASE ~more
        BY <1>0, <1>1, <3>2, Zenon
      <3> QED
        BY <3>1, <3>2, Zenon
    <2>3. walk'.listed \in [Attempt -> Nat]
      BY <1>1, <1>3, Zenon
    <2> QED
      BY <1>1, <2>1, <2>2, <2>3, Zenon DEF WalkType
  <1>5. CASE more
    <2>1. walk'.state = "more" /\ walk'.id = last /\ walk'.at = created[last] /\ last \in page
      BY <1>1, <1>2, <1>5, Zenon
    <2>2. ASSUME NEW p \in Attempt
          PROVE  \/ walk'.listed[p] = 0
                 \/ walk'.listed[p] = 1 /\ p \in Existing /\ ~Before(p, last)
      <3>1. CASE p \in page
        <4>1. walk'.listed[p] = 1 /\ p \in Existing /\ last \in Attempt
          BY <1>0, <1>3, <2>1, <3>1, Zenon
        <4>2. p = last \/ Before(last, p)
          BY <1>2, <1>5, <3>1, Zenon
        <4>3. ~Before(p, last)
          BY <4>1, <4>2, BeforeOrder, Zenon
        <4> QED
          BY <4>1, <4>3, Zenon
      <3>2. CASE p \notin page
        BY <1>0, <1>3, <2>1, <3>2, Zenon
      <3> QED
        BY <3>1, <3>2, Zenon
    <2>3. ASSUME NEW p \in start PROVE walk'.listed[p] = 1 \/ Before(p, last)
      BY <1>0, <1>2, <1>3, <1>5, Zenon
    <2> QED
      BY <1>0, <1>1, <1>4, <2>1, <2>2, <2>3, Zenon DEF Walked
  <1>6. CASE ~more
    <2>1. walk'.state = "end" /\ page = rows
      BY <1>1, <1>2, <1>6, Zenon
    <2>2. \A p \in Attempt : walk'.listed[p] = 0 \/ walk'.listed[p] = 1
      BY <1>3, Zenon
    <2>3. \A p \in start : walk'.listed[p] = 1
      BY <1>0, <1>3, <2>1, Zenon
    <2>4. WalkComplete'
      BY <1>1, <2>2, <2>3 DEF WalkComplete
    <2> QED
      BY <1>4, <2>1, <2>4, Zenon DEF Walked
  <1> QED
    BY <1>4, <1>5, <1>6, Zenon

\* A request of the client is such a page.
LEMMA ListWalked ==
  ASSUME WalkType, Dated, Walked, List
  PROVE  WalkType' /\ Walked'
  <1>0. UNCHANGED <<payments, created>> /\ Existing \subseteq Attempt
    BY Zenon DEF List, Existing
  <1>1. CASE walk.state = "new" /\ ListPage(Existing)
    BY <1>0, <1>1, ListPageWalked, Zenon DEF Walked
  <1>2. CASE walk.state = "more" /\ ListPage(ListPaymentsAfter(walk.at, walk.id))
    <2> DEFINE rows == ListPaymentsAfter(walk.at, walk.id)
    <2>1. /\ walk.id \in Existing /\ walk.at = created[walk.id] /\ walk.start \subseteq Existing
          /\ \A p \in Attempt : \/ walk.listed[p] = 0
                                \/ walk.listed[p] = 1 /\ p \in Existing /\ ~Before(p, walk.id)
          /\ \A p \in walk.start : walk.listed[p] = 1 \/ Before(p, walk.id)
      BY <1>2, Zenon DEF Walked
    <2>2. rows = {p \in Existing : Before(p, walk.id)}
      BY <2>1, Zenon DEF ListPaymentsAfter, Before
    <2>3. walk.start = IF walk.state = "new" THEN Existing ELSE walk.start
      BY <1>2, Zenon
    <2>4. \A p \in rows : walk.listed[p] = 0
      BY <1>0, <2>1, <2>2, Zenon
    <2>5. ASSUME NEW p \in Attempt, walk.listed[p] # 0
          PROVE  walk.listed[p] = 1 /\ p \in Existing /\ \A r \in rows : ~Before(p, r)
      BY <1>0, <2>1, <2>2, <2>5, BeforeOrder, Zenon
    <2>6. \A p \in walk.start : walk.listed[p] = 1 \/ p \in rows
      BY <2>1, <2>2, Zenon
    <2>7. rows \subseteq Existing /\ ListPage(rows)
      BY <1>2, <2>2, Zenon
    <2> HIDE DEF rows
    <2> QED
      BY <1>0, <2>1, <2>3, <2>4, <2>5, <2>6, <2>7, ListPageWalked, Zenon
  <1> QED
    BY <1>1, <1>2, Zenon DEF List

PagingTypes ==
    /\ created \in [Attempt -> Times \cup {0}]
    /\ facts \subseteq [type : {"payment.created", "payment.canceled"}, payment : Attempt]
    /\ WalkType

PagingInv == PagingTypes /\ Walked

\* The timestamps are numbers.
LEMMA PagingDated == PagingTypes => Dated
  <1>1. Times \cup {0} \subseteq Nat
    BY PaymentsAssumption
  <1> QED
    BY <1>1, Zenon DEF PagingTypes, Dated

\* Every step keeps the split: a new payment is on neither side of the start,
\* and no payment's timestamp changes.
LEMMA PagingStep == IBase /\ PagingInv /\ [Next]_vars => PagingInv'
  <1> SUFFICES ASSUME IBase, PagingInv, [Next]_vars PROVE PagingInv'
    BY Zenon
  <1>0. Types /\ WalkType /\ Walked /\ Dated /\ PagingTypes
    BY PagingDated, Zenon DEF IBase, PagingInv, PagingTypes
  <1>1. ASSUME NEW a \in Attempt, payments[a] = "none", Create(a) PROVE PagingInv'
    <2>1. PICK t \in Times : created' = [created EXCEPT ![a] = t]
      BY <1>1, Zenon DEF Create
    <2>2. /\ walk' = walk /\ a \notin Existing /\ Existing' = Existing \cup {a}
          /\ \A p \in Existing : created'[p] = created[p]
      BY <1>0, <1>1, <2>1, Zenon DEF Create, Existing, Types, PagingTypes
    <2>3. PagingTypes'
      <3>1. [type |-> "payment.created", payment |-> a]
                \in [type : {"payment.created", "payment.canceled"}, payment : Attempt]
        BY Zenon
      <3>2. facts' \subseteq [type : {"payment.created", "payment.canceled"}, payment : Attempt]
        BY <1>0, <1>1, <3>1, Zenon DEF PagingTypes, Create
      <3>3. created' \in [Attempt -> Times \cup {0}]
        BY <1>0, <2>1, Zenon DEF PagingTypes
      <3> QED
        BY <1>0, <2>2, <3>2, <3>3, Zenon DEF PagingTypes, WalkType
    <2>4. ASSUME walk.state = "more"
          PROVE  /\ walk.id \in Existing' /\ walk.at = created'[walk.id]
                 /\ walk.start \subseteq Existing'
                 /\ \A p \in Attempt : \/ walk.listed[p] = 0
                                       \/ walk.listed[p] = 1 /\ p \in Existing' /\ ~Before(p, walk.id)'
                 /\ \A p \in walk.start : walk.listed[p] = 1 \/ Before(p, walk.id)'
      BY <1>0, <2>2, <2>4, Zenon DEF Walked, Before
    <2>5. Walked'
      BY <1>0, <2>2, <2>4, Zenon DEF Walked, WalkComplete
    <2> QED
      BY <2>3, <2>5, Zenon DEF PagingInv
  <1>2. ASSUME Existing' = Existing, UNCHANGED <<created, walk>> PROVE Walked'
    BY <1>0, <1>2, Zenon DEF Walked, WalkComplete, Before
  <1>3. ASSUME NEW c \in Canceller, CancelCommit(c) PROVE PagingInv'
    <2>1. Existing' = Existing /\ UNCHANGED <<created, walk>>
      BY <1>0, <1>3, Zenon DEF CancelCommit, Existing, Types
    <2>2. cancelling[c] \in Attempt
      BY <1>0, <1>3, Zenon DEF CancelCommit, Types
    <2>3. PagingTypes'
      <3>1. [type |-> "payment.canceled", payment |-> cancelling[c]]
                \in [type : {"payment.created", "payment.canceled"}, payment : Attempt]
        BY <2>2, Zenon
      <3>2. facts' \subseteq [type : {"payment.created", "payment.canceled"}, payment : Attempt]
        BY <1>0, <1>3, <3>1, Zenon DEF PagingTypes, CancelCommit
      <3> QED
        BY <1>0, <2>1, <3>2, Zenon DEF PagingTypes, WalkType
    <2> QED
      BY <1>2, <2>1, <2>3, Zenon DEF PagingInv
  <1>4. ASSUME List PROVE PagingInv'
    <2>1. WalkType' /\ Walked'
      BY <1>0, <1>4, ListWalked, Zenon
    <2> QED
      BY <1>0, <1>4, <2>1, Zenon DEF PagingInv, PagingTypes, List
  <1>5. ASSUME UNCHANGED <<payments, created, facts, walk>> PROVE PagingInv'
    <2>1. Existing' = Existing
      BY <1>5, Zenon DEF Existing
    <2> QED
      BY <1>0, <1>2, <1>5, <2>1, Zenon DEF PagingInv, PagingTypes, WalkType
  <1> QED
    BY <1>1, <1>3, <1>4, <1>5, PaymentsEffect, Zenon

\* Nothing is listed at the start.
LEMMA InitPaging == Init => PagingInv
  <1> SUFFICES ASSUME Init PROVE PagingInv
    BY Zenon
  <1>1. WalkType
    BY Zenon DEF Init, PaymentsInit, WalkType
  <1>2. walk.state = "new" /\ \A p \in Attempt : walk.listed[p] = 0
    BY Zenon DEF Init, PaymentsInit
  <1> QED
    BY <1>1, <1>2, Zenon DEF Init, PaymentsInit, PagingInv, PagingTypes, Walked

\* A client that follows the cursors to the end has seen every payment that
\* existed when it began exactly once, and none twice, whatever is created and
\* cancelled meanwhile and for every page size.
THEOREM WalkCompleteHolds == Spec => []WalkComplete
  <1>1. PagingInv => WalkComplete
    <2> SUFFICES ASSUME PagingInv PROVE WalkComplete
      BY Zenon
    <2>1. walk.state \in {"new", "more", "end"} /\ Walked
      BY Zenon DEF PagingInv, PagingTypes, WalkType
    <2> QED
      BY <2>1 DEF Walked, WalkComplete
  <1> QED
    BY <1>1, InitBase, BaseStep, InitPaging, PagingStep, PTL DEF Spec

FaultsBound == faults \in 0 .. MaxFaults

\* Only a failure moves the bound on failures.
LEMMA FaultsStep == FaultsBound /\ [Next]_vars => FaultsBound'
  <1> SUFFICES ASSUME faults \in 0 .. MaxFaults, [Next]_vars PROVE faults' \in 0 .. MaxFaults
    BY Zenon DEF FaultsBound
  <1>1. CASE Fault
    BY <1>1, ApiAssumption DEF Fault
  <1>2. CASE UNCHANGED faults
    BY <1>2, Zenon
  <1>3. ASSUME NEW a \in Attempt, BeginFresh(a) \/ BeginTaken(a) \/ Step(a) \/ Failure(a)
        PROVE  Fault \/ UNCHANGED faults
    BY <1>3, Zenon
    DEF Step, Failure, BeginFresh, BeginTaken, Replay, HandleInvalid, HandleCreate, HandleRefused,
        Complete, Release, BeginFails, LoadFails, HandleFails, CompleteFails, ReleaseFails
  <1>4. ASSUME Crash \/ OtherPosting \/ Cancelling \/ Age \/ Sweep \/ UNCHANGED vars
        PROVE  Fault \/ UNCHANGED faults
    BY <1>4, Zenon DEF Crash, OtherPosting, Cancelling, Age, Sweep, vars, apiVars
  <1> QED
    BY <1>1, <1>2, <1>3, <1>4, Zenon DEF Next

\* Type correctness of the API.
THEOREM TypeCorrect == Spec => []TypeOK
  <1>1. IBase /\ PagingInv /\ FaultsBound => TypeOK
    BY Zenon DEF IBase, Types, PagingInv, PagingTypes, WalkType, TypeOK, PaymentsTypeOK, Codes, Labels, FaultsBound
  <1>2. Init => FaultsBound
    BY ApiAssumption DEF Init, FaultsBound
  <1> QED
    BY <1>1, <1>2, InitBase, BaseStep, InitPaging, PagingStep, FaultsStep, PTL DEF Spec
=============================================================================
