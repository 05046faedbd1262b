-------------------------------- MODULE Api ---------------------------------
(***************************************************************************)
(* cmd/api: POST /v1/payments behind the withIdempotency middleware,       *)
(* step by step for every request, with the key table (Idempotency), the   *)
(* payments and the ledger (Payments) as separate pieces of database       *)
(* state.  A statement may fail, or take effect and lose its answer; a     *)
(* handler may panic; the process may crash; keys expire.                  *)
(***************************************************************************)
EXTENDS Payments, Idempotency

CONSTANTS
    KeyOf,      \* KeyOf[a]: the Idempotency-Key of request a
    Aging,      \* the keys that may outlive their 24 hours
    Opening,    \* the balances before the first payment
    Others,     \* entries that others post on the same accounts
    MaxFaults   \* bound on the failures of a behaviour

ASSUME ApiAssumption ==
    /\ KeyOf \in [Attempt -> Key]
    /\ Aging \subseteq Key
    /\ Opening \in [Account -> Int]
    /\ \A e \in Others : e.kind \notin {"payment", "payment.reversal"}
    /\ MaxFaults \in Nat
    /\ NoAnswer \notin [code : Int, payment : Attempt \cup {NoPayment}]

VARIABLES
    pc,         \* where each request is in the middleware
    answer,     \* the recorded response, the client's once pc is "done"
    faults      \* how many failures have happened

apiVars == <<pc, answer, faults>>
vars == <<ledgerVars, paymentVars, keyVars, apiVars>>

Init ==
    /\ journal = {}
    /\ balance = Opening
    /\ PaymentsInit
    /\ KeysInit
    /\ pc = [a \in Attempt |-> "idle"]
    /\ answer = [a \in Attempt |-> NoAnswer]
    /\ faults = 0

Goto(a, label) == pc' = [pc EXCEPT ![a] = label]

Respond(a, code, p) == answer' = [answer EXCEPT ![a] = [code |-> code, payment |-> p]]

Error(a, code) == Respond(a, code, NoPayment)

Fault ==
    /\ faults < MaxFaults
    /\ faults' = faults + 1

(***************************************************************************)
(* Begin.  A missing or unreadable header or body is refused before it,    *)
(* and changes nothing.                                                    *)
(***************************************************************************)
BeginFresh(a) ==
    /\ pc[a] = "idle"
    /\ InsertIdempotencyKey(KeyOf[a], BodyOf[a])
    /\ Goto(a, "handler")
    /\ UNCHANGED <<ledgerVars, paymentVars, lapses, answer, faults>>

BeginTaken(a) ==
    /\ pc[a] = "idle"
    /\ Present(KeyOf[a])
    /\ Goto(a, "load")
    /\ UNCHANGED <<ledgerVars, paymentVars, keyVars, answer, faults>>

\* The insert fails, or lands and its answer is lost.
BeginFails(a) ==
    /\ Fault
    /\ pc[a] = "idle"
    /\ \/ InsertIdempotencyKey(KeyOf[a], BodyOf[a])
       \/ UNCHANGED keys
    /\ Error(a, 500)
    /\ Goto(a, "done")
    /\ UNCHANGED <<ledgerVars, paymentVars, lapses>>

\* Mutant: the body is not compared.
ReplayAnyBody(a) ==
    LET row == keys[KeyOf[a]]
    IN  /\ pc[a] = "load"
        /\ CASE row.status = "absent"    -> Error(a, 500)
             [] row.status = "in_flight" -> Error(a, 409)
             [] OTHER                    -> answer' = [answer EXCEPT ![a] = row.answer]
        /\ Goto(a, "done")
        /\ UNCHANGED <<ledgerVars, paymentVars, keyVars, faults>>

\* GetIdempotencyKey, in a statement of its own, then replay.
Replay(a) ==
    LET row == keys[KeyOf[a]]
    IN  /\ pc[a] = "load"
        /\ CASE row.status = "absent"    -> Error(a, 500)
             [] row.status = "in_flight" -> Error(a, 409)
             [] OTHER -> IF row.hash # BodyOf[a]
                         THEN Error(a, 422)
                         ELSE answer' = [answer EXCEPT ![a] = row.answer]
        /\ Goto(a, "done")
        /\ UNCHANGED <<ledgerVars, paymentVars, keyVars, faults>>

LoadFails(a) ==
    /\ Fault
    /\ pc[a] = "load"
    /\ Error(a, 500)
    /\ Goto(a, "done")
    /\ UNCHANGED <<ledgerVars, paymentVars, keyVars>>

(***************************************************************************)
(* handleCreate, into the recorder.                                        *)
(***************************************************************************)
Valid(a) == BodyOf[a].amount > 0

\* Mutant: a refusal is cached like a success.
HandleInvalidCached(a) ==
    /\ pc[a] = "handler"
    /\ ~Valid(a)
    /\ Error(a, 400)
    /\ Goto(a, "complete")
    /\ UNCHANGED <<ledgerVars, paymentVars, keyVars, faults>>

HandleInvalid(a) ==
    /\ pc[a] = "handler"
    /\ ~Valid(a)
    /\ Error(a, 400)
    /\ Goto(a, "release")
    /\ UNCHANGED <<ledgerVars, paymentVars, keyVars, faults>>

HandleCreate(a) ==
    /\ pc[a] = "handler"
    /\ Valid(a)
    /\ Create(a)
    /\ Respond(a, 201, a)
    /\ Goto(a, "complete")
    /\ UNCHANGED <<keyVars, faults>>

\* ErrInsufficientFunds
HandleRefused(a) ==
    /\ pc[a] = "handler"
    /\ Valid(a)
    /\ ~Funded(PaymentEntry(a))
    /\ Error(a, 422)
    /\ Goto(a, "release")
    /\ UNCHANGED <<ledgerVars, paymentVars, keyVars, faults>>

\* The transaction fails, commits without an answer, or the handler panics
\* before or after it.
HandleFails(a) ==
    /\ Fault
    /\ pc[a] = "handler"
    /\ Valid(a)
    /\ Create(a) \/ UNCHANGED <<ledgerVars, paymentVars>>
    /\ Error(a, 500)
    /\ Goto(a, "release")
    /\ UNCHANGED keyVars

(***************************************************************************)
(* After the handler: cache a success, release the key of a failure, and   *)
(* answer.  A failure of either statement is only logged.                  *)
(***************************************************************************)
Complete(a) ==
    /\ pc[a] = "complete"
    /\ CompleteIdempotencyKey(KeyOf[a], answer[a])
    /\ Goto(a, "done")
    /\ UNCHANGED <<ledgerVars, paymentVars, lapses, answer, faults>>

\* Mutant: a completion that fails releases the key instead.
CompleteFailsReleases(a) ==
    /\ Fault
    /\ pc[a] = "complete"
    /\ DeleteIdempotencyKey(KeyOf[a])
    /\ Goto(a, "done")
    /\ UNCHANGED <<ledgerVars, paymentVars, lapses, answer>>

CompleteFails(a) ==
    /\ Fault
    /\ pc[a] = "complete"
    /\ Goto(a, "done")
    /\ UNCHANGED <<ledgerVars, paymentVars, keyVars, answer>>

Release(a) ==
    /\ pc[a] = "release"
    /\ DeleteIdempotencyKey(KeyOf[a])
    /\ lapses' = IF Present(KeyOf[a]) /\ a \in Existing
                 THEN [lapses EXCEPT ![KeyOf[a]] = @ + 1]
                 ELSE lapses
    /\ Goto(a, "done")
    /\ UNCHANGED <<ledgerVars, paymentVars, answer, faults>>

ReleaseFails(a) ==
    /\ Fault
    /\ pc[a] = "release"
    /\ Goto(a, "done")
    /\ UNCHANGED <<ledgerVars, paymentVars, keyVars, answer>>

(***************************************************************************)
(* The world around a request.                                             *)
(***************************************************************************)
Running == {a \in Attempt : pc[a] \notin {"idle", "done", "gone"}}

\* The process dies: no answer, and nothing of the middleware runs.
Crash ==
    /\ Fault
    /\ Running # {}
    /\ pc' = [a \in Attempt |-> IF a \in Running THEN "gone" ELSE pc[a]]
    /\ UNCHANGED <<ledgerVars, paymentVars, keyVars, answer>>

OtherPosting ==
    /\ \E e \in Others : PostWithin(e)
    /\ UNCHANGED <<paymentVars, keyVars, apiVars>>

Cancelling == PaymentsNext /\ UNCHANGED <<keyVars, apiVars>>

Age == \E k \in Aging : Expire(k) /\ UNCHANGED <<ledgerVars, paymentVars, apiVars>>

Sweep == SweepExpired /\ UNCHANGED <<ledgerVars, paymentVars, apiVars>>

Step(a) ==
    \/ Replay(a)
    \/ HandleInvalid(a)
    \/ HandleCreate(a)
    \/ HandleRefused(a)
    \/ Complete(a)
    \/ Release(a)

Failure(a) ==
    \/ BeginFails(a)
    \/ LoadFails(a)
    \/ HandleFails(a)
    \/ CompleteFails(a)
    \/ ReleaseFails(a)

Next ==
    \/ \E a \in Attempt : BeginFresh(a) \/ BeginTaken(a) \/ Step(a) \/ Failure(a)
    \/ Crash
    \/ OtherPosting
    \/ Cancelling
    \/ Age
    \/ Sweep

\* A request the server has accepted is run; time passes; the sweeper ticks.
Spec ==
    /\ Init /\ [][Next]_vars
    /\ \A a \in Attempt : WF_vars(Step(a))
    /\ WF_vars(Age)
    /\ WF_vars(Sweep)

(***************************************************************************)
(* Properties.                                                             *)
(***************************************************************************)
KeyRow ==
    [status : {"absent", "in_flight", "completed"},
     hash : {BodyOf[a] : a \in Attempt} \cup {NoAnswer},
     answer : [code : {201}, payment : Attempt] \cup {NoAnswer},
     expired : BOOLEAN]

\* Every variable has its type.
TypeOK ==
    /\ PaymentsTypeOK
    /\ keys \in [Key -> KeyRow]
    /\ lapses \in [Key -> Nat]
    /\ pc \in [Attempt -> {"idle", "load", "handler", "complete", "release", "done", "gone"}]
    /\ answer \in [Attempt -> [code : {201, 400, 409, 422, 500},
                               payment : Attempt \cup {NoPayment}] \cup {NoAnswer}]
    /\ faults \in 0 .. MaxFaults

Under(k) == {p \in Existing : KeyOf[p] = k}

\* ADR-0005, "at-most-once payment creation per key".
AtMostOnce == \A k \in Key : Cardinality(Under(k)) <= 1

\* withIdempotency, what its claim really gives: a key yields one payment,
\* and one more at most for each time the key was forgotten (it expired, or
\* a handler whose commit had landed released it).  In particular a failed
\* completion "fails safe", and neither a crash, a racing retry nor a stale
\* request that completes or releases a key it no longer owns adds one.
OncePerClaim == \A k \in Key : Cardinality(Under(k)) <= 1 + lapses[k]

\* What clients are told: as long as a key was never forgotten, a 201 names a
\* payment that exists and is what was asked for, all of them name the same
\* one, and a refusal (400, 422) of a request means that it made none.
TruthfulAnswers ==
    \A a \in Attempt : pc[a] = "done" /\ lapses[KeyOf[a]] = 0 =>
        /\ answer[a].code = 201 =>
             /\ answer[a].payment \in Under(KeyOf[a])
             /\ BodyOf[answer[a].payment] = BodyOf[a]
             /\ \A b \in Attempt :
                  pc[b] = "done" /\ KeyOf[b] = KeyOf[a] /\ answer[b].code = 201
                  => answer[b].payment = answer[a].payment
        /\ answer[a].code \in {400, 422} => a \notin Existing

\* RunSweeper and the release of failed claims: no key stays in flight for
\* ever, although crashes and failed statements leave some of them behind.
KeysFreed == \A k \in Aging : keys[k].status = "in_flight" ~> keys[k].status # "in_flight"
=============================================================================
