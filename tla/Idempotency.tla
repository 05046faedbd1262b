---------------------------- MODULE Idempotency -----------------------------
(***************************************************************************)
(* The idempotency_keys table of internal/payments/idempotency.go: every   *)
(* operation is one statement of its own, outside the payment's            *)
(* transaction, and addresses the row by its key alone.                    *)
(***************************************************************************)
EXTENDS Integers

CONSTANTS
    Key,        \* the Idempotency-Key headers clients send
    NoAnswer    \* no response

VARIABLES
    keys,       \* the row of every key: [status, hash, answer, expired]
    lapses      \* history: how often a key was forgotten after a payment under
                \* it may have been made (it expired, or its claim was released
                \* although the payment had been committed)

keyVars == <<keys, lapses>>

NoRow == [status |-> "absent", hash |-> NoAnswer, answer |-> NoAnswer, expired |-> FALSE]

KeysInit ==
    /\ keys = [k \in Key |-> NoRow]
    /\ lapses = [k \in Key |-> 0]

Present(k) == keys[k].status # "absent"

\* INSERT ... ON CONFLICT DO NOTHING, when it inserts
InsertIdempotencyKey(k, hash) ==
    /\ ~Present(k)
    /\ keys' = [keys EXCEPT ![k] = [NoRow EXCEPT !.status = "in_flight", !.hash = hash]]

\* UPDATE ... WHERE key = $1: no row, no effect
CompleteIdempotencyKey(k, answer) ==
    keys' = IF Present(k)
            THEN [keys EXCEPT ![k].status = "completed", ![k].answer = answer]
            ELSE keys

DeleteIdempotencyKey(k) == keys' = [keys EXCEPT ![k] = NoRow]

\* The row passes the time to live.
Expire(k) ==
    /\ Present(k)
    /\ ~keys[k].expired
    /\ keys' = [keys EXCEPT ![k].expired = TRUE]
    /\ UNCHANGED lapses

\* Mutant: the sweeper spares the rows in flight.
SweepCompleted ==
    LET old == {k \in Key : keys[k].expired /\ keys[k].status = "completed"}
    IN  /\ old # {}
        /\ keys' = [k \in Key |-> IF k \in old THEN NoRow ELSE keys[k]]
        /\ lapses' = [k \in Key |-> IF k \in old THEN lapses[k] + 1 ELSE lapses[k]]

\* DELETE ... WHERE created_at < cutoff, whatever the status
SweepExpired ==
    LET old == {k \in Key : keys[k].expired}
    IN  /\ old # {}
        /\ keys' = [k \in Key |-> IF k \in old THEN NoRow ELSE keys[k]]
        /\ lapses' = [k \in Key |-> IF k \in old THEN lapses[k] + 1 ELSE lapses[k]]
=============================================================================
