------------------------------- MODULE Signer -------------------------------
(***************************************************************************)
(* The isolated signer (internal/signer behind cmd/signer): a cumulative   *)
(* spend limit per key, checked, signed under and committed as one         *)
(* critical section of the key's bucket.  The counter lives in the         *)
(* process's memory and starts at zero with it.                            *)
(***************************************************************************)
EXTENDS Intents

CONSTANT SpendLimit     \* a key's spend_limit

ASSUME SignerAssumption == SpendLimit \in [Key -> Nat]

VARIABLES
    spent,          \* bucket.spent
    inside,         \* the commands whose requests are inside charge, by key
    next,           \* the new total each of them computed
    issued          \* history: the amount signed for since the process started

signerVars == <<spent, inside, next, issued>>

\* LoadKeyring builds a fresh bucket for every key of the manifest.
SignerInit ==
    /\ spent = [k \in Key |-> 0]
    /\ inside = [k \in Key |-> {}]
    /\ next = [c \in Command |-> 0]
    /\ issued = [k \in Key |-> 0]

\* Mutant: the check is made without the key's lock.
AdmitUnlocked(c, k, amount) ==
    /\ spent[k] + amount <= SpendLimit[k]
    /\ inside' = [inside EXCEPT ![k] = @ \cup {c}]
    /\ next' = [next EXCEPT ![c] = spent[k] + amount]
    /\ UNCHANGED <<spent, issued>>

\* charge up to the call of sign: bucket.mu is taken, the total is within the limit.
Admit(c, k, amount) ==
    /\ inside[k] = {}
    /\ spent[k] + amount <= SpendLimit[k]
    /\ inside' = [inside EXCEPT ![k] = @ \cup {c}]
    /\ next' = [next EXCEPT ![c] = spent[k] + amount]
    /\ UNCHANGED <<spent, issued>>

\* sign returned a transaction: the new total is committed, the lock released.
Sign(c, k, amount) ==
    /\ c \in inside[k]
    /\ spent' = [spent EXCEPT ![k] = next[c]]
    /\ issued' = [issued EXCEPT ![k] = @ + amount]
    /\ inside' = [inside EXCEPT ![k] = @ \ {c}]
    /\ next' = [next EXCEPT ![c] = 0]

\* sign returned an error: nothing is committed.
SignFails(c, k) ==
    /\ c \in inside[k]
    /\ inside' = [inside EXCEPT ![k] = @ \ {c}]
    /\ next' = [next EXCEPT ![c] = 0]
    /\ UNCHANGED <<spent, issued>>

\* The process is restarted: the keyring is loaded again.
Restart ==
    /\ spent' = [k \in Key |-> 0]
    /\ inside' = [k \in Key |-> {}]
    /\ next' = [c \in Command |-> 0]
    /\ issued' = [k \in Key |-> 0]

\* What a running signer has signed for with a key never adds up to more than the
\* key's limit, however the requests of several commands meet (what limiter.go
\* says the bucket enforces; per process, so a restart starts a new sum).
SignedWithinLimit == \A k \in Key : issued[k] <= SpendLimit[k]
=============================================================================
