------------------------------- MODULE Intents ------------------------------
(***************************************************************************)
(* What the commands of cmd/paymentrailctl work on: the frozen payment     *)
(* intents (policy.Intent) and the operators' runs of the tool.            *)
(***************************************************************************)
EXTENDS Integers

CONSTANTS
    Command,        \* the runs of paymentrailctl submit and approve
    Intent,         \* the payments operators submit
    Key,            \* the signing keys
    KeyOf,          \* an intent's key
    AmountOf,       \* an intent's amount
    MaxInt64,       \* the largest amount a BIGINT column holds
    None            \* a NULL column, an empty field, an unlocked lock

ASSUME IntentsAssumption ==
    /\ KeyOf \in [Intent -> Key]
    /\ AmountOf \in [Intent -> Nat \ {0}]    \* submit refuses an amount <= 0
    /\ MaxInt64 \in Nat
    /\ None \notin Command
    /\ None \notin Intent

\* big.Int.IsInt64, of a positive amount
IsInt64(amount) == amount <= MaxInt64
=============================================================================
