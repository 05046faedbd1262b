------------------------------ MODULE Approval ------------------------------
(***************************************************************************)
(* The four-eyes gate (internal/policy/approval.go) and the                *)
(* payment_approvals table behind it (cmd/paymentrailctl/approvalstore.go).*)
(* An approval is named after the submit command that proposed it.         *)
(***************************************************************************)
EXTENDS Intents

CONSTANTS
    Operator,       \* the handles operators give
    Approvers,      \* the allowlist
    Threshold       \* the amount from which a second operator is needed; 0: disabled

ASSUME ApprovalAssumption ==
    /\ Approvers \subseteq Operator
    /\ Threshold \in Nat
    /\ Threshold > 0 => Approvers # {}    \* buildApprovalGate refuses the rest
    /\ None \notin Operator

VARIABLE rows       \* payment_approvals: [status, intent, proposer, approver, hash]

NoRow == [status |-> "absent", intent |-> None, proposer |-> None,
          approver |-> None, hash |-> None]

ApprovalInit == rows = [a \in Command |-> NoRow]

Required(amount) == Threshold > 0 /\ amount >= Threshold

KnownApprover(op) == op \in Approvers

\* Mutant: whoever is on the allowlist may approve.
AuthorizeAnyone(proposer, approver) == KnownApprover(approver)

Authorize(proposer, approver) == KnownApprover(approver) /\ approver # proposer

\* The insert and its audit entry share a transaction.
Propose(a, intent, op) ==
    /\ rows[a].status = "absent"
    /\ IsInt64(AmountOf[intent])
    /\ rows' = [rows EXCEPT ![a] = [NoRow EXCEPT !.status = "pending",
                                                 !.intent = intent,
                                                 !.proposer = op]]

\* Mutant: a claimed approval can be claimed again.
ClaimAgain(a, op) ==
    /\ rows[a].status # "absent"
    /\ Authorize(rows[a].proposer, op)
    /\ rows' = [rows EXCEPT ![a].status = "approved", ![a].approver = op]

\* One transaction: SELECT ... FOR UPDATE, decide, the guarded UPDATE, the audit entry.
Claim(a, op) ==
    /\ rows[a].status = "pending"
    /\ Authorize(rows[a].proposer, op)
    /\ rows' = [rows EXCEPT ![a].status = "approved", ![a].approver = op]

Unsent(a) == rows[a].status = "approved" /\ rows[a].hash = None

MarkBroadcast(a, hash) ==
    /\ Unsent(a)
    /\ rows' = [rows EXCEPT ![a].hash = hash]

Reopen(a) ==
    /\ Unsent(a)
    /\ rows' = [rows EXCEPT ![a].status = "pending", ![a].approver = None]
=============================================================================
