------------------------------- MODULE Submit -------------------------------
(***************************************************************************)
(* paymentrailctl submit and approve, from the operator's command to the   *)
(* chain node: screening, the four-eyes gate, the velocity limiter, the    *)
(* signer, and the broadcast with its bookkeeping.  Every command is a     *)
(* process of its own; commands run at the same time, on machines whose    *)
(* clocks differ, and may die between any two steps.  A command that is    *)
(* refused at the door (a denied destination, an unknown proposer, an      *)
(* approval that is not pending) changes nothing and is not a step.        *)
(***************************************************************************)
EXTENDS Velocity, Approval, Signer, Sequences

CONSTANTS
    Denied,         \* the intents whose destination is on the denylist
    Fee,            \* the fees per gas the node may suggest
    FeeCap,         \* PAYMENT_RAIL_CHAIN_MAX_FEE_PER_GAS_CAP_WEI
    MaxFaults       \* bound: how many calls fail, answers are lost, processes die

ASSUME SubmitAssumption ==
    /\ Denied \subseteq Intent
    /\ Fee \subseteq Nat
    /\ FeeCap \in Nat
    /\ MaxFaults \in Nat

VARIABLES
    pc,             \* where a command stands
    job,            \* what it does: [intent, approval, actor]
    tx,             \* its transaction: [intent, nonce, fee]
    pool,           \* the node's transactions of the sending account, by nonce:
                    \* [intent, fee, by], by the command that sent it (history)
    accepted,       \* history: every transaction the node has taken
    lost,           \* history: the commands whose send succeeded unheard
    links,          \* the settlement rows: [intent, hash]
    faults

vars == <<velocityVars, rows, signerVars, pc, job, tx, pool, accepted, lost, links, faults>>

NoJob == [intent |-> None, approval |-> None, actor |-> None]

NoTransaction == [intent |-> None, nonce |-> 0, fee |-> 0]

Init ==
    /\ VelocityInit
    /\ ApprovalInit
    /\ SignerInit
    /\ pc = [c \in Command |-> "ready"]
    /\ job = [c \in Command |-> NoJob]
    /\ tx = [c \in Command |-> NoTransaction]
    /\ pool = <<>>
    /\ accepted = {}
    /\ lost = {}
    /\ links = {}
    /\ faults = 0

Goto(c, l) == pc' = [pc EXCEPT ![c] = l]

\* broadcastIntent returned an error and no hash: approve goes on to reopen the
\* approval it claimed, submit is done.
Broken(c) == IF job[c].approval = None THEN "done" ELSE "reopen"

KeyIn(c) == KeyOf[job[c].intent]
AmountIn(c) == AmountOf[job[c].intent]

nodeVars == <<pool, accepted, lost, links>>

\* runSubmit, at or above the threshold: the intent is parked, not broadcast.
Park(c, i, op) ==
    /\ pc[c] = "ready"
    /\ i \notin Denied
    /\ Required(AmountOf[i])
    /\ KnownApprover(op)
    /\ Propose(c, i, op)
    /\ job' = [job EXCEPT ![c] = [intent |-> i, approval |-> None, actor |-> op]]
    /\ Goto(c, "done")
    /\ UNCHANGED <<velocityVars, signerVars, tx, nodeVars, faults>>

\* runSubmit, below the threshold: on to broadcastIntent; no proposer is needed.
SubmitNow(c, i) ==
    /\ pc[c] = "ready"
    /\ i \notin Denied
    /\ ~Required(AmountOf[i])
    /\ job' = [job EXCEPT ![c] = [intent |-> i, approval |-> None, actor |-> None]]
    /\ Goto(c, "charge")
    /\ UNCHANGED <<velocityVars, rows, signerVars, tx, nodeVars, faults>>

\* runApprove up to broadcastIntent: the claim is committed.
Approve(c, a, op) ==
    /\ pc[c] = "ready"
    /\ Claim(a, op)
    /\ job' = [job EXCEPT ![c] = [intent |-> rows[a].intent, approval |-> a, actor |-> op]]
    /\ Goto(c, "charge")
    /\ UNCHANGED <<velocityVars, signerVars, tx, nodeVars, faults>>

\* broadcastIntent, the velocity check: skipped when disabled; else the amount must
\* fit the column, and the clock is read, ...
StartCharge(c) ==
    /\ pc[c] = "charge"
    /\ IF Enabled /\ IsInt64(AmountIn(c))
       THEN /\ ReadClock(c)
            /\ Goto(c, "sum")
       ELSE /\ Goto(c, IF Enabled THEN Broken(c) ELSE "price")
            /\ UNCHANGED velocityVars
    /\ UNCHANGED <<rows, signerVars, job, tx, nodeVars, faults>>

\* ... the sum under the lock, ...
Sum(c) ==
    /\ pc[c] = "sum"
    /\ SumVelocityWindow(c, KeyIn(c))
    /\ Goto(c, "decide")
    /\ UNCHANGED <<rows, signerVars, job, tx, nodeVars, faults>>

\* ... and the event, admitted ...
Charged(c) ==
    /\ pc[c] = "decide"
    /\ InsertVelocityEvent(c, KeyIn(c), AmountIn(c))
    /\ Goto(c, "price")
    /\ UNCHANGED <<rows, signerVars, job, tx, nodeVars, faults>>

\* ... or refused, over a cap.
Exceeded(c) ==
    /\ pc[c] = "decide"
    /\ ~decide(usage[c], AmountIn(c))
    /\ RollbackCharge(c)
    /\ Goto(c, Broken(c))
    /\ UNCHANGED <<rows, signerVars, job, tx, nodeVars, faults>>

\* The dials, VerifyChainID, gasEstimate and withNonce's PendingNonceAt; each
\* command builds its own allocator, whose high-water mark is still zero.
gasEstimate(fee) == fee <= FeeCap

PendingNonceAt == Len(pool)

Price(c) ==
    /\ pc[c] = "price"
    /\ \E fee \in Fee :
          IF gasEstimate(fee)
          THEN /\ tx' = [tx EXCEPT ![c] = [intent |-> job[c].intent,
                                           nonce  |-> PendingNonceAt,
                                           fee    |-> fee]]
               /\ Goto(c, "ask")
          ELSE /\ Goto(c, Broken(c))
               /\ UNCHANGED tx
    /\ UNCHANGED <<velocityVars, rows, signerVars, job, nodeVars, faults>>

\* The signer takes the request, unless it is over the key's limit.
Ask(c) ==
    /\ pc[c] = "ask"
    /\ Admit(c, KeyIn(c), AmountIn(c))
    /\ Goto(c, "signing")
    /\ UNCHANGED <<velocityVars, rows, job, tx, nodeVars, faults>>

Declined(c) ==
    /\ pc[c] = "ask"
    /\ spent[KeyIn(c)] + AmountIn(c) > SpendLimit[KeyIn(c)]
    /\ Goto(c, Broken(c))
    /\ UNCHANGED <<velocityVars, rows, signerVars, job, tx, nodeVars, faults>>

\* The signature is made and charged; a command that gave up does not hear of it.
Signed(c) ==
    /\ \E k \in Key : c \in inside[k] /\ Sign(c, k, AmountIn(c))
    /\ Goto(c, IF pc[c] = "signing" THEN "send" ELSE pc[c])
    /\ UNCHANGED <<velocityVars, rows, job, tx, nodeVars, faults>>

\* The node takes a transaction at the next nonce, or in place of one at the same
\* nonce that pays less.
Takes(t) ==
    \/ t.nonce = Len(pool)
    \/ /\ t.nonce < Len(pool)
       /\ t.fee > pool[t.nonce + 1].fee

SendTransaction(c) ==
    LET t == tx[c]
        entry == [intent |-> t.intent, fee |-> t.fee, by |-> c]
    IN  /\ pc[c] = "send"
        /\ Takes(t)
        /\ pool' = IF t.nonce = Len(pool) THEN Append(pool, entry)
                   ELSE [pool EXCEPT ![t.nonce + 1] = entry]
        /\ accepted' = accepted \cup {t}

\* Adapter.Submit returned the hash.
Sent(c) ==
    /\ SendTransaction(c)
    /\ Goto(c, "link")
    /\ UNCHANGED <<velocityVars, rows, signerVars, job, tx, lost, links, faults>>

\* Mutant: the error of SendTransaction is ignored.
RefusedUnseen(c) ==
    /\ pc[c] = "send"
    /\ ~Takes(tx[c])
    /\ Goto(c, "link")
    /\ UNCHANGED <<velocityVars, rows, signerVars, job, tx, nodeVars, faults>>

\* The node refuses the nonce: SendTransaction's error, and no hash.
Refused(c) ==
    /\ pc[c] = "send"
    /\ ~Takes(tx[c])
    /\ Goto(c, Broken(c))
    /\ UNCHANGED <<velocityVars, rows, signerVars, job, tx, nodeVars, faults>>

\* recorder.Link; submit is done with it.
Link(c) ==
    /\ pc[c] = "link"
    /\ links' = links \cup {[intent |-> job[c].intent, hash |-> tx[c]]}
    /\ Goto(c, IF job[c].approval = None THEN "done" ELSE "mark")
    /\ UNCHANGED <<velocityVars, rows, signerVars, job, tx, pool, accepted, lost, faults>>

\* MarkBroadcast, best effort.
Mark(c) ==
    /\ pc[c] = "mark"
    /\ MarkBroadcast(job[c].approval, tx[c])
    /\ Goto(c, "done")
    /\ UNCHANGED <<velocityVars, signerVars, job, tx, nodeVars, faults>>

\* approve's answer to an error without a hash
ReopenClaim(c) ==
    /\ pc[c] = "reopen"
    /\ Reopen(job[c].approval)
    /\ Goto(c, "done")
    /\ UNCHANGED <<velocityVars, signerVars, job, tx, nodeVars, faults>>

-----------------------------------------------------------------------------
(* What goes wrong *)

\* A query, a dial or a call of broadcastIntent fails before anything is sent; a
\* request already in the signer's hands is signed all the same.
CallFails(c) ==
    /\ pc[c] \in {"charge", "sum", "decide", "price", "ask", "signing", "send"}
    /\ RollbackCharge(c)
    /\ Goto(c, Broken(c))
    /\ UNCHANGED <<rows, signerVars, job, tx, nodeVars>>

\* The velocity event is committed, and the commit's answer is lost.
ChargeUnheard(c) ==
    /\ pc[c] = "decide"
    /\ InsertVelocityEvent(c, KeyIn(c), AmountIn(c))
    /\ Goto(c, Broken(c))
    /\ UNCHANGED <<rows, signerVars, job, tx, nodeVars>>

\* The node takes the transaction, and its answer is lost: the adapter returns
\* ErrBroadcast and no hash.
SentUnheard(c) ==
    /\ SendTransaction(c)
    /\ lost' = lost \cup {c}
    /\ Goto(c, Broken(c))
    /\ UNCHANGED <<velocityVars, rows, signerVars, job, tx, links>>

\* The command is killed; or its link, mark or reopen fails and it returns.
Stops(c) ==
    /\ pc[c] \notin {"ready", "done"}
    /\ RollbackCharge(c)
    /\ Goto(c, "done")
    /\ UNCHANGED <<rows, signerVars, job, tx, nodeVars>>

\* The signer fails to sign, ...
SigningFails(c) ==
    /\ \E k \in Key : SignFails(c, k)
    /\ Goto(c, IF pc[c] = "signing" THEN Broken(c) ELSE pc[c])
    /\ UNCHANGED <<velocityVars, rows, job, tx, nodeVars>>

\* ... or is restarted, and the requests inside it fail.
SignerRestarts ==
    /\ Restart
    /\ pc' = [c \in Command |-> IF pc[c] = "signing" THEN Broken(c) ELSE pc[c]]
    /\ UNCHANGED <<velocityVars, rows, job, tx, nodeVars>>

Fault ==
    /\ faults < MaxFaults
    /\ faults' = faults + 1
    /\ \/ \E c \in Command : \/ CallFails(c) \/ ChargeUnheard(c) \/ SentUnheard(c)
                             \/ Stops(c) \/ SigningFails(c)
       \/ SignerRestarts

Start(c) ==
    \/ \E i \in Intent : SubmitNow(c, i) \/ \E op \in Operator : Park(c, i, op)
    \/ \E a \in Command, op \in Operator : Approve(c, a, op)

Step(c) ==
    \/ StartCharge(c) \/ Sum(c) \/ Charged(c) \/ Exceeded(c)
    \/ Price(c) \/ Ask(c) \/ Declined(c) \/ Signed(c)
    \/ Sent(c) \/ Refused(c) \/ Link(c) \/ Mark(c) \/ ReopenClaim(c)

Next ==
    \/ \E c \in Command : Start(c) \/ Step(c)
    \/ Fault

Spec == Init /\ [][Next]_vars

-----------------------------------------------------------------------------
(* Properties *)

\* The node's transactions sent on behalf of approval a, by position.
For(a) == {n \in DOMAIN pool : job[pool[n].by].approval = a}

\* Four eyes: a transaction at or above the threshold is in the node's hands only
\* for a proposal of one operator of the allowlist that another one claimed, and
\* it carries the very intent that was parked.
FourEyes ==
    \A n \in DOMAIN pool :
        Required(AmountOf[pool[n].intent]) =>
            LET by == job[pool[n].by]
            IN  /\ by.approval \in Command
                /\ rows[by.approval].intent = pool[n].intent
                /\ rows[by.approval].proposer \in Approvers
                /\ by.actor \in Approvers \ {rows[by.approval].proposer}

\* An approval is sent at most once, not counting the sends whose answers were
\* lost; and one that is open again has no send behind it but those.  Claims,
\* reopenings, crashes and replaced nonces never add a second one.
SentOnce ==
    \A a \in Command :
        LET heard == {n \in For(a) : pool[n].by \notin lost}
        IN  /\ \A m, n \in heard : m = n
            /\ rows[a].status = "pending" => heard = {}

\* Every hash on record (an approval's tx_hash, a settlement's link) is of a
\* transaction of that payment which the node did take.
TrueRecords ==
    /\ \A a \in Command : rows[a].hash # None =>
          /\ rows[a].hash \in accepted
          /\ rows[a].hash.intent = rows[a].intent
    /\ \A l \in links : l.hash \in accepted /\ l.hash.intent = l.intent

\* What approve.go says of an error without a hash: "NOTHING was broadcast, so it
\* is safe to reopen the row to pending and let a retry re-claim it after the
\* cause is fixed -- no double-send is possible."
NoDoubleSend == \A a \in Command : \A m, n \in For(a) : m = n
=============================================================================
