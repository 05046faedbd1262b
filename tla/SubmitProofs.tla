---------------------------- MODULE SubmitProofs ----------------------------
(***************************************************************************)
(* What the commands that submit guarantee, for any commands, intents,     *)
(* keys, operators, clocks, caps and number of faults: the invariant CInv  *)
(* of the commands and of the approvals they claim, the invariant VInv of  *)
(* the velocity limiter, the invariant GInv of the signer, and what        *)
(* follows from them.                                                      *)
(***************************************************************************)
EXTENDS Submit, Sums, TLAPS

Labels == {"ready", "charge", "sum", "decide", "price", "ask", "signing", "send",
           "link", "mark", "reopen", "done"}

Job == [intent : Intent \cup {None}, approval : Command \cup {None},
        actor : Operator \cup {None}]

\* What a command that has started works on.
JobTypes ==
    /\ pc \in [Command -> Labels]
    /\ job \in [Command -> Job]
    /\ \A c \in Command : pc[c] # "ready" => job[c].intent \in Intent

-----------------------------------------------------------------------------
(* The commands and the approvals they claim *)

Tx == [intent : Intent \cup {None}, nonce : Nat, fee : Nat]

Entry == [intent : Intent, fee : Nat, by : Command]

Row == [status : {"absent", "pending", "approved"}, intent : Intent \cup {None},
        proposer : Operator \cup {None}, approver : Operator \cup {None},
        hash : Tx \cup {None}]

Active(c) == pc[c] \notin {"ready", "done"}

\* A hash is recorded on an approved row only, and stays.
PendingUnsent == \A a \in Command : rows[a].status = "pending" => rows[a].hash = None

CTypes ==
    /\ JobTypes
    /\ tx \in [Command -> Tx]
    /\ pool \in Seq(Entry)
    /\ rows \in [Command -> Row]
    /\ \A a \in Command : rows[a].status # "absent" =>
          rows[a].intent \in Intent /\ rows[a].proposer \in Approvers
    /\ PendingUnsent

\* A command with an approval has claimed it as someone else than its proposer;
\* while it runs, the row is its own.
Owned ==
    /\ \A c \in Command : pc[c] = "ready" => job[c].approval = None
    /\ \A c \in Command : pc[c] \in {"mark", "reopen"} => job[c].approval # None
    /\ \A c \in Command : job[c].approval # None =>
          /\ rows[job[c].approval].status # "absent"
          /\ rows[job[c].approval].intent = job[c].intent
          /\ job[c].actor \in Approvers \ {rows[job[c].approval].proposer}
    /\ \A c \in Command : Active(c) /\ job[c].approval # None => Unsent(job[c].approval)
    /\ \A c, d \in Command : Active(c) /\ Active(d) /\ job[c].approval = job[d].approval =>
          job[c].approval = None \/ c = d

\* A command without an approval broadcasts less than the threshold.
Small ==
    \A c \in Command : Active(c) /\ job[c].approval = None => ~Required(AmountIn(c))

\* The transaction a command has built is for its intent; once it has a hash to
\* record, the node has taken it.
Carried ==
    /\ \A c \in Command : pc[c] \in {"ask", "signing", "send", "link", "mark"} =>
          tx[c].intent = job[c].intent
    /\ \A c \in Command : pc[c] \in {"link", "mark"} => tx[c] \in accepted

\* Whoever has a transaction at the node is past sending it, and reopens its
\* approval only if it has not heard.
Pooled ==
    \A n \in DOMAIN pool :
        LET c == pool[n].by
        IN  /\ pc[c] \in {"link", "mark", "reopen", "done"}
            /\ pool[n].intent = job[c].intent
            /\ job[c].approval = None => ~Required(AmountOf[pool[n].intent])
            /\ pc[c] = "reopen" => c \in lost

\* An approval that was sent, and heard of, stays approved, and nobody but the
\* command that sent it is still working on it.
HeardHolds ==
    \A n \in DOMAIN pool :
        LET c == pool[n].by
            a == job[c].approval
        IN  c \notin lost /\ a # None =>
                /\ rows[a].status = "approved"
                /\ \A d \in Command : Active(d) /\ job[d].approval = a =>
                      d = c /\ pc[d] \in {"link", "mark"}

CInv == CTypes /\ Owned /\ Small /\ Carried /\ Pooled /\ HeardHolds /\ SentOnce /\ TrueRecords

Early == {"charge", "sum", "decide", "price", "ask", "signing", "send"}

Carrying == {"ask", "signing", "send"}

\* What the node's pool holds.
LEMMA PoolTypes ==
  ASSUME CTypes, NEW n \in DOMAIN pool
  PROVE  pool[n] \in Entry /\ pool[n].by \in Command /\ pool[n].intent \in Intent
<1>1. pool[n] \in Entry
  BY DEF CTypes
<1> QED
  BY <1>1, Zenon DEF Entry

LEMMA CInit == Init => CInv
<1> SUFFICES ASSUME Init PROVE CInv
  BY Zenon
<1> USE DEF Init, ApprovalInit, NoJob, NoRow, NoTransaction
<1>1. CTypes
  BY IntentsAssumption DEF CTypes, PendingUnsent, JobTypes, Labels, Job, Tx, Row
<1>2. DOMAIN pool = {}
  OBVIOUS
<1>3. Owned /\ Small /\ Carried
  BY Zenon DEF Owned, Small, Carried, Active
<1>4. Pooled /\ HeardHolds /\ SentOnce
  BY <1>2, Zenon DEF Pooled, HeardHolds, SentOnce, For
<1>5. TrueRecords
  BY Zenon DEF TrueRecords
<1> QED
  BY <1>1, <1>3, <1>4, <1>5, Zenon DEF CInv

\* A step of a command on its way to the node, or one that ends it.
LEMMA CMoves ==
  ASSUME CInv, UNCHANGED <<rows, job, nodeVars>>,
         tx' \in [Command -> Tx], pc' \in [Command -> Labels],
         \A c \in Command :
            \/ pc'[c] = pc[c] /\ tx'[c] = tx[c]
            \/ pc[c] # "ready" /\ pc'[c] = "done"
            \/ /\ pc[c] \in Early
               /\ pc'[c] \in Early \cup {"reopen"}
               /\ pc'[c] = "reopen" => job[c].approval # None
               /\ pc'[c] \in Carrying => tx'[c].intent = job[c].intent
  PROVE  CInv'
<1> USE DEF nodeVars
<1>1. CTypes'
  BY Zenon DEF CInv, CTypes, PendingUnsent, JobTypes, Early
<1>2. \A c \in Command : /\ Active(c)' => Active(c)
                         /\ pc'[c] = "ready" => pc[c] = "ready"
                         /\ pc'[c] \in {"link", "mark"} => pc'[c] = pc[c] /\ tx'[c] = tx[c]
  BY Zenon DEF Active, Early
<1>3. Owned'
  BY <1>2 DEF CInv, Owned, Unsent, Early, Active
<1>4. Small'
  BY <1>2, Zenon DEF CInv, Small, AmountIn
<1>5. Carried'
  BY <1>2, Zenon DEF CInv, Carried, Early, Carrying
<1>6. Pooled'
  <2> SUFFICES ASSUME NEW n \in DOMAIN pool
               PROVE  LET c == pool[n].by
                      IN  /\ pc'[c] \in {"link", "mark", "reopen", "done"}
                          /\ pool[n].intent = job[c].intent
                          /\ job[c].approval = None => ~Required(AmountOf[pool[n].intent])
                          /\ pc'[c] = "reopen" => c \in lost
    BY Zenon DEF Pooled
  <2>1. pool[n].by \in Command
    BY PoolTypes, Zenon DEF CInv
  <2> QED
    BY <2>1, Zenon DEF CInv, Pooled, Early
<1>7. HeardHolds'
  <2> SUFFICES ASSUME NEW n \in DOMAIN pool, pool[n].by \notin lost,
                      job[pool[n].by].approval # None
               PROVE  /\ rows[job[pool[n].by].approval].status = "approved"
                      /\ \A d \in Command :
                            Active(d)' /\ job[d].approval = job[pool[n].by].approval =>
                                d = pool[n].by /\ pc'[d] \in {"link", "mark"}
    BY Zenon DEF HeardHolds
  <2>1. \A d \in Command : Active(d) /\ job[d].approval = job[pool[n].by].approval =>
                              d = pool[n].by /\ pc[d] \in {"link", "mark"}
    BY Zenon DEF CInv, HeardHolds
  <2>2. \A d \in Command : Active(d)' /\ pc[d] \in {"link", "mark"} => pc'[d] = pc[d]
    BY Zenon DEF Active, Early
  <2> QED
    BY <1>2, <2>1, <2>2, Zenon DEF CInv, HeardHolds
<1>8. SentOnce' /\ TrueRecords'
  BY DEF CInv, SentOnce, For, TrueRecords
<1> QED
  BY <1>1, <1>3, <1>4, <1>5, <1>6, <1>7, <1>8, Zenon DEF CInv

\* A proposal: the row is new, so no command has it.
LEMMA CPark ==
  ASSUME CInv, NEW c \in Command, NEW i \in Intent, NEW op \in Operator, Park(c, i, op)
  PROVE  CInv'
<1> USE DEF Park, Propose, Goto, nodeVars
<1>0. /\ pc[c] = "ready" /\ pc'[c] = "done"
      /\ \A d \in Command \ {c} : pc'[d] = pc[d] /\ job'[d] = job[d]
      /\ job[c].approval = None /\ job'[c].approval = None
      /\ rows[c].status = "absent"
      /\ \A a \in Command \ {c} : rows'[a] = rows[a]
  BY Zenon DEF CInv, CTypes, JobTypes, Job, Owned
<1>n. rows'[c] = [status |-> "pending", intent |-> i, proposer |-> op,
                  approver |-> None, hash |-> None]
  BY Zenon DEF CInv, CTypes, NoRow
<1>a. \A d \in Command : job[d].approval # c
  <2> SUFFICES ASSUME NEW d \in Command, job[d].approval = c PROVE FALSE
    BY Zenon
  <2>1. job[d].approval # None
    BY IntentsAssumption, Zenon
  <2> QED
    BY <1>0, <2>1, Zenon DEF CInv, Owned
<1>t. \A d \in Command : job[d].approval \in Command \cup {None}
  BY Zenon DEF CInv, CTypes, JobTypes, Job
<1>1. CTypes'
  <2>1. JobTypes'
    BY Zenon DEF CInv, CTypes, JobTypes, Labels, Job
  <2>2. rows' \in [Command -> Row]
    <3>1. rows'[c] \in Row
      <4> HIDE DEF Park
      <4> QED
        BY <1>n DEF Row
    <3>2. rows' = [rows EXCEPT ![c] = rows'[c]] /\ rows \in [Command -> Row]
      BY Zenon DEF CInv, CTypes, NoRow
    <3> QED
      BY <3>1, <3>2, Zenon
  <2>3. PendingUnsent'
    <3> HIDE DEF Park
    <3>1. rows'[c].hash = None
      BY <1>n
    <3> QED
      BY <1>0, <3>1, Zenon DEF CInv, CTypes, PendingUnsent
  <2> QED
    BY <1>0, <1>n, <2>1, <2>2, <2>3 DEF CInv, CTypes, KnownApprover
<1>2. \A d \in Command : Active(d)' <=> Active(d)
  BY <1>0, Zenon DEF Active
<1>b. \A n \in DOMAIN pool : pool[n].by \in Command /\ pool[n].by # c
  BY <1>0, PoolTypes, Zenon DEF CInv, Pooled
<1>3. Owned'
  <2>1. \A d \in Command : job'[d].approval = job[d].approval
    BY <1>0, Zenon
  <2>2. \A d \in Command : job[d].approval # None =>
            d # c /\ rows'[job[d].approval] = rows[job[d].approval]
    BY <1>0, <1>a, <1>t, Zenon
  <2> QED
    BY <1>0, <1>2, <2>1, <2>2 DEF CInv, Owned, Unsent
<1>4. Small' /\ Carried'
  BY <1>0, <1>2 DEF CInv, Small, Carried, AmountIn, Active
<1>5. Pooled'
  BY <1>0, <1>b DEF CInv, Pooled
<1>6. HeardHolds'
  <2> SUFFICES ASSUME NEW n \in DOMAIN pool, pool[n].by \notin lost,
                      job'[pool[n].by].approval # None
               PROVE  /\ rows'[job'[pool[n].by].approval].status = "approved"
                      /\ \A d \in Command :
                            Active(d)' /\ job'[d].approval = job'[pool[n].by].approval =>
                                d = pool[n].by /\ pc'[d] \in {"link", "mark"}
    BY DEF HeardHolds
  <2>1. job'[pool[n].by] = job[pool[n].by]
    BY <1>0, <1>b, Zenon
  <2>2. rows'[job[pool[n].by].approval] = rows[job[pool[n].by].approval]
    BY <1>0, <1>a, <1>b, <1>t, <2>1
  <2> QED
    BY <1>0, <1>2, <2>1, <2>2 DEF CInv, HeardHolds
<1>7. SentOnce'
  <2>1. \A a \in Command : For(a)' = For(a)
    BY <1>0, <1>b DEF For
  <2>2. For(c) = {}
    BY <1>a, <1>b, Zenon DEF For
  <2> QED
    BY <1>0, <2>1, <2>2 DEF CInv, SentOnce
<1>8. TrueRecords'
  <2>1. rows'[c].hash = None
    <3> HIDE DEF Park
    <3> QED
      BY <1>n
  <2> QED
    BY <1>0, <2>1 DEF CInv, TrueRecords
<1> QED
  BY <1>1, <1>3, <1>4, <1>5, <1>6, <1>7, <1>8, Zenon DEF CInv

\* A command that starts has nothing at the node.
LEMMA Unpooled ==
  ASSUME CInv, NEW c \in Command, pc[c] \in Early \cup {"ready"}
  PROVE  \A n \in DOMAIN pool : pool[n].by \in Command \ {c}
  BY PoolTypes, Zenon DEF CInv, Pooled, Early

\* A payment below the threshold goes straight on.
LEMMA CSubmitNow ==
  ASSUME CInv, NEW c \in Command, NEW i \in Intent, SubmitNow(c, i)
  PROVE  CInv'
<1> USE DEF SubmitNow, Goto, nodeVars
<1>0. /\ pc[c] = "ready" /\ pc'[c] = "charge"
      /\ \A d \in Command \ {c} : pc'[d] = pc[d] /\ job'[d] = job[d]
      /\ job[c].approval = None
      /\ job'[c] = [intent |-> i, approval |-> None, actor |-> None]
  BY Zenon DEF CInv, CTypes, JobTypes, Job, Owned
<1>b. \A n \in DOMAIN pool : pool[n].by \in Command \ {c}
  BY <1>0, Unpooled, Zenon
<1>1. CTypes'
  <2>1. JobTypes'
    BY Zenon DEF CInv, CTypes, JobTypes, Labels, Job
  <2> QED
    BY <2>1, Zenon DEF CInv, CTypes, PendingUnsent
<1>2. Owned'
  <2>1. \A d \in Command : job'[d].approval = job[d].approval
    BY <1>0
  <2>2. \A d \in Command : job[d].approval # None => d # c
    BY <1>0, Zenon
  <2> QED
    BY <1>0, <2>1, <2>2 DEF CInv, Owned, Unsent, Active
<1>3. Small' /\ Carried'
  BY <1>0 DEF CInv, Small, Carried, AmountIn, Active
<1>4. Pooled'
  BY <1>0, <1>b DEF CInv, Pooled
<1>5. HeardHolds'
  BY <1>0, <1>b DEF CInv, HeardHolds, Active
<1>6. SentOnce'
  <2>1. \A a \in Command : For(a)' = For(a)
    BY <1>0, <1>b DEF For
  <2> QED
    BY <2>1 DEF CInv, SentOnce
<1>7. TrueRecords'
  BY Zenon DEF CInv, TrueRecords
<1> QED
  BY <1>1, <1>2, <1>3, <1>4, <1>5, <1>6, <1>7, Zenon DEF CInv

\* A claim: the row was pending, so nobody else has it and no send was heard of.
LEMMA CApprove ==
  ASSUME CInv, NEW c \in Command, NEW b \in Command, NEW op \in Operator, Approve(c, b, op)
  PROVE  CInv'
<1>0. /\ pc[c] = "ready" /\ pc'[c] = "charge"
      /\ \A d \in Command \ {c} : pc'[d] = pc[d] /\ job'[d] = job[d]
      /\ job[c].approval = None
      /\ job'[c] = [intent |-> rows[b].intent, approval |-> b, actor |-> op]
      /\ rows[b].status = "pending"
      /\ \A a \in Command \ {b} : rows'[a] = rows[a]
      /\ pc' = [pc EXCEPT ![c] = "charge"]
      /\ job' = [job EXCEPT ![c] = [intent |-> rows[b].intent, approval |-> b, actor |-> op]]
      /\ UNCHANGED <<tx, pool, accepted, lost, links>>
  BY Zenon DEF Approve, Claim, Goto, nodeVars, CInv, CTypes, JobTypes, Job, Owned
<1>r. /\ rows[b] \in Row
      /\ rows'[b] = [rows[b] EXCEPT !.status = "approved", !.approver = op]
      /\ rows' = [rows EXCEPT ![b] = rows'[b]] /\ rows \in [Command -> Row]
  BY Zenon DEF Approve, Claim, CInv, CTypes
<1>n. /\ rows'[b] \in Row
      /\ rows'[b].status = "approved"
      /\ rows'[b].intent = rows[b].intent
      /\ rows'[b].proposer = rows[b].proposer
      /\ rows'[b].hash = rows[b].hash
  BY <1>r, Zenon DEF Row
<1>u. /\ rows[b].intent \in Intent /\ rows[b].proposer \in Approvers
      /\ op \in Approvers \ {rows[b].proposer}
      /\ b # None
  BY <1>0, IntentsAssumption, Zenon DEF Approve, Claim, CInv, CTypes, Authorize, KnownApprover
<1>p. \A n \in DOMAIN pool : pool[n].by \in Command \ {c}
  BY <1>0, Unpooled, Zenon
<1>a. \A d \in Command : Active(d) => job[d].approval # b
  BY <1>0, <1>u, Zenon DEF CInv, Owned, Unsent
<1>t. \A d \in Command : job[d].approval \in Command \cup {None}
  BY Zenon DEF CInv, CTypes, JobTypes, Job
<1>h. rows[b].hash = None
  BY <1>0, Zenon DEF CInv, CTypes, PendingUnsent
<1>1. CTypes'
  <2>1. JobTypes'
    BY <1>0, <1>u, Zenon DEF CInv, CTypes, JobTypes, Labels, Job
  <2>2. rows' \in [Command -> Row]
    BY <1>r, <1>n, Zenon
  <2>3. \A a \in Command : rows'[a].status # "absent" =>
          rows'[a].intent \in Intent /\ rows'[a].proposer \in Approvers
    BY <1>0, <1>n, <1>u DEF CInv, CTypes
  <2>4. PendingUnsent'
    BY <1>0, <1>n DEF CInv, CTypes, PendingUnsent
  <2> QED
    BY <1>0, <2>1, <2>2, <2>3, <2>4, Zenon DEF CInv, CTypes
<1>k. \A a \in Command : /\ rows'[a].intent = rows[a].intent
                         /\ rows'[a].proposer = rows[a].proposer
                         /\ rows'[a].hash = rows[a].hash
                         /\ rows[a].status # "absent" => rows'[a].status # "absent"
                         /\ rows[a].status = "approved" => rows'[a].status = "approved"
  BY <1>0, <1>n, Zenon
<1>2. Owned'
  <2>1. ASSUME NEW d \in Command, job'[d].approval # None
        PROVE  /\ rows'[job'[d].approval].status # "absent"
               /\ rows'[job'[d].approval].intent = job'[d].intent
               /\ job'[d].actor \in Approvers \ {rows'[job'[d].approval].proposer}
    <3>1. CASE d = c
      BY <1>0, <1>n, <1>u, <3>1
    <3>2. CASE d # c
      BY <1>0, <1>k, <1>t, <2>1, <3>2 DEF CInv, Owned
    <3> QED
      BY <3>1, <3>2, Zenon
  <2>2. ASSUME NEW d \in Command, Active(d)', job'[d].approval # None
        PROVE  Unsent(job[d].approval)'
    <3>1. CASE d = c
      BY <1>0, <1>n, <1>h, <3>1 DEF Unsent
    <3>2. CASE d # c
      BY <1>0, <1>k, <1>t, <2>2, <3>2 DEF CInv, Owned, Unsent, Active
    <3> QED
      BY <3>1, <3>2, Zenon
  <2>3. ASSUME NEW d \in Command, NEW f \in Command, Active(d)', Active(f)',
               job'[d].approval = job'[f].approval
        PROVE  job'[d].approval = None \/ d = f
    BY <1>0, <1>a, <2>3 DEF CInv, Owned, Active
  <2>4. /\ \A d \in Command : pc'[d] = "ready" => job'[d].approval = None
        /\ \A d \in Command : pc'[d] \in {"mark", "reopen"} => job'[d].approval # None
    BY <1>0 DEF CInv, Owned
  <2> QED
    BY <2>1, <2>2, <2>3, <2>4, Zenon DEF Owned
<1>3. Small' /\ Carried'
  BY <1>0, <1>u DEF CInv, Small, Carried, AmountIn, Active
<1>4. Pooled'
  BY <1>0, <1>p DEF CInv, Pooled
<1>e. \A n \in DOMAIN pool : pool[n].by \notin lost => job[pool[n].by].approval # b
  BY <1>0, Zenon DEF CInv, SentOnce, For
<1>5. HeardHolds'
  <2> SUFFICES ASSUME NEW n \in DOMAIN pool, pool[n].by \notin lost,
                      job'[pool[n].by].approval # None
               PROVE  /\ rows'[job'[pool[n].by].approval].status = "approved"
                      /\ \A d \in Command :
                            Active(d)' /\ job'[d].approval = job'[pool[n].by].approval =>
                                d = pool[n].by /\ pc'[d] \in {"link", "mark"}
    BY <1>0 DEF HeardHolds
  <2>1. job'[pool[n].by] = job[pool[n].by] /\ job[pool[n].by].approval \in Command \ {b}
    BY <1>0, <1>p, <1>e, <1>t, Zenon
  <2>2. \A d \in Command : Active(d)' /\ job'[d].approval = job[pool[n].by].approval =>
                              d # c /\ Active(d) /\ pc'[d] = pc[d] /\ job'[d] = job[d]
    BY <1>0, <2>1 DEF Active
  <2> QED
    BY <1>k, <2>1, <2>2 DEF CInv, HeardHolds
<1>6. SentOnce'
  <2>1. \A a \in Command : For(a)' = For(a)
    BY <1>0, <1>p DEF For
  <2>2. \A a \in Command : rows'[a].status = "pending" => rows[a].status = "pending"
    BY <1>0, <1>n, Zenon
  <2> QED
    BY <1>0, <2>1, <2>2 DEF CInv, SentOnce
<1>7. TrueRecords'
  BY <1>0, <1>k DEF CInv, TrueRecords
<1> QED
  BY <1>1, <1>2, <1>3, <1>4, <1>5, <1>6, <1>7, Zenon DEF CInv

\* Where the node puts a transaction it takes.
LEMMA Placed ==
  ASSUME CInv, NEW c \in Command, SendTransaction(c)
  PROVE  \E pos \in DOMAIN pool' :
            /\ pool' \in Seq(Entry)
            /\ pool'[pos] = [intent |-> job[c].intent, fee |-> tx[c].fee, by |-> c]
            /\ \A n \in DOMAIN pool' \ {pos} : n \in DOMAIN pool /\ pool'[n] = pool[n]
<1> DEFINE entry == [intent |-> tx[c].intent, fee |-> tx[c].fee, by |-> c]
<1>1. /\ pc[c] = "send"
      /\ tx[c].nonce \in Nat
      /\ tx[c].intent = job[c].intent
      /\ Takes(tx[c])
      /\ pool' = IF tx[c].nonce = Len(pool) THEN Append(pool, entry)
                 ELSE [pool EXCEPT ![tx[c].nonce + 1] = entry]
  BY Zenon DEF SendTransaction, CInv, CTypes, Carried, Tx
<1>2. entry \in Entry
  BY <1>1, Zenon DEF Entry, CInv, CTypes, JobTypes, Tx
<1>3. pool \in Seq(Entry)
  BY Zenon DEF CInv, CTypes
<1>4. entry = [intent |-> job[c].intent, fee |-> tx[c].fee, by |-> c]
  BY <1>1, Zenon
<1> HIDE DEF entry
<1> DEFINE pos == tx[c].nonce + 1
<1>5. CASE tx[c].nonce = Len(pool)
  <2>1. pool' = Append(pool, entry) /\ pos = Len(pool) + 1
    BY <1>1, <1>5, Zenon
  <2>2. /\ pool' \in Seq(Entry)
        /\ pos \in DOMAIN pool' /\ pool'[pos] = entry
        /\ \A n \in DOMAIN pool' \ {pos} : n \in DOMAIN pool /\ pool'[n] = pool[n]
    BY <1>2, <1>3, <2>1
  <2> QED
    BY <1>4, <2>2, Zenon
<1>6. CASE tx[c].nonce # Len(pool)
  <2>1. pool' = [pool EXCEPT ![pos] = entry] /\ pos \in 1..Len(pool)
    BY <1>1, <1>3, <1>6 DEF Takes
  <2>2. /\ pool' \in Seq(Entry)
        /\ pos \in DOMAIN pool' /\ pool'[pos] = entry
        /\ \A n \in DOMAIN pool' \ {pos} : n \in DOMAIN pool /\ pool'[n] = pool[n]
    BY <1>2, <1>3, <2>1
  <2> QED
    BY <1>4, <2>2, Zenon
<1> QED
  BY <1>5, <1>6, Zenon

\* A send, heard of or not: the claim is the command's own, so no other send of
\* the approval was heard of.
LEMMA CSend ==
  ASSUME CInv, NEW c \in Command, SendTransaction(c), UNCHANGED <<rows, job, tx, links>>,
         \/ lost' = lost /\ pc' = [pc EXCEPT ![c] = "link"]
         \/ lost' = lost \cup {c} /\ pc' = [pc EXCEPT ![c] = Broken(c)]
  PROVE  CInv'
<1>1. PICK pos \in DOMAIN pool' :
            /\ pool' \in Seq(Entry)
            /\ pool'[pos] = [intent |-> job[c].intent, fee |-> tx[c].fee, by |-> c]
            /\ \A n \in DOMAIN pool' \ {pos} : n \in DOMAIN pool /\ pool'[n] = pool[n]
  BY Placed, Zenon
<1>0. /\ pc[c] = "send"
      /\ accepted' = accepted \cup {tx[c]}
      /\ pc'[c] \in {"link", "reopen", "done"}
      /\ pc'[c] = "reopen" => job[c].approval # None /\ c \in lost'
      /\ \A d \in Command \ {c} : pc'[d] = pc[d]
      /\ lost \subseteq lost' /\ lost' \subseteq lost \cup {c}
      /\ c \notin lost' => pc'[c] = "link"
  BY Zenon DEF SendTransaction, Broken, CInv, CTypes, JobTypes
<1>2. \A n \in DOMAIN pool : pool[n].by \in Command \ {c}
  BY <1>0, Unpooled, Zenon DEF Early
<1>3. pool'[pos].by = c /\ pool'[pos].intent = job[c].intent
  BY <1>1
<1>4. Active(c) /\ \A d \in Command : Active(d)' => Active(d)
  BY <1>0, Zenon DEF Active
<1>a. job[c].approval # None => Unsent(job[c].approval)
  BY <1>4, Zenon DEF CInv, Owned
<1>b. \A d \in Command : Active(d) /\ job[d].approval = job[c].approval =>
            job[c].approval = None \/ d = c
  BY <1>4, Zenon DEF CInv, Owned
<1>5. CTypes'
  <2>1. JobTypes'
    BY <1>0, Zenon DEF CInv, CTypes, JobTypes, Labels, Broken
  <2> QED
    BY <1>1, <2>1, Zenon DEF CInv, CTypes, PendingUnsent
<1>6. Owned'
  BY <1>0, <1>4 DEF CInv, Owned, Unsent
<1>7. Small'
  BY <1>4, Zenon DEF CInv, Small, AmountIn
<1>8. Carried'
  BY <1>0, Zenon DEF CInv, Carried
<1>9. Pooled'
  <2> SUFFICES ASSUME NEW n \in DOMAIN pool'
               PROVE  LET d == pool'[n].by
                      IN  /\ pc'[d] \in {"link", "mark", "reopen", "done"}
                          /\ pool'[n].intent = job[d].intent
                          /\ job[d].approval = None => ~Required(AmountOf[pool'[n].intent])
                          /\ pc'[d] = "reopen" => d \in lost'
    BY Zenon DEF Pooled
  <2>1. CASE n = pos
    BY <1>0, <1>3, <1>4, <2>1, Zenon DEF CInv, Small, AmountIn
  <2>2. CASE n # pos
    <3>1. n \in DOMAIN pool /\ pool'[n] = pool[n]
      BY <1>1, <2>2, Zenon
    <3> QED
      BY <1>0, <1>2, <3>1 DEF CInv, Pooled
  <2> QED
    BY <2>1, <2>2, Zenon
<1>10. HeardHolds'
  <2> SUFFICES ASSUME NEW n \in DOMAIN pool', pool'[n].by \notin lost',
                      job[pool'[n].by].approval # None
               PROVE  /\ rows[job[pool'[n].by].approval].status = "approved"
                      /\ \A d \in Command :
                            Active(d)' /\ job[d].approval = job[pool'[n].by].approval =>
                                d = pool'[n].by /\ pc'[d] \in {"link", "mark"}
    BY Zenon DEF HeardHolds
  <2>1. CASE n = pos
    BY <1>0, <1>3, <1>4, <1>a, <1>b, <2>1, Zenon DEF Unsent
  <2>2. CASE n # pos
    <3>1. n \in DOMAIN pool /\ pool'[n] = pool[n] /\ pool[n].by \in Command \ {c}
      BY <1>1, <1>2, <2>2, Zenon
    <3>2. pool[n].by \notin lost
      BY <1>0, <3>1, Zenon
    <3>3. /\ rows[job[pool[n].by].approval].status = "approved"
          /\ \A d \in Command : Active(d) /\ job[d].approval = job[pool[n].by].approval =>
                                d = pool[n].by /\ pc[d] \in {"link", "mark"}
      BY <3>1, <3>2, Zenon DEF CInv, HeardHolds
    <3> QED
      BY <1>0, <1>4, <3>1, <3>3, Zenon
  <2> QED
    BY <2>1, <2>2, Zenon
<1>11. SentOnce'
  <2> SUFFICES ASSUME NEW a \in Command
               PROVE  /\ \A m, n \in For(a)' :
                            pool'[m].by \notin lost' /\ pool'[n].by \notin lost' => m = n
                      /\ rows[a].status = "pending" =>
                            \A n \in For(a)' : pool'[n].by \in lost'
    BY Zenon DEF SentOnce
  <2>1. \A n \in For(a)' : n # pos => n \in For(a) /\ pool'[n] = pool[n]
    BY <1>1, Zenon DEF For
  <2>2. ASSUME job[c].approval = a
        PROVE  rows[a].status = "approved" /\ \A n \in For(a) : pool[n].by \in lost
    <3>1. a # None
      BY IntentsAssumption, Zenon
    <3>2. \A n \in For(a) : pool[n].by \notin lost => c = pool[n].by
      BY <1>4, <2>2, <3>1, Zenon DEF CInv, HeardHolds, For
    <3> QED
      BY <1>2, <1>a, <2>2, <3>1, <3>2, Zenon DEF Unsent, For
  <2>3. pos \in For(a)' => job[c].approval = a
    BY <1>3, Zenon DEF For
  <2>4. \A m, n \in For(a) : pool[m].by \notin lost /\ pool[n].by \notin lost => m = n
    BY Zenon DEF CInv, SentOnce
  <2>5. rows[a].status = "pending" => \A n \in For(a) : pool[n].by \in lost
    BY Zenon DEF CInv, SentOnce
  <2>6. ASSUME NEW m \in For(a)', NEW n \in For(a)',
               pool'[m].by \notin lost', pool'[n].by \notin lost'
        PROVE  m = n
    BY <1>0, <2>1, <2>2, <2>3, <2>4, <2>6
  <2>7. ASSUME rows[a].status = "pending", NEW n \in For(a)'
        PROVE  pool'[n].by \in lost'
    BY <1>0, <2>1, <2>2, <2>3, <2>5, <2>7, Zenon
  <2> QED
    BY <2>6, <2>7, Zenon
<1>12. TrueRecords'
  BY <1>0, Zenon DEF CInv, TrueRecords
<1> QED
  BY <1>5, <1>6, <1>7, <1>8, <1>9, <1>10, <1>11, <1>12, Zenon DEF CInv

\* The link and the hash are of the transaction the node took.
LEMMA CLink ==
  ASSUME CInv, NEW c \in Command, Link(c)
  PROVE  CInv'
<1>0. /\ pc[c] = "link" /\ pc'[c] \in {"mark", "done"}
      /\ pc'[c] = "mark" => job[c].approval # None
      /\ \A d \in Command \ {c} : pc'[d] = pc[d]
      /\ UNCHANGED <<rows, job, tx, pool, accepted, lost>>
      /\ links' = links \cup {[intent |-> job[c].intent, hash |-> tx[c]]}
      /\ JobTypes'
  BY Zenon DEF Link, Goto, CInv, CTypes, JobTypes, Labels
<1>1. tx[c] \in accepted /\ tx[c].intent = job[c].intent
  BY <1>0, Zenon DEF CInv, Carried
<1>2. \A d \in Command : /\ Active(d)' => Active(d)
                         /\ pc[d] \in {"link", "mark"} /\ Active(d)' => pc'[d] \in {"link", "mark"}
  BY <1>0, Zenon DEF Active
<1>3. CTypes'
  BY <1>0, Zenon DEF CInv, CTypes, PendingUnsent
<1>4. Owned'
  BY <1>0, <1>2 DEF CInv, Owned, Unsent
<1>5. Small' /\ Carried'
  BY <1>0, <1>2, Zenon DEF CInv, Small, Carried, AmountIn
<1>6. Pooled'
  BY <1>0, PoolTypes, Zenon DEF CInv, Pooled
<1>7. HeardHolds'
  BY <1>0, <1>2 DEF CInv, HeardHolds
<1>8. SentOnce'
  BY <1>0 DEF CInv, SentOnce, For
<1>9. TrueRecords'
  BY <1>0, <1>1 DEF CInv, TrueRecords
<1> QED
  BY <1>3, <1>4, <1>5, <1>6, <1>7, <1>8, <1>9, Zenon DEF CInv

LEMMA CMark ==
  ASSUME CInv, NEW c \in Command, Mark(c)
  PROVE  CInv'
<1> DEFINE b == job[c].approval
<1>0. /\ pc[c] = "mark" /\ pc'[c] = "done"
      /\ \A d \in Command \ {c} : pc'[d] = pc[d]
      /\ UNCHANGED <<job, tx, pool, accepted, lost, links>>
      /\ b \in Command
      /\ rows[b].status = "approved"
      /\ rows' = [rows EXCEPT ![b].hash = tx[c]]
      /\ JobTypes'
  BY Zenon DEF Mark, MarkBroadcast, Unsent, Goto, nodeVars, CInv, CTypes, Owned, JobTypes, Job, Labels
<1>1. /\ tx[c] \in accepted /\ tx[c].intent = job[c].intent
      /\ tx[c] \in Tx
      /\ rows[b].intent = job[c].intent
      /\ b # None
      /\ Active(c)
  BY <1>0, IntentsAssumption, Zenon DEF CInv, Carried, CTypes, Owned, Active
<1>r. /\ rows \in [Command -> Row] /\ rows[b] \in Row
      /\ rows'[b] = [rows[b] EXCEPT !.hash = tx[c]]
      /\ \A a \in Command \ {b} : rows'[a] = rows[a]
  BY <1>0, Zenon DEF CInv, CTypes
<1>n. /\ rows'[b] \in Row /\ rows'[b].hash = tx[c]
      /\ rows'[b].status = "approved" /\ rows'[b].intent = rows[b].intent
      /\ rows'[b].proposer = rows[b].proposer
  BY <1>0, <1>1, <1>r, Zenon DEF Row
<1>t. \A d \in Command : job[d].approval \in Command \cup {None}
  BY Zenon DEF CInv, CTypes, JobTypes, Job
<1> HIDE DEF b
<1>k. \A a \in Command : /\ rows'[a].status = rows[a].status
                         /\ rows'[a].intent = rows[a].intent
                         /\ rows'[a].proposer = rows[a].proposer
                         /\ rows'[a].hash = IF a = b THEN tx[c] ELSE rows[a].hash
  BY <1>0, <1>r, <1>n, Zenon
<1>2. \A d \in Command : Active(d)' => Active(d) /\ d # c /\ pc'[d] = pc[d]
  BY <1>0, Zenon DEF Active
<1>3. CTypes'
  <2>1. rows' \in [Command -> Row]
    <3>1. rows' = [rows EXCEPT ![b] = rows'[b]]
      BY <1>0, <1>r, Zenon
    <3> QED
      BY <1>0, <1>r, <1>n, <3>1, Zenon
  <2>2. PendingUnsent'
    BY <1>0, <1>k, Zenon DEF CInv, CTypes, PendingUnsent
  <2> QED
    BY <1>0, <1>k, <2>1, <2>2, Zenon DEF CInv, CTypes
<1>4. Owned'
  <2>1. \A d \in Command : Active(d)' => job[d].approval # b
    BY <1>1, <1>2, Zenon DEF CInv, Owned, b
  <2>2. ASSUME NEW d \in Command, Active(d)', job[d].approval # None
        PROVE  Unsent(job[d].approval)'
    <3>1. Unsent(job[d].approval) /\ job[d].approval \in Command \ {b}
      BY <1>2, <1>t, <2>1, <2>2, Zenon DEF CInv, Owned
    <3> QED
      BY <1>0, <1>k, <3>1 DEF Unsent
  <2>3. ASSUME NEW d \in Command, job[d].approval # None
        PROVE  /\ rows'[job[d].approval].status # "absent"
               /\ rows'[job[d].approval].intent = job[d].intent
               /\ job[d].actor \in Approvers \ {rows'[job[d].approval].proposer}
    BY <1>k, <1>t, <2>3 DEF CInv, Owned
  <2> QED
    BY <1>0, <1>2, <2>2, <2>3 DEF CInv, Owned
<1>5. Small' /\ Carried'
  BY <1>0, <1>2, Zenon DEF CInv, Small, Carried, AmountIn
<1>6. Pooled'
  BY <1>0, PoolTypes, Zenon DEF CInv, Pooled
<1>7. HeardHolds'
  <2> SUFFICES ASSUME NEW n \in DOMAIN pool, pool[n].by \notin lost,
                      job[pool[n].by].approval # None
               PROVE  /\ rows'[job[pool[n].by].approval].status = "approved"
                      /\ \A d \in Command :
                            Active(d)' /\ job[d].approval = job[pool[n].by].approval =>
                                d = pool[n].by /\ pc'[d] \in {"link", "mark"}
    BY <1>0 DEF HeardHolds
  <2>1. job[pool[n].by].approval \in Command
    BY <1>t, PoolTypes, Zenon DEF CInv
  <2> QED
    BY <1>2, <1>k, <2>1 DEF CInv, HeardHolds
<1>8. SentOnce'
  BY <1>0, <1>k DEF CInv, SentOnce, For
<1>9. TrueRecords'
  BY <1>0, <1>1, <1>k DEF CInv, TrueRecords
<1> QED
  BY <1>3, <1>4, <1>5, <1>6, <1>7, <1>8, <1>9, Zenon DEF CInv

\* A reopening: its command has not heard of a send, and nobody else's was heard of.
LEMMA CReopen ==
  ASSUME CInv, NEW c \in Command, ReopenClaim(c)
  PROVE  CInv'
<1> DEFINE b == job[c].approval
<1>0. /\ pc[c] = "reopen" /\ pc'[c] = "done"
      /\ \A d \in Command \ {c} : pc'[d] = pc[d]
      /\ UNCHANGED <<job, tx, pool, accepted, lost, links>>
      /\ b \in Command
      /\ rows[b].status = "approved" /\ rows[b].hash = None
      /\ rows' = [rows EXCEPT ![b].status = "pending", ![b].approver = None]
      /\ JobTypes'
  BY Zenon DEF ReopenClaim, Reopen, Unsent, Goto, nodeVars, CInv, CTypes, Owned, JobTypes, Job, Labels
<1>1. b # None /\ Active(c)
  BY <1>0, IntentsAssumption, Zenon DEF Active
<1>r. /\ rows \in [Command -> Row] /\ rows[b] \in Row
      /\ rows'[b] = [rows[b] EXCEPT !.status = "pending", !.approver = None]
      /\ \A a \in Command \ {b} : rows'[a] = rows[a]
  BY <1>0, Zenon DEF CInv, CTypes
<1>n. /\ rows'[b] \in Row /\ rows'[b].hash = rows[b].hash
      /\ rows'[b].status = "pending" /\ rows'[b].intent = rows[b].intent
      /\ rows'[b].proposer = rows[b].proposer
  BY <1>r, Zenon DEF Row
<1>t. \A d \in Command : job[d].approval \in Command \cup {None}
  BY Zenon DEF CInv, CTypes, JobTypes, Job
<1>e. \A n \in DOMAIN pool : pool[n].by \notin lost => job[pool[n].by].approval # b
  BY <1>0, <1>1, Zenon DEF CInv, HeardHolds
<1>o. \A d \in Command : Active(d) /\ d # c => job[d].approval # b
  BY <1>1, Zenon DEF CInv, Owned
<1> HIDE DEF b
<1>k. \A a \in Command : /\ rows'[a].status = IF a = b THEN "pending" ELSE rows[a].status
                         /\ rows'[a].intent = rows[a].intent
                         /\ rows'[a].proposer = rows[a].proposer
                         /\ rows'[a].hash = rows[a].hash
  BY <1>0, <1>r, <1>n
<1>z. /\ pc'[c] = "done" /\ \A d \in Command \ {c} : pc'[d] = pc[d]
      /\ UNCHANGED <<job, tx, pool, accepted, lost, links>>
      /\ b \in Command
  BY <1>0, Zenon
<1>2. \A d \in Command : Active(d)' => Active(d) /\ d # c /\ pc'[d] = pc[d]
  BY <1>0, Zenon DEF Active
<1>3. CTypes'
  <2>1. rows' \in [Command -> Row]
    <3>1. rows' = [rows EXCEPT ![b] = rows'[b]]
      BY <1>0, <1>r, Zenon
    <3> QED
      BY <1>0, <1>r, <1>n, <3>1, Zenon
  <2>2. PendingUnsent'
    BY <1>0, <1>k, Zenon DEF CInv, CTypes, PendingUnsent
  <2>3. rows[b].status # "absent"
    BY <1>0, Zenon
  <2> QED
    BY <1>0, <1>k, <2>1, <2>2, <2>3, Zenon DEF CInv, CTypes
<1>4. Owned'
  <2>2. ASSUME NEW d \in Command, Active(d)', job[d].approval # None
        PROVE  Unsent(job[d].approval)'
    <3>1. Unsent(job[d].approval) /\ job[d].approval \in Command \ {b}
      BY <1>2, <1>o, <1>t, <2>2, Zenon DEF CInv, Owned
    <3> QED
      BY <1>0, <1>k, <3>1, Zenon DEF Unsent
  <2>3. ASSUME NEW d \in Command, job[d].approval # None
        PROVE  /\ rows'[job[d].approval].status # "absent"
               /\ rows'[job[d].approval].intent = job[d].intent
               /\ job[d].actor \in Approvers \ {rows'[job[d].approval].proposer}
    BY <1>k, <1>t, <2>3 DEF CInv, Owned
  <2> QED
    BY <1>z, <1>2, <2>2, <2>3 DEF CInv, Owned
<1>5. Small' /\ Carried'
  BY <1>0, <1>2, Zenon DEF CInv, Small, Carried, AmountIn
<1>6. Pooled'
  BY <1>0, PoolTypes, Zenon DEF CInv, Pooled
<1>7. HeardHolds'
  <2> SUFFICES ASSUME NEW n \in DOMAIN pool, pool[n].by \notin lost,
                      job[pool[n].by].approval # None
               PROVE  /\ rows'[job[pool[n].by].approval].status = "approved"
                      /\ \A d \in Command :
                            Active(d)' /\ job[d].approval = job[pool[n].by].approval =>
                                d = pool[n].by /\ pc'[d] \in {"link", "mark"}
    BY <1>0, Zenon DEF HeardHolds
  <2>1. job[pool[n].by].approval \in Command \ {b}
    BY <1>e, <1>t, PoolTypes, Zenon DEF CInv
  <2> QED
    BY <1>2, <1>k, <2>1 DEF CInv, HeardHolds
<1>8. SentOnce'
  <2>1. \A a \in Command : For(a)' = For(a)
    BY <1>0, Zenon DEF For
  <2>2. \A n \in For(b) : pool[n].by \in lost
    BY <1>e, Zenon DEF For
  <2> QED
    BY <1>z, <1>k, <2>1, <2>2 DEF CInv, SentOnce
<1>9. TrueRecords'
  BY <1>z, <1>k DEF CInv, TrueRecords
<1> QED
  BY <1>3, <1>4, <1>5, <1>6, <1>7, <1>8, <1>9, Zenon DEF CInv

\* A command on its way to the node moves to l.
LEMMA CMove ==
  ASSUME CInv, NEW c \in Command, NEW l \in Labels,
         UNCHANGED <<rows, job, tx, nodeVars>>, pc' = [pc EXCEPT ![c] = l],
         \/ l = pc[c]
         \/ pc[c] # "ready" /\ l = "done"
         \/ /\ pc[c] \in Early
            /\ l \in Early \cup {"reopen"}
            /\ l = "reopen" => job[c].approval # None
            /\ l \in Carrying => pc[c] \in Carrying
  PROVE  CInv'
<1>1. tx' \in [Command -> Tx] /\ pc' \in [Command -> Labels]
  BY Zenon DEF CInv, CTypes, JobTypes
<1>2. pc[c] \in Carrying => tx[c].intent = job[c].intent
  BY Zenon DEF CInv, Carried, Carrying
<1>3. \A d \in Command :
            \/ pc'[d] = pc[d] /\ tx'[d] = tx[d]
            \/ pc[d] # "ready" /\ pc'[d] = "done"
            \/ /\ pc[d] \in Early
               /\ pc'[d] \in Early \cup {"reopen"}
               /\ pc'[d] = "reopen" => job[d].approval # None
               /\ pc'[d] \in Carrying => tx'[d].intent = job[d].intent
  BY <1>2, Zenon DEF CInv, CTypes, JobTypes
<1> QED
  BY <1>1, <1>3, CMoves, Zenon

LEMMA CStep == CInv /\ [Next]_vars => CInv'
<1> SUFFICES ASSUME CInv, [Next]_vars PROVE CInv'
  BY Zenon
<1>0. pc \in [Command -> Labels] /\ tx \in [Command -> Tx]
  BY Zenon DEF CInv, CTypes, JobTypes
<1>b. \A c \in Command : /\ Broken(c) \in {"done", "reopen"}
                         /\ Broken(c) = "reopen" => job[c].approval # None
                         /\ Broken(c) \in Labels
  BY Zenon DEF Broken, Labels
<1> USE DEF Goto, Early, Carrying, Labels
<1>1. CASE UNCHANGED vars
  BY <1>0, <1>1, CMoves, Zenon DEF vars, nodeVars
<1>2. ASSUME NEW c \in Command, Start(c) PROVE CInv'
  BY <1>2, CPark, CSubmitNow, CApprove, Zenon DEF Start
<1>3. ASSUME NEW c \in Command, Step(c) PROVE CInv'
  <2>1. CASE StartCharge(c)
    <3>1. PICK l : l \in {"sum", "price", "done", "reopen"} /\ pc' = [pc EXCEPT ![c] = l]
                   /\ (l = "reopen" => job[c].approval # None)
      BY <1>b, <2>1, Zenon DEF StartCharge
    <3> QED
      BY <2>1, <3>1, CMove, Zenon DEF StartCharge
  <2>2. CASE Sum(c)
    BY <2>2, CMove, Zenon DEF Sum
  <2>3. CASE Charged(c)
    BY <2>3, CMove, Zenon DEF Charged
  <2>4. CASE Exceeded(c)
    BY <1>b, <2>4, CMove, Zenon DEF Exceeded
  <2>5. CASE Price(c)
    <3>1. PICK fee \in Fee :
             IF gasEstimate(fee)
             THEN /\ tx' = [tx EXCEPT ![c] = [intent |-> job[c].intent,
                                              nonce  |-> PendingNonceAt,
                                              fee    |-> fee]]
                  /\ Goto(c, "ask")
             ELSE /\ Goto(c, Broken(c))
                  /\ UNCHANGED tx
      BY <2>5, Zenon DEF Price
    <3>2. CASE gasEstimate(fee)
      <4>1. [intent |-> job[c].intent, nonce |-> PendingNonceAt, fee |-> fee] \in Tx
        <5>1. job[c].intent \in Intent \cup {None}
          BY Zenon DEF CInv, CTypes, JobTypes, Job
        <5>2. Len(pool) \in Nat
          BY DEF CInv, CTypes
        <5> QED
          BY <5>1, <5>2, SubmitAssumption, Zenon DEF Tx, PendingNonceAt
      <4>2. tx' = [tx EXCEPT ![c] = [intent |-> job[c].intent, nonce |-> PendingNonceAt, fee |-> fee]]
        BY <3>1, <3>2, Zenon
      <4>3. tx' \in [Command -> Tx] /\ tx'[c].intent = job[c].intent
            /\ \A d \in Command \ {c} : tx'[d] = tx[d]
        BY <1>0, <4>1, <4>2, Zenon
      <4>4. /\ pc' \in [Command -> Labels] /\ pc[c] = "price" /\ pc'[c] = "ask"
            /\ \A d \in Command \ {c} : pc'[d] = pc[d]
            /\ UNCHANGED <<rows, job, nodeVars>>
        BY <1>0, <2>5, <3>1, <3>2, Zenon DEF Price
      <4> QED
        BY <4>3, <4>4, CMoves, Zenon
    <3>3. CASE ~gasEstimate(fee)
      BY <1>b, <2>5, <3>1, <3>3, CMove, Zenon DEF Price
    <3> QED
      BY <3>2, <3>3, Zenon
  <2>6. CASE Signed(c)
    <3>1. PICK l : l \in Labels /\ pc' = [pc EXCEPT ![c] = l]
                   /\ (l = pc[c] \/ (pc[c] = "signing" /\ l = "send"))
      BY <1>0, <2>6, Zenon DEF Signed
    <3> QED
      BY <2>6, <3>1, CMove, Zenon DEF Signed
  <2>7. CASE Ask(c)
    BY <2>7, CMove, Zenon DEF Ask
  <2>8. CASE Declined(c) \/ Refused(c)
    BY <1>b, <2>8, CMove, Zenon DEF Declined, Refused
  <2>9. CASE Sent(c)
    BY <2>9, CSend, Zenon DEF Sent
  <2>10. CASE Link(c) \/ Mark(c) \/ ReopenClaim(c)
    BY <2>10, CLink, CMark, CReopen, Zenon
  <2> QED
    BY <1>3, <2>1, <2>2, <2>3, <2>4, <2>5, <2>6, <2>7, <2>8, <2>9, <2>10, Zenon DEF Step
<1>4. ASSUME NEW c \in Command,
             \/ CallFails(c) \/ ChargeUnheard(c) \/ SentUnheard(c)
             \/ Stops(c) \/ SigningFails(c)
      PROVE  CInv'
  <2>1. CASE CallFails(c)
    BY <1>b, <2>1, CMove, Zenon DEF CallFails
  <2>2. CASE ChargeUnheard(c)
    BY <1>b, <2>2, CMove, Zenon DEF ChargeUnheard
  <2>3. CASE SentUnheard(c)
    BY <2>3, CSend, Zenon DEF SentUnheard
  <2>4. CASE Stops(c)
    BY <2>4, CMove, Zenon DEF Stops
  <2>5. CASE SigningFails(c)
    <3>1. PICK l : l \in Labels /\ pc' = [pc EXCEPT ![c] = l]
                   /\ (l = pc[c] \/ (pc[c] = "signing" /\ l = Broken(c)))
      BY <1>0, <1>b, <2>5, Zenon DEF SigningFails
    <3> QED
      BY <1>b, <2>5, <3>1, CMove, Zenon DEF SigningFails
  <2> QED
    BY <1>4, <2>1, <2>2, <2>3, <2>4, <2>5, Zenon
<1>5. CASE SignerRestarts
  <2>1. pc' \in [Command -> Labels]
    BY <1>0, <1>b, <1>5, Zenon DEF SignerRestarts
  <2> QED
    BY <1>0, <1>b, <1>5, <2>1, CMoves, Zenon DEF SignerRestarts
<1> QED
  BY <1>1, <1>2, <1>3, <1>4, <1>5, Zenon DEF Next, Fault

\* The invariant of the commands and the approvals holds in every state.
THEOREM CommandsInvariance == Spec => []CInv
  BY CInit, CStep, PTL DEF Spec

\* FourEyes of every behaviour: nothing at or above the threshold reaches the node
\* without a proposal of one approver that another approver claimed.
THEOREM FourEyesHolds == Spec => []FourEyes
<1>1. CInv => FourEyes
  <2> SUFFICES ASSUME CInv, NEW n \in DOMAIN pool, Required(AmountOf[pool[n].intent])
               PROVE  LET by == job[pool[n].by]
                      IN  /\ by.approval \in Command
                          /\ rows[by.approval].intent = pool[n].intent
                          /\ rows[by.approval].proposer \in Approvers
                          /\ by.actor \in Approvers \ {rows[by.approval].proposer}
    BY Zenon DEF FourEyes
  <2>1. pool[n].by \in Command
    BY PoolTypes, Zenon DEF CInv
  <2>2. job[pool[n].by].approval # None /\ pool[n].intent = job[pool[n].by].intent
    BY Zenon DEF CInv, Pooled
  <2>3. job[pool[n].by].approval \in Command
    BY <2>1, <2>2, Zenon DEF CInv, CTypes, JobTypes, Job
  <2> QED
    BY <2>1, <2>2, <2>3, Zenon DEF CInv, CTypes, Owned
<1> QED
  BY <1>1, CommandsInvariance, PTL

\* SentOnce of every behaviour: claims, reopenings and crashes never make a second
\* send of an approval; only an answer that was lost can.
THEOREM SentOnceHolds == Spec => []SentOnce
<1>1. CInv => SentOnce
  BY Zenon DEF CInv
<1> QED
  BY <1>1, CommandsInvariance, PTL

\* TrueRecords of every behaviour: what approvals and settlements record was sent.
THEOREM TrueRecordsHold == Spec => []TrueRecords
<1>1. CInv => TrueRecords
  BY Zenon DEF CInv
<1> QED
  BY <1>1, CommandsInvariance, PTL

-----------------------------------------------------------------------------
(* The velocity limiter *)

Charging == {"sum", "decide"}

\* The usage u is what the window query finds in events.
Truthful(u, events) == u.count = Cardinality(events) /\ u.sum = Amounts(events)

\* The holder of a key's lock is about to decide, on the usage of what is there.
VInv ==
    /\ DOMAIN pc = Command
    /\ now = [c \in Command |-> now[c]]
    /\ usage = [c \in Command |-> usage[c]]
    /\ holder \in [Key -> Command \cup {None}]
    /\ IsFiniteSet(spends)
    /\ \A e \in spends : e.at \in Time /\ e.amount \in Nat
    /\ \A c \in Command : pc[c] \in Charging => now[c] \in Time
    /\ \A k \in Key, c \in Command : holder[k] = c =>
          pc[c] = "decide" /\ Truthful(usage[c], Since(c, k))
    /\ WindowNeverExceeded

\* The caps are about the events alone.
LEMMA VSame == WindowNeverExceeded /\ spends' = spends => WindowNeverExceeded'
  BY Zenon DEF WindowNeverExceeded, CountWithinCap, AmountWithinCap, InWindow

\* The amounts of finitely many events: a part is no more than the whole, and
\* one more event adds its own amount at most.
LEMMA AmountsPart ==
  ASSUME NEW S, IsFiniteSet(S), \A e \in S : e.amount \in Nat, NEW T, T \subseteq S
  PROVE  Amounts(T) \in Nat /\ Amounts(S) \in Nat /\ Amounts(T) <= Amounts(S)
<1> DEFINE f == [e \in S |-> e.amount]
           g == [e \in T |-> e.amount]
<1>1. \A e \in S : f[e] \in Nat
  BY Zenon
<1>2. IsFiniteSet(T) /\ \A e \in T : f[e] \in Int /\ g[e] = f[e]
  BY FS_Subset
<1>3. Amounts(S) = SumFunctionOnSet(f, S) /\ Amounts(T) = SumFunctionOnSet(g, T)
  BY Zenon DEF Amounts
<1> HIDE DEF f, g
<1>4. /\ SumFunctionOnSet(f, T) \in Nat /\ SumFunctionOnSet(f, S) \in Nat
      /\ SumFunctionOnSet(f, T) <= SumFunctionOnSet(f, S)
  BY ONLY IsFiniteSet(S), T \subseteq S, <1>1, SumPart
<1>5. SumFunctionOnSet(g, T) = SumFunctionOnSet(f, T)
  BY ONLY <1>2, SumSame
<1> QED
  BY <1>3, <1>4, <1>5, Zenon

LEMMA AmountsAdd ==
  ASSUME NEW S, IsFiniteSet(S), \A f \in S : f.amount \in Nat, NEW e, e.amount \in Nat
  PROVE  Amounts(S \cup {e}) \in Nat /\ Amounts(S \cup {e}) <= Amounts(S) + e.amount
<1> DEFINE T == S \cup {e}
           f == [x \in S |-> x.amount]
           g == [x \in T |-> x.amount]
<1>1. IsFiniteSet(T) /\ \A x \in T : x.amount \in Nat
  BY FS_AddElement, Zenon
<1>2. /\ \A x \in S : f[x] \in Int
      /\ \A x \in T : g[x] \in Int
      /\ \A x \in S \ {e} : g[x] = f[x]
  BY <1>1
<1>3. S \ {e} = T \ {e}
  BY Zenon
<1>4. Term(g, T, e) = e.amount /\ Term(f, S, e) \in Nat
  <2>1. e \in T /\ g[e] = e.amount
    BY Zenon
  <2>2. e \in S => f[e] = e.amount
    BY Zenon
  <2> HIDE DEF T, f, g
  <2> QED
    BY <2>1, <2>2 DEF Term
<1>5. Amounts(S) = SumFunctionOnSet(f, S) /\ Amounts(T) = SumFunctionOnSet(g, T)
  BY Zenon DEF Amounts
<1>6. Amounts(T) \in Nat
  <2> HIDE DEF T
  <2> QED
    BY ONLY <1>1, AmountsPart
<1> HIDE DEF T, f, g
<1>7. /\ SumFunctionOnSet(f, S) \in Int /\ SumFunctionOnSet(g, T) \in Int
      /\ SumFunctionOnSet(g, T) = SumFunctionOnSet(f, S) - Term(f, S, e) + Term(g, T, e)
  BY ONLY IsFiniteSet(S), <1>1, <1>2, <1>3, SumChange
<1>8. Amounts(T) \in Nat /\ Amounts(T) <= Amounts(S) + e.amount
  BY <1>4, <1>5, <1>6, <1>7
<1> QED
  BY <1>8, Zenon DEF T

\* A step that leaves the limiter and the charging commands alone.
LEMMA VKept ==
  ASSUME VInv, UNCHANGED velocityVars, DOMAIN pc' = Command,
         \A c \in Command : pc[c] \in Charging \/ pc'[c] \in Charging => pc'[c] = pc[c]
  PROVE  VInv'
  BY DEF VInv, velocityVars, Charging, Since, WindowNeverExceeded, CountWithinCap, AmountWithinCap, InWindow

\* The end of a charge without an event.
LEMMA VReleased ==
  ASSUME VInv, NEW c \in Command, RollbackCharge(c), NEW l, l \notin Charging,
         pc' = [pc EXCEPT ![c] = l]
  PROVE  VInv'
<1> USE DEF RollbackCharge, Released
<1>1. /\ DOMAIN pc' = Command
      /\ now' = [d \in Command |-> now'[d]]
      /\ usage' = [d \in Command |-> usage'[d]]
      /\ holder' \in [Key -> Command \cup {None}]
      /\ IsFiniteSet(spends')
      /\ \A e \in spends' : e.at \in Time /\ e.amount \in Nat
  BY Zenon DEF VInv
<1>2. \A d \in Command : pc'[d] \in Charging => now'[d] \in Time
  BY Zenon DEF VInv, Charging
<1>3. ASSUME NEW k \in Key, NEW d \in Command, holder'[k] = d
      PROVE  pc'[d] = "decide" /\ Truthful(usage'[d], Since(d, k)')
  <2>1. d # c /\ holder[k] = d
    BY <1>3, IntentsAssumption, Zenon DEF VInv
  <2>2. pc'[d] = pc[d] /\ usage'[d] = usage[d] /\ now'[d] = now[d]
    BY <2>1, Zenon DEF VInv
  <2> QED
    BY <2>1, <2>2 DEF VInv, Since
<1>4. WindowNeverExceeded'
  BY VSame, Zenon DEF VInv
<1> QED
  BY <1>1, <1>2, <1>3, <1>4, Zenon DEF VInv

\* The clock is read by a command that holds no lock.
LEMMA VClock ==
  ASSUME VInv, NEW c \in Command, pc[c] = "charge", ReadClock(c),
         pc' = [pc EXCEPT ![c] = "sum"]
  PROVE  VInv'
<1> USE DEF ReadClock
<1>1. PICK t \in Time : now' = [now EXCEPT ![c] = t]
  BY Zenon
<1>2. ASSUME NEW k \in Key, NEW d \in Command, holder'[k] = d
      PROVE  pc'[d] = "decide" /\ Truthful(usage'[d], Since(d, k)')
  <2>1. d # c
    BY <1>2, Zenon DEF VInv
  <2> QED
    BY <1>1, <1>2, <2>1 DEF VInv, Since
<1>3. \A d \in Command : pc'[d] \in Charging => now'[d] \in Time
  BY <1>1, Zenon DEF VInv, Charging
<1>4. WindowNeverExceeded'
  BY VSame, Zenon DEF VInv
<1> QED
  BY <1>1, <1>2, <1>3, <1>4, Zenon DEF VInv

\* The window is summed under the lock.
LEMMA VSum ==
  ASSUME VInv, NEW c \in Command, NEW q \in Key, pc[c] = "sum",
         SumVelocityWindow(c, q), pc' = [pc EXCEPT ![c] = "decide"]
  PROVE  VInv'
<1> USE DEF SumVelocityWindow
<1>1. ASSUME NEW k \in Key, NEW d \in Command, holder'[k] = d
      PROVE  pc'[d] = "decide" /\ Truthful(usage'[d], Since(d, k)')
  <2>0. Since(d, k)' = Since(d, k)
    BY Zenon DEF Since
  <2>1. CASE d = c
    <3>1. k = q
      BY <1>1, <2>1, IntentsAssumption, Zenon DEF VInv
    <3>2. usage'[c].count = Cardinality(Since(c, q)) /\ usage'[c].sum = Amounts(Since(c, q))
      BY Zenon DEF VInv
    <3> QED
      BY <2>0, <2>1, <3>1, <3>2, Zenon DEF VInv, Truthful
  <2>2. CASE d # c
    <3>1. holder[k] = d
      BY <1>1, <2>2, Zenon DEF VInv
    <3> QED
      BY <2>0, <2>2, <3>1, Zenon DEF VInv
  <2> QED
    BY <2>1, <2>2, Zenon
<1>2. \A d \in Command : pc'[d] \in Charging => now'[d] \in Time
  BY Zenon DEF VInv, Charging
<1>3. WindowNeverExceeded'
  BY VSame, Zenon DEF VInv
<1>4. holder' \in [Key -> Command \cup {None}]
  BY Zenon DEF VInv
<1> QED
  BY <1>1, <1>2, <1>3, <1>4, Zenon DEF VInv

\* The event: every other event of a window that holds it is in the sum its
\* command decided on, because the sum has a beginning and no end.
LEMMA VInsert ==
  ASSUME VInv, NEW c \in Command, NEW q \in Key, NEW amount \in Nat,
         InsertVelocityEvent(c, q, amount),
         NEW l, l \notin Charging, pc' = [pc EXCEPT ![c] = l]
  PROVE  VInv'
<1> DEFINE e == [cmd |-> c, key |-> q, at |-> now[c], amount |-> amount]
<1> USE DEF InsertVelocityEvent, Released
<1>1. /\ holder[q] = c
      /\ pc[c] = "decide"
      /\ now[c] \in Time
      /\ Truthful(usage[c], Since(c, q))
  BY Zenon DEF VInv, Charging
<1>2. spends' = spends \cup {e} /\ e.key = q /\ e.at = now[c] /\ e.amount = amount
  BY Zenon
<1> HIDE DEF e
<1>3. IsFiniteSet(spends') /\ \A f \in spends' : f.at \in Time /\ f.amount \in Nat
  BY <1>1, <1>2, FS_AddElement DEF VInv
<1>4. \A d \in Command : pc'[d] \in Charging => now'[d] \in Time
  BY Zenon DEF VInv, Charging
<1>5. ASSUME NEW k \in Key, NEW d \in Command, holder'[k] = d
      PROVE  pc'[d] = "decide" /\ Truthful(usage'[d], Since(d, k)')
  <2>1. d # c /\ holder[k] = d
    BY <1>5, IntentsAssumption, Zenon DEF VInv
  <2>2. k # q
    BY <1>1, <2>1, Zenon
  <2>3. pc'[d] = pc[d] /\ usage'[d] = usage[d] /\ now'[d] = now[d]
    BY <2>1, Zenon DEF VInv
  <2>4. Since(d, k)' = Since(d, k)
    BY <1>2, <2>2, <2>3, Zenon DEF Since
  <2> QED
    BY <2>1, <2>3, <2>4 DEF VInv
<1>6. ASSUME NEW k \in Key, NEW t \in Time
      PROVE  \/ InWindow(k, t)' = InWindow(k, t)
             \/ InWindow(k, t)' = InWindow(k, t) \cup {e} /\ InWindow(k, t) \subseteq Since(c, q)
  <2>0. Window \in Int /\ t \in Int /\ now[c] \in Int
    BY <1>1, VelocityAssumption, Zenon
  <2>1. CASE k = q /\ now[c] >= t /\ now[c] <= t + Window
    <3>1. ASSUME NEW f \in InWindow(k, t) PROVE f \in Since(c, q)
      <4>1. f.at \in Int /\ f.at >= t /\ f \in spends /\ f.key = q
        BY <2>1, VelocityAssumption, Zenon DEF InWindow, VInv
      <4>2. f.at >= now[c] - Window
        BY <2>0, <2>1, <4>1
      <4> QED
        BY <4>1, <4>2, Zenon DEF Since
    <3>2. InWindow(k, t)' = InWindow(k, t) \cup {e}
      BY <1>2, <2>1, Zenon DEF InWindow
    <3> QED
      BY <3>1, <3>2, Zenon
  <2>2. CASE ~(k = q /\ now[c] >= t /\ now[c] <= t + Window)
    BY <1>2, <2>2, Zenon DEF InWindow
  <2> QED
    BY <2>1, <2>2, Zenon
<1>a. /\ IsFiniteSet(Since(c, q)) /\ \A f \in Since(c, q) : f.amount \in Nat
      /\ \A k, t : IsFiniteSet(InWindow(k, t)) /\ \A f \in InWindow(k, t) : f.amount \in Nat
  BY FS_Subset, Zenon DEF VInv, Since, InWindow
<1>b. CountWithinCap'
  <2> SUFFICES ASSUME Enabled, MaxCount > 0, NEW k \in Key, NEW t \in Time
               PROVE  Cardinality(InWindow(k, t)') <= MaxCount
    BY Zenon DEF CountWithinCap, Enabled
  <2> DEFINE W == InWindow(k, t)
  <2>1. CASE InWindow(k, t)' = W \cup {e} /\ W \subseteq Since(c, q)
    <3>1. IsFiniteSet(W) /\ IsFiniteSet(Since(c, q)) /\ MaxCount \in Nat
      BY <1>a, VelocityAssumption, Zenon
    <3> HIDE DEF W
    <3>2. /\ Cardinality(W) <= Cardinality(Since(c, q))
          /\ Cardinality(W) \in Nat /\ Cardinality(Since(c, q)) \in Nat
      BY <2>1, <3>1, FS_Subset, FS_CardinalityType, Zenon
    <3>3. Cardinality(W \cup {e}) = IF e \in W THEN Cardinality(W) ELSE Cardinality(W) + 1
      BY <3>1, FS_AddElement, Zenon
    <3>4. Cardinality(Since(c, q)) + 1 <= MaxCount
      BY <1>1, Zenon DEF decide, Truthful
    <3>5. Cardinality(W \cup {e}) <= MaxCount
      BY <3>1, <3>2, <3>3, <3>4
    <3> QED
      BY <2>1, <3>5, Zenon
  <2>2. CASE InWindow(k, t)' = W
    BY <2>2, Zenon DEF VInv, WindowNeverExceeded, CountWithinCap
  <2> QED
    BY <1>6, <2>1, <2>2, Zenon
<1>c. AmountWithinCap'
  <2> SUFFICES ASSUME Enabled, MaxAmount # NoCap, NEW k \in Key, NEW t \in Time
               PROVE  Amounts(InWindow(k, t)') <= MaxAmount
    BY Zenon DEF AmountWithinCap, Enabled, Amounts
  <2> DEFINE W == InWindow(k, t)
  <2>1. CASE InWindow(k, t)' = W \cup {e} /\ W \subseteq Since(c, q)
    <3>1. /\ IsFiniteSet(W) /\ \A f \in W : f.amount \in Nat
          /\ IsFiniteSet(Since(c, q)) /\ \A f \in Since(c, q) : f.amount \in Nat
      BY <1>a, Zenon
    <3>2. MaxAmount \in Nat /\ e.amount \in Nat
      BY <1>2, VelocityAssumption, Zenon
    <3> HIDE DEF W
    <3>3. Amounts(W) \in Nat /\ Amounts(Since(c, q)) \in Nat /\ Amounts(W) <= Amounts(Since(c, q))
      BY ONLY <2>1, <3>1, AmountsPart
    <3>4. Amounts(W \cup {e}) \in Nat /\ Amounts(W \cup {e}) <= Amounts(W) + e.amount
      BY ONLY <3>1, <3>2, AmountsAdd
    <3>5. Amounts(Since(c, q)) + e.amount <= MaxAmount
      BY <1>1, <1>2, Zenon DEF decide, Truthful
    <3>6. Amounts(W \cup {e}) <= MaxAmount
      BY <3>2, <3>3, <3>4, <3>5
    <3> QED
      BY <2>1, <3>6, Zenon
  <2>2. CASE InWindow(k, t)' = W
    BY <2>2, Zenon DEF VInv, WindowNeverExceeded, AmountWithinCap
  <2> QED
    BY <1>6, <2>1, <2>2, Zenon
<1>7. holder' \in [Key -> Command \cup {None}]
  BY Zenon DEF VInv
<1>8. DOMAIN pc' = Command
      /\ now' = [d \in Command |-> now'[d]]
      /\ usage' = [d \in Command |-> usage'[d]]
  BY Zenon DEF VInv
<1> QED
  BY <1>3, <1>4, <1>5, <1>b, <1>c, <1>7, <1>8, Zenon DEF VInv, WindowNeverExceeded

\* The limiter's invariant holds in every initial state and survives every step.
LEMMA VInit == Init => VInv
<1> SUFFICES ASSUME Init PROVE VInv
  BY Zenon
<1> USE DEF Init, VelocityInit
<1>1. IsFiniteSet(spends) /\ \A k \in Key, t \in Time : InWindow(k, t) = {}
  BY FS_EmptySet, Zenon DEF InWindow
<1>2. WindowNeverExceeded
  <2>1. \A k \in Key, t \in Time : Cardinality(InWindow(k, t)) = 0 /\ Amounts(InWindow(k, t)) = 0
    BY <1>1, FS_EmptySet, SumUnfold, Zenon DEF Amounts
  <2> QED
    BY <2>1, VelocityAssumption DEF WindowNeverExceeded, CountWithinCap, AmountWithinCap, NoCap
<1> QED
  BY <1>1, <1>2, IntentsAssumption, Zenon DEF VInv, Charging

LEMMA VStep == VInv /\ JobTypes /\ [Next]_vars => VInv'
<1> SUFFICES ASSUME VInv, JobTypes, [Next]_vars PROVE VInv'
  BY Zenon
<1>0. DOMAIN pc = Command
  BY Zenon DEF VInv
<1>k. \A c \in Command : pc[c] # "ready" => KeyIn(c) \in Key /\ AmountIn(c) \in Nat
  BY IntentsAssumption, Zenon DEF JobTypes, KeyIn, AmountIn
<1>b. \A c \in Command : Broken(c) \notin Charging
  BY Zenon DEF Broken, Charging
<1>1. CASE UNCHANGED vars
  BY <1>0, <1>1, VKept, Zenon DEF vars
<1>2. ASSUME NEW c \in Command, Start(c) PROVE VInv'
  BY <1>0, <1>2, VKept, Zenon DEF Start, Park, SubmitNow, Approve, Goto, Charging
<1>3. ASSUME NEW c \in Command, Step(c) PROVE VInv'
  <2>1. CASE StartCharge(c)
    <3>1. CASE Enabled /\ IsInt64(AmountIn(c))
      BY <2>1, <3>1, VClock, Zenon DEF StartCharge, Goto
    <3>2. CASE ~(Enabled /\ IsInt64(AmountIn(c)))
      BY <1>0, <1>b, <2>1, <3>2, VKept, Zenon DEF StartCharge, Goto, Charging
    <3> QED
      BY <3>1, <3>2, Zenon
  <2>2. CASE Sum(c)
    BY <1>k, <2>2, VSum, Zenon DEF Sum, Goto
  <2>3. CASE Charged(c)
    BY <1>k, <2>3, VInsert, Zenon DEF Charged, Goto, Charging
  <2>4. CASE Exceeded(c)
    BY <1>b, <2>4, VReleased, Zenon DEF Exceeded, Goto
  <2>5. CASE Price(c)
    <3>1. PICK l : pc' = [pc EXCEPT ![c] = l] /\ l \notin Charging
      BY <1>b, <2>5 DEF Price, Goto, Charging
    <3> QED
      BY <1>0, <2>5, <3>1, VKept, Zenon DEF Price, Charging
  <2>6. CASE Signed(c)
    BY <1>0, <2>6, VKept, Zenon DEF Signed, Goto, Charging
  <2>7. CASE Ask(c) \/ Declined(c) \/ Refused(c)
    BY <1>0, <1>b, <2>7, VKept, Zenon DEF Ask, Declined, Refused, Goto, Charging
  <2>8. CASE Sent(c) \/ Link(c) \/ Mark(c) \/ ReopenClaim(c)
    BY <1>0, <2>8, VKept, Zenon DEF Sent, SendTransaction, Link, Mark, ReopenClaim, Goto, Charging
  <2> QED
    BY <1>3, <2>1, <2>2, <2>3, <2>4, <2>5, <2>6, <2>7, <2>8, Zenon DEF Step
<1>4. ASSUME NEW c \in Command,
             \/ CallFails(c) \/ ChargeUnheard(c) \/ SentUnheard(c)
             \/ Stops(c) \/ SigningFails(c)
      PROVE  VInv'
  <2>1. CASE CallFails(c)
    BY <1>b, <2>1, VReleased, Zenon DEF CallFails, Goto
  <2>2. CASE Stops(c)
    BY <2>2, VReleased, Zenon DEF Stops, Goto, Charging
  <2>3. CASE ChargeUnheard(c)
    BY <1>k, <1>b, <2>3, VInsert, Zenon DEF ChargeUnheard, Goto
  <2>4. CASE SentUnheard(c)
    BY <1>0, <1>b, <2>4, VKept, Zenon DEF SentUnheard, SendTransaction, Goto, Charging
  <2>5. CASE SigningFails(c)
    BY <1>0, <1>b, <2>5, VKept, Zenon DEF SigningFails, Goto, Charging
  <2> QED
    BY <1>4, <2>1, <2>2, <2>3, <2>4, <2>5, Zenon
<1>5. CASE SignerRestarts
  BY <1>0, <1>b, <1>5, VKept, Zenon DEF SignerRestarts, Charging
<1> QED
  BY <1>1, <1>2, <1>3, <1>4, <1>5, Zenon DEF Next, Fault

\* WindowNeverExceeded of every behaviour: no window ever holds more than
\* MaxCount transfers of a key, or more than MaxAmount of its money, whatever the
\* commands' clocks show.
THEOREM VelocityCapsHold == Spec => []WindowNeverExceeded
<1>1. CInv => JobTypes
  BY Zenon DEF CInv, CTypes
<1>2. VInv => WindowNeverExceeded
  BY Zenon DEF VInv
<1> QED
  BY <1>1, <1>2, VInit, VStep, CommandsInvariance, PTL DEF Spec

-----------------------------------------------------------------------------
(* The signer *)

\* At most one request is inside a key's bucket; the total it will commit is the
\* counter plus its amount, within the limit.
GInv ==
    /\ spent \in [Key -> Nat]
    /\ issued = spent
    /\ inside \in [Key -> SUBSET Command]
    /\ DOMAIN next = Command
    /\ \A k \in Key : spent[k] <= SpendLimit[k]
    /\ \A k \in Key : \A c, d \in inside[k] : c = d
    /\ \A k \in Key : \A c \in inside[k] :
          /\ pc[c] # "ready"
          /\ k = KeyIn(c)
          /\ next[c] = spent[k] + AmountIn(c)
          /\ next[c] <= SpendLimit[k]

\* A step that leaves the signer and the jobs of the commands in it alone.
LEMMA GKept ==
  ASSUME GInv, UNCHANGED signerVars,
         \A c \in Command : pc[c] # "ready" => job'[c] = job[c] /\ pc'[c] # "ready"
  PROVE  GInv'
  BY DEF GInv, signerVars, KeyIn, AmountIn

LEMMA GAdmit ==
  ASSUME GInv, JobTypes, NEW c \in Command, Ask(c)
  PROVE  GInv'
<1> DEFINE q == KeyIn(c)
           amount == AmountIn(c)
<1>0. /\ pc[c] = "ask" /\ job' = job /\ pc' = [pc EXCEPT ![c] = "signing"]
      /\ inside[q] = {}
      /\ spent[q] + amount <= SpendLimit[q]
      /\ inside' = [inside EXCEPT ![q] = {c}]
      /\ next' = [next EXCEPT ![c] = spent[q] + amount]
      /\ spent' = spent /\ issued' = issued
  BY Zenon DEF Ask, Admit, Goto
<1>1. q \in Key
  BY <1>0, IntentsAssumption, Zenon DEF JobTypes, KeyIn
<1>2. \A d \in Command : (KeyIn(d))' = KeyIn(d) /\ (AmountIn(d))' = AmountIn(d)
  BY <1>0, Zenon DEF KeyIn, AmountIn
<1>3. \A d \in Command : pc[d] # "ready" => pc'[d] # "ready"
  BY <1>0, Zenon DEF JobTypes
<1>4. \A k \in Key : c \notin inside[k]
  BY <1>0, Zenon DEF GInv
<1>5. \A k \in Key : inside'[k] = IF k = q THEN {c} ELSE inside[k]
  BY <1>0, <1>1, Zenon DEF GInv
<1>6. \A d \in Command : next'[d] = IF d = c THEN spent[q] + amount ELSE next[d]
  BY <1>0, Zenon DEF GInv
<1>7. inside' \in [Key -> SUBSET Command] /\ DOMAIN next' = Command
  BY <1>0, Zenon DEF GInv
<1>8. pc'[c] # "ready"
  BY <1>0, Zenon DEF JobTypes
<1>9. ASSUME NEW k \in Key, NEW d \in inside'[k]
      PROVE  /\ pc'[d] # "ready"
             /\ k = (KeyIn(d))'
             /\ next'[d] = spent'[k] + (AmountIn(d))'
             /\ next'[d] <= SpendLimit[k]
  <2>1. CASE d = c
    <3>1. k = q
      BY <1>4, <1>5, <1>9, <2>1, Zenon
    <3> QED
      BY <1>0, <1>2, <1>6, <1>8, <2>1, <3>1, Zenon
  <2>2. CASE d # c
    <3>1. d \in inside[k] /\ d \in Command
      BY <1>5, <1>7, <1>9, <2>2 DEF GInv
    <3> QED
      BY <1>0, <1>2, <1>3, <1>6, <2>2, <3>1 DEF GInv
  <2> QED
    BY <2>1, <2>2, Zenon
<1>10. \A k \in Key : \A d, f \in inside'[k] : d = f
  BY <1>5 DEF GInv
<1> HIDE DEF q, amount
<1> QED
  BY <1>0, <1>7, <1>9, <1>10, Zenon DEF GInv

\* The request inside commits the total it was admitted with, or nothing.
LEMMA GSigned ==
  ASSUME GInv, JobTypes, NEW c \in Command, NEW q \in Key,
         Sign(c, q, AmountIn(c)) \/ SignFails(c, q),
         job' = job, \A d \in Command : pc[d] # "ready" => pc'[d] # "ready"
  PROVE  GInv'
<1>0. /\ c \in inside[q]
      /\ inside' = [inside EXCEPT ![q] = @ \ {c}]
      /\ next' = [next EXCEPT ![c] = 0]
  BY Zenon DEF Sign, SignFails
<1>1. inside[q] = {c} /\ q = KeyIn(c) /\ pc[c] # "ready"
  BY <1>0 DEF GInv
<1>2. \A d \in Command : (KeyIn(d))' = KeyIn(d) /\ (AmountIn(d))' = AmountIn(d)
  BY Zenon DEF KeyIn, AmountIn
<1>3. \A k \in Key : inside'[k] = IF k = q THEN {} ELSE inside[k]
  BY <1>0, <1>1, Zenon DEF GInv
<1>4. \A k \in Key : c \in inside[k] => k = q
  BY <1>1, Zenon DEF GInv
<1>5. AmountIn(c) \in Nat
  BY <1>1, IntentsAssumption, Zenon DEF JobTypes, AmountIn
<1>6. /\ spent' \in [Key -> Nat] /\ issued' = spent'
      /\ \A k \in Key : spent'[k] <= SpendLimit[k]
      /\ \A k \in Key \ {q} : spent'[k] = spent[k]
  <2>1. CASE SignFails(c, q)
    BY <2>1, Zenon DEF SignFails, GInv
  <2>2. CASE Sign(c, q, AmountIn(c))
    <3>1. next[c] = spent[q] + AmountIn(c) /\ next[c] <= SpendLimit[q] /\ next[c] \in Nat
      BY <1>0, <1>5 DEF GInv
    <3> QED
      BY <2>2, <3>1, Zenon DEF Sign, GInv
  <2> QED
    BY <2>1, <2>2, Zenon
<1>7. inside' \in [Key -> SUBSET Command] /\ DOMAIN next' = Command
  BY <1>0, Zenon DEF GInv
<1>8. ASSUME NEW k \in Key, NEW d \in inside'[k]
      PROVE  /\ pc'[d] # "ready"
             /\ k = (KeyIn(d))'
             /\ next'[d] = spent'[k] + (AmountIn(d))'
             /\ next'[d] <= SpendLimit[k]
  <2>1. k # q /\ d \in inside[k] /\ d \in Command /\ d # c
    BY <1>3, <1>4, <1>8, Zenon DEF GInv
  <2>2. next'[d] = next[d]
    BY <1>0, <2>1, Zenon DEF GInv
  <2> QED
    BY <1>2, <1>6, <2>1, <2>2 DEF GInv
<1>9. \A k \in Key : \A d, f \in inside'[k] : d = f
  BY <1>3, Zenon DEF GInv
<1> QED
  BY <1>6, <1>7, <1>8, <1>9, Zenon DEF GInv

LEMMA GStep == GInv /\ JobTypes /\ [Next]_vars => GInv'
<1> SUFFICES ASSUME GInv, JobTypes, [Next]_vars PROVE GInv'
  BY Zenon
<1>0. pc \in [Command -> Labels]
  BY Zenon DEF JobTypes
<1>b. \A c \in Command : Broken(c) # "ready"
  BY Zenon DEF Broken
<1> USE DEF Goto
<1>1. CASE UNCHANGED vars
  BY <1>1, GKept, Zenon DEF vars
<1>2. ASSUME NEW c \in Command, Start(c) PROVE GInv'
  <2>1. /\ pc[c] = "ready" /\ UNCHANGED signerVars
        /\ \A d \in Command \ {c} : pc'[d] = pc[d] /\ job'[d] = job[d]
    BY <1>0, <1>2, Zenon DEF Start, Park, SubmitNow, Approve, JobTypes
  <2> QED
    BY <2>1, GKept, Zenon
<1>3. ASSUME NEW c \in Command, Step(c) PROVE GInv'
  <2>1. CASE Ask(c)
    BY <2>1, GAdmit, Zenon
  <2>2. CASE Signed(c)
    <3>1. PICK k \in Key : Sign(c, k, AmountIn(c))
      BY <2>2, Zenon DEF Signed
    <3>2. job' = job /\ \A d \in Command : pc[d] # "ready" => pc'[d] # "ready"
      BY <1>0, <2>2, Zenon DEF Signed
    <3> QED
      BY <3>1, <3>2, GSigned, Zenon
  <2>3. CASE StartCharge(c) \/ Sum(c) \/ Charged(c) \/ Exceeded(c) \/ Declined(c)
    BY <1>0, <1>b, <2>3, GKept, Zenon DEF StartCharge, Sum, Charged, Exceeded, Declined
  <2>4. CASE Price(c)
    BY <1>0, <1>b, <2>4, GKept, Zenon DEF Price
  <2>5. CASE Sent(c) \/ Refused(c) \/ Link(c) \/ Mark(c) \/ ReopenClaim(c)
    BY <1>0, <1>b, <2>5, GKept, Zenon DEF Sent, SendTransaction, Refused, Link, Mark, ReopenClaim
  <2> QED
    BY <1>3, <2>1, <2>2, <2>3, <2>4, <2>5, Zenon DEF Step
<1>4. ASSUME NEW c \in Command,
             \/ CallFails(c) \/ ChargeUnheard(c) \/ SentUnheard(c)
             \/ Stops(c) \/ SigningFails(c)
      PROVE  GInv'
  <2>1. CASE CallFails(c) \/ ChargeUnheard(c) \/ Stops(c)
    BY <1>0, <1>b, <2>1, GKept, Zenon DEF CallFails, ChargeUnheard, Stops
  <2>2. CASE SentUnheard(c)
    BY <1>0, <1>b, <2>2, GKept, Zenon DEF SentUnheard, SendTransaction
  <2>3. CASE SigningFails(c)
    <3>1. PICK k \in Key : SignFails(c, k)
      BY <2>3, Zenon DEF SigningFails
    <3>2. job' = job /\ \A d \in Command : pc[d] # "ready" => pc'[d] # "ready"
      BY <1>0, <1>b, <2>3, Zenon DEF SigningFails
    <3> QED
      BY <3>1, <3>2, GSigned, Zenon
  <2> QED
    BY <1>4, <2>1, <2>2, <2>3, Zenon
<1>5. CASE SignerRestarts
  BY <1>5, SignerAssumption DEF SignerRestarts, Restart, GInv
<1> QED
  BY <1>1, <1>2, <1>3, <1>4, <1>5, Zenon DEF Next, Fault

\* SignedWithinLimit of every behaviour: a running signer never signs for more than
\* a key's limit.
THEOREM SignedWithinLimitHolds == Spec => []SignedWithinLimit
<1>1. Init => GInv
  BY SignerAssumption DEF Init, SignerInit, GInv
<1>2. GInv => SignedWithinLimit
  BY Zenon DEF GInv, SignedWithinLimit
<1>3. CInv => JobTypes
  BY Zenon DEF CInv, CTypes
<1> QED
  BY <1>1, <1>2, <1>3, GStep, CommandsInvariance, PTL DEF Spec
=============================================================================
