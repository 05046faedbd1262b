------------------------------- MODULE Audit --------------------------------
(***************************************************************************)
(* internal/audit: the hash chain of the audit log.  A row is [seq, prev,  *)
(* fact, hash]; fact stands for the actor, action, aggregate, time and     *)
(* payload, which the canonical encoding tells apart field by field.       *)
(* sha256 is taken to be injective: a hash is the tuple of what was        *)
(* hashed.                                                                 *)
(***************************************************************************)
EXTENDS Integers, Sequences

\* The 32 zero bytes before the first row, and the absent anchor.
Genesis == <<>>
NoAnchor == <<"none">>

\* Mutant: the previous hash is not part of the preimage.
entryHashUnchained(prev, seq, fact) == <<seq, fact>>

entryHash(prev, seq, fact) == <<prev, seq, fact>>

GetAuditHead(rows) ==
    IF rows = <<>> THEN [seq |-> 0, hash |-> Genesis]
    ELSE [seq |-> rows[Len(rows)].seq, hash |-> rows[Len(rows)].hash]

\* The row Append builds on the head it has read.
NextRow(rows, fact) ==
    LET head == GetAuditHead(rows)
    IN  [seq |-> head.seq + 1, prev |-> head.hash, fact |-> fact,
         hash |-> entryHash(head.hash, head.seq + 1, fact)]

(***************************************************************************)
(* Verify walks the rows in the order of seq and stops at the first fault; *)
(* a clean walk must end at the expected head, if one is given.            *)
(***************************************************************************)
RowFault(rows, i) ==
    IF i = 1 /\ (rows[i].seq # 1 \/ rows[i].prev # Genesis) THEN "broken_link"
    ELSE IF i > 1 /\ rows[i].seq # rows[i-1].seq + 1 THEN "gap"
    ELSE IF i > 1 /\ rows[i].prev # rows[i-1].hash THEN "broken_link"
    ELSE IF rows[i].hash # entryHash(rows[i].prev, rows[i].seq, rows[i].fact) THEN "hash_mismatch"
    ELSE "ok"

Verify(rows, expected) ==
    LET faults == {i \in DOMAIN rows : RowFault(rows, i) # "ok"}
    IN  IF faults # {}
        THEN RowFault(rows, CHOOSE i \in faults : \A j \in faults : i <= j)
        ELSE IF expected # NoAnchor /\ expected # GetAuditHead(rows).hash
             THEN "head_mismatch"
             ELSE "ok"

(***************************************************************************)
(* Logs that differ from rows: a row missing, two rows exchanged, a fact   *)
(* rewritten with the hashes left alone, with its own hash redone, or with *)
(* every later row linked and hashed anew.                                 *)
(***************************************************************************)
Without(rows, i) == SubSeq(rows, 1, i - 1) \o SubSeq(rows, i + 1, Len(rows))

Exchanged(rows, i, j) == [rows EXCEPT ![i] = rows[j], ![j] = rows[i]]

Rewritten(rows, i, fact) == [rows EXCEPT ![i].fact = fact]

Rehashed(rows, i, fact) ==
    [rows EXCEPT ![i].fact = fact, ![i].hash = entryHash(rows[i].prev, rows[i].seq, fact)]

Relinked(rows, i, fact) ==
    LET new == Rehashed(rows, i, fact)
    IN  IF i = Len(rows) THEN new ELSE [new EXCEPT ![i + 1].prev = new[i].hash]

Rechained(rows, i, fact) ==
    LET chain[j \in 1 .. Len(rows)] ==
            LET row  == IF j = i THEN [rows[j] EXCEPT !.fact = fact] ELSE rows[j]
                prev == IF j > i THEN chain[j-1].hash ELSE row.prev
            IN  [row EXCEPT !.prev = prev, !.hash = entryHash(prev, row.seq, row.fact)]
    IN  chain

Altered(rows, facts) ==
    LET two == {q \in (DOMAIN rows) \X (DOMAIN rows) : q[1] < q[2]}
    IN  ({Without(rows, i) : i \in DOMAIN rows}
         \cup {Exchanged(rows, q[1], q[2]) : q \in two}
         \cup {Rewritten(rows, i, f) : i \in DOMAIN rows, f \in facts}
         \cup {Rehashed(rows, i, f) : i \in DOMAIN rows, f \in facts}
         \cup {Relinked(rows, i, f) : i \in DOMAIN rows, f \in facts}
         \cup {Rechained(rows, i, f) : i \in DOMAIN rows, f \in facts}) \ {rows}
=============================================================================
