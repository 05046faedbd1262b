------------------------------- MODULE Ledger -------------------------------
(***************************************************************************)
(* The double-entry ledger of internal/ledger, as its callers see it: a    *)
(* journal of immutable entries, at most one per (kind, external_ref), and *)
(* the account balances derived from it.  A posting is one atomic step;    *)
(* LedgerPosting shows that the transaction that locks, checks and inserts *)
(* implements it.                                                          *)
(*                                                                         *)
(* The lines of an entry are given by their sum per touched account        *)
(* (credits add, debits subtract), which is all that balances depend on.   *)
(***************************************************************************)
EXTENDS Integers

CONSTANTS Account

VARIABLES
    journal,    \* the committed entries: records [kind, ref, lines]
    balance     \* GetAccountBalance of every account

ledgerVars == <<journal, balance>>

\* The two lines that move amount from one account to another.
Transfer(debit, credit, amount) ==
    [a \in {debit, credit} |-> (IF a = credit THEN amount ELSE 0)
                               - (IF a = debit THEN amount ELSE 0)]

\* Mutant: the accounts the entry does not touch are forgotten.
ApplyToTouched(lines) == [a \in DOMAIN lines |-> balance[a] + lines[a]]

ApplyToBalances(lines) ==
    [a \in Account |-> IF a \in DOMAIN lines THEN balance[a] + lines[a] ELSE balance[a]]

\* No touched account may end negative.
Funded(e) == \A a \in DOMAIN e.lines : balance[a] + e.lines[a] >= 0

\* Mutant: no unique index.
NoUniqueRef(e) == FALSE

\* UNIQUE (kind, external_ref)
Duplicate(e) == \E f \in journal : f.kind = e.kind /\ f.ref = e.ref

Accepts(e) == Funded(e) /\ ~Duplicate(e)

PostWithin(e) ==
    /\ Accepts(e)
    /\ journal' = journal \cup {e}
    /\ balance' = ApplyToBalances(e.lines)
=============================================================================
