-------------------------- MODULE MCLedgerPosting ---------------------------
(***************************************************************************)
(* An instance of LedgerPosting for TLC: accounts 1 to 4 in one asset,     *)
(* account 5 in another.  The entries race for the one unit of account 3,  *)
(* share a key across disjoint accounts, overlap in two accounts, are      *)
(* unbalanced, and mix assets; one is posted without an audit row, and a   *)
(* note is audited without a posting.                                      *)
(***************************************************************************)
EXTENDS LedgerPosting, TLC

Job(kind, ref, lines, audited) ==
    [kind |-> kind, ref |-> ref, asset |-> "usdc", lines |-> lines, audited |-> audited]

MCEntries ==
    {Job("payment", "r1", Transfer(1, 2, 1), TRUE),
     Job("payment", "r2", Transfer(3, 1, 1), TRUE),
     Job("payment", "r1", Transfer(3, 4, 1), FALSE),
     Job("payment", "r3", Transfer(3, 5, 1) @@ (1 :> 0), TRUE),
     Job("payment", "r4", 2 :> 1, TRUE),
     Job("finalized", "t1", <<>>, TRUE)}

MCAssetOf == (1 :> "usdc") @@ (2 :> "usdc") @@ (3 :> "usdc") @@ (4 :> "usdc") @@ (5 :> "eurc")

MCOpening == (1 :> 1) @@ (2 :> 0) @@ (3 :> 1) @@ (4 :> 0) @@ (5 :> 0)
=============================================================================
