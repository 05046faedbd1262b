----------------------------- MODULE MCEvents -------------------------------
(***************************************************************************)
(* Two events of one aggregate and one of another, one relay, a            *)
(* subscription that wants the second, two workers.                        *)
(***************************************************************************)
EXTENDS Events, TLC

CONSTANTS a1, a2, b1, pa, pb, s1

MCPrior == (a1 :> {}) @@ (a2 :> {a1}) @@ (b1 :> {})
MCPartitionOf == (a1 :> pa) @@ (a2 :> pa) @@ (b1 :> pb)
MCWants == (s1 :> {a2})
=============================================================================
