------------------------------ MODULE MCSubmit ------------------------------
(* A small instance of Submit: a payment below the four-eyes threshold, one at *)
(* it and one to a denied address; two approvers and an operator who is none;  *)
(* one key.  Two large payments are within the signer's limit and three small  *)
(* ones are not.                                                               *)
EXTENDS Submit, TLC

CONSTANTS k1, small, large

MCKeyOf == [i \in Intent |-> k1]
MCAmountOf == [i \in Intent |-> IF i = large THEN 4 ELSE 3]
MCSpendLimit == [k \in Key |-> 8]
MCTime == 0..2
Symmetry == Permutations(Command) \cup Permutations(Approvers)
=============================================================================
