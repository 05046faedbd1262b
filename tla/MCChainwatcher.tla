--------------------------- MODULE MCChainwatcher ---------------------------
(***************************************************************************)
(* Instances of Chainwatcher for TLC.  Two branches fork after genesis: on *)
(* one the transaction is mined at height 2 and final at height 4, on the  *)
(* other it is mined at height 3 and final at height 5.  On a third branch *)
(* it is never mined.                                                      *)
(***************************************************************************)
EXTENDS Chainwatcher

MCBranch ==
    [g  |-> {"g"},
     a2 |-> {"g", "a2"}, a3 |-> {"g", "a2", "a3"}, a4 |-> {"g", "a2", "a3", "a4"},
     b2 |-> {"g", "b2"}, b3 |-> {"g", "b2", "b3"}, b4 |-> {"g", "b2", "b3", "b4"},
     b5 |-> {"g", "b2", "b3", "b4", "b5"},
     c3 |-> {"g", "b2", "c3"}]

MCBlock == DOMAIN MCBranch

MCNumber == [b \in MCBlock |-> Cardinality(MCBranch[b])]

MCIncludes == [b \in MCBlock |-> IF b \in {"a2", "b3"} THEN Tx ELSE {}]

MCAccount == {"house", "alice"}

\* A payment may name the clearing account as its destination, too.
MCDestOf == [p \in Payment |-> IF p = "direct" THEN "house" ELSE "alice"]

MCAmount == [p \in Payment |-> 1]

\* The destination holds one payment's provisional credit, or two.
MCOpening == [a \in MCAccount |-> IF a = "alice" THEN 1 ELSE 0]

MCOpeningTwo == [a \in MCAccount |-> IF a = "alice" THEN 2 ELSE 0]
=============================================================================
