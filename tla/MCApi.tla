------------------------------- MODULE MCApi --------------------------------
(***************************************************************************)
(* An instance of Api for TLC: one key, two requests that are retries of   *)
(* each other, and one that reuses the key for an invalid amount.  The     *)
(* source can pay twice, unless another entry takes its money and the      *)
(* destination's, which cancellations need.                                *)
(***************************************************************************)
EXTENDS Api, TLC

Pay(amount) == [source |-> "src", dest |-> "dst", amount |-> amount]

MCBodyOf == (1 :> Pay(1)) @@ (2 :> Pay(1)) @@ (3 :> Pay(0))

MCKeyOf == [a \in Attempt |-> "k"]

MCOpening == ("src" :> 2) @@ ("dst" :> 0) @@ ("other" :> 0)

MCOthers ==
    {[kind |-> "other", ref |-> "o", lines |-> ("src" :> -1) @@ ("dst" :> -1) @@ ("other" :> 2)]}
=============================================================================
