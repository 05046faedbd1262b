---------------------------- MODULE MCReconcile -----------------------------
(***************************************************************************)
(* An instance of Reconcile for TLC.  The first branch mines the first     *)
(* transaction at once and the others a block later; the second mines the  *)
(* first alone, so that it may move from one branch to the other.          *)
(***************************************************************************)
EXTENDS Reconcile

MCBranch ==
    [g |-> {"g"}, a2 |-> {"g", "a2"}, a3 |-> {"g", "a2", "a3"}, b2 |-> {"g", "b2"}]

MCBlock == DOMAIN MCBranch

MCNumber == [b \in MCBlock |-> Cardinality(MCBranch[b])]

MCTx == {1, 2, 3}

MCIncludes ==
    [g |-> {}, a2 |-> {1}, a3 |-> {2, 3}, b2 |-> {1}]

MCAccount == {"house", "alice"}

MCPayment == {"p1", "p2", "p3"}

MCDestOf == [p1 |-> "alice", p2 |-> "alice", p3 |-> "alice"]

MCAmount == [p1 |-> 1, p2 |-> 2, p3 |-> 4]

MCOpening == [house |-> 0, alice |-> 7]

MCAssetOf == [a \in MCAccount |-> "usdc"]

MCIdOf == [t \in MCTx |-> t]

\* Two spellings of a holder, another holder, a token of each asset, and no address.
MCLower == [x |-> "x", X |-> "x", y |-> "y", usd |-> "usd", eur |-> "eur", q |-> "q"]

MCAddress == DOMAIN MCLower

Treasury(address, asset, token) == [address |-> address, asset |-> asset, token |-> token]

\* The last lists a holder for two assets, and a token under both.
MCManifest ==
    {<< >>,
     <<Treasury("q", "usdc", "usd")>>,
     <<Treasury("x", "usdc", "q")>>,
     <<Treasury("x", NoAsset, "usd")>>,
     <<Treasury("x", "usdc", "usd"), Treasury("X", "usdc", "usd")>>,
     <<Treasury("x", "usdc", "usd"), Treasury("y", "usdc", "eur"), Treasury("x", "eurc", "eur")>>}

MCHoldings ==
    [k \in Range(MCLower) \X Range(MCLower) |-> IF k = <<"usd", "x">> THEN 3 ELSE 0]

\* A deposit, and a withdrawal.
MCTransfers ==
    {[at |-> <<"eur", "y">>, amount |-> 4], [at |-> <<"usd", "x">>, amount |-> -1]}

\* In the order of the scan the rows are 2, 1, 3, the last two of one created_at.
MCLinks ==
    {[tx |-> 1, payment |-> "p1", at |-> 2], [tx |-> 2, payment |-> "p2", at |-> 1],
     [tx |-> 3, payment |-> "p3", at |-> 2]}
=============================================================================
