------------------------------- MODULE Chain --------------------------------
(***************************************************************************)
(* The chain node that internal/chain/evm reads through chainReader.  The  *)
(* node is not part of the repository: it is modelled by the three reads   *)
(* the watcher makes (BlockNumber, TransactionReceipt, HeaderByNumber) and *)
(* by what may change their answers, an extension of the canonical chain   *)
(* or a reorganisation of it.                                              *)
(*                                                                         *)
(* Blocks form a fixed tree.  Branch[b] is the set of blocks of the chain  *)
(* that ends at b, so the canonical chain is Branch[tip].                  *)
(***************************************************************************)
EXTENDS Integers, FiniteSets

CONSTANTS
    Tx,             \* transaction hashes
    Block,          \* block hashes
    Genesis,        \* the block the chain starts from
    Branch,         \* Branch[b]: the blocks of the chain that ends at b
    Number,         \* Number[b]: the height of b, never 0 (emit's "no block")
    Includes,       \* Includes[b]: the transactions mined in b
    Depth,          \* confirmations that confirm (PAYMENT_RAIL_WATCHER_CONFIRMATIONS)
    FinalityDepth,  \* confirmations that finalise (defaultFinalityDepth)
    Revisit,        \* may an orphaned block become canonical again?
    NoBlock         \* the empty block hash

ASSUME ChainAssumption ==
    /\ Genesis \in Block
    /\ Branch \in [Block -> SUBSET Block]
    /\ \A b \in Block : b \in Branch[b]
    /\ Number \in [Block -> Nat \ {0}]
    /\ \A b \in Block : \A x, y \in Branch[b] : Number[x] = Number[y] => x = y
    /\ \A b \in Block : \A x \in Branch[b] : Number[x] <= Number[b]
    /\ Includes \in [Block -> SUBSET Tx]
    /\ \A b \in Block : \A x, y \in Branch[b] : Includes[x] \cap Includes[y] # {} => x = y
    /\ Revisit \in BOOLEAN
    /\ NoBlock \notin Block

\* NewWatcher refuses a zero depth, and a finality depth not above it.
ASSUME DepthAssumption ==
    /\ Depth \in Nat \ {0}
    /\ FinalityDepth \in Nat
    /\ FinalityDepth > Depth

VARIABLES
    tip,        \* the canonical head block
    heads,      \* every block that has been the head
    orphaned    \* the blocks that may not become canonical again

chainVars == <<tip, heads, orphaned>>

ChainInit ==
    /\ tip = Genesis
    /\ heads = {Genesis}
    /\ orphaned = {}

(***************************************************************************)
(* What the node answers.                                                  *)
(***************************************************************************)
Canonical(b) == b \in Branch[tip]

\* BlockNumber
HeadNumber == Number[tip]

\* TransactionReceipt: the canonical blocks that hold t (none: NotFound).
ReceiptBlocks(t) == {b \in Branch[tip] : t \in Includes[b]}

\* Confirmations of b on the chain that ends at h, b itself counting as one.
Confirmations(h, b) == Number[h] - Number[b] + 1

\* b has had at least d confirmations, on its own branch, at some moment.
Buried(b, d) == \E h \in heads : b \in Branch[h] /\ Confirmations(h, b) >= d

(***************************************************************************)
(* The canonical head moves to b, by extension or by a reorganisation.     *)
(* Heights never shrink, and a block buried FinalityDepth deep stays: the  *)
(* code treats a deeper reorganisation as impossible (watcher.go:420).     *)
(***************************************************************************)
MoveTip(b) ==
    LET left == Branch[tip] \ Branch[b]
    IN  /\ b # tip
        /\ Number[b] >= Number[tip]
        /\ \A x \in left : ~Buried(x, FinalityDepth)
        /\ Branch[b] \cap orphaned = {}
        /\ tip' = b
        /\ heads' = heads \cup {b}
        /\ orphaned' = IF Revisit THEN orphaned ELSE orphaned \cup left

ChainTypeOK ==
    /\ tip \in Block
    /\ heads \subseteq Block
    /\ orphaned \subseteq Block
=============================================================================
