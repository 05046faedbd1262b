------------------------------ MODULE Watcher -------------------------------
(***************************************************************************)
(* internal/chain/evm/watcher.go: the tracked map and the poll loop.  One  *)
(* pass reads the head, then observes every tracked transaction in some    *)
(* order (Go map iteration), then hands the collected statuses to the sink *)
(* one by one.  Each node read is a step of its own, since the mutex is    *)
(* never held across an RPC and the chain may move between two reads.      *)
(***************************************************************************)
EXTENDS Chain, Sequences

CONSTANT NoTx

ASSUME WatcherAssumption == NoTx \notin Tx

VARIABLES
    entry,      \* the tracked map; phase "untracked" stands for no entry
    head,       \* the head number poll read at the start of the pass
    todo,       \* the keys of the snapshot the pass has not observed yet
    cur,        \* the key whose receipt was found and whose header is next
    emitted     \* the statuses of the pass the sink has not had yet

watcherVars == <<entry, head, todo, cur, emitted>>

EntryPhase == {"untracked", "pending", "mined", "confirmed"}
StatusPhase == {"mined", "confirmed", "reorged", "finalized"}

Entry(phase, block, lastPhase, lastDepth) ==
    [phase |-> phase, block |-> block, lastPhase |-> lastPhase, lastDepth |-> lastDepth]

Untracked == Entry("untracked", NoBlock, "pending", 0)

Tracked == {t \in Tx : entry[t].phase # "untracked"}

WatcherInit ==
    /\ entry = [t \in Tx |-> Untracked]
    /\ head = 0
    /\ todo = {}
    /\ cur = NoTx
    /\ emitted = << >>

(***************************************************************************)
(* Track and Resume: the entry either creates; both leave a tracked        *)
(* transaction as it is.                                                   *)
(***************************************************************************)
Track == Entry("pending", NoBlock, "pending", 0)

Resume(b) == Entry("confirmed", b, "confirmed", Depth)

(***************************************************************************)
(* emit: a status is surfaced only on a phase change or a greater depth.   *)
(* Stamp is the entry after it, Surfaced the statuses of the pass after it.*)
(***************************************************************************)
Status(t, phase, b) == [tx |-> t, phase |-> phase, block |-> b]

Repeated(e, phase, depth) == phase = e.lastPhase /\ depth <= e.lastDepth

Stamp(e, phase, depth) ==
    IF Repeated(e, phase, depth)
    THEN e
    ELSE Entry(e.phase, e.block, phase, depth)

Surfaced(t, e, phase, b, depth) ==
    IF Repeated(e, phase, depth) THEN emitted ELSE Append(emitted, Status(t, phase, b))

\* The entry of t becomes e, stamped by the status surfaced with it.
Observe(t, e, phase, b, depth) ==
    /\ entry' = [entry EXCEPT ![t] = Stamp(e, phase, depth)]
    /\ emitted' = Surfaced(t, e, phase, b, depth)

\* e moved to a phase and an anchor, what was last surfaced unchanged.
At(e, phase, b) == Entry(phase, b, e.lastPhase, e.lastDepth)

\* reverse: Reorged against the old anchor, back to pending with no anchor.
ReverseEntry(t) ==
    Observe(t, At(entry[t], "pending", NoBlock), "reorged", entry[t].block, 0)

\* Advance t, anchored at b, to mined or confirmed by its depth.
Advance(t, b, depth) ==
    LET phase == IF depth >= Depth THEN "confirmed" ELSE "mined"
    IN  Observe(t, At(entry[t], phase, b), phase, b, depth)

\* Mutant: one too many.
confirmationsPlusOne(b) == IF head < Number[b] THEN 0 ELSE head - Number[b] + 2

confirmations(b) == IF head < Number[b] THEN 0 ELSE head - Number[b] + 1

(***************************************************************************)
(* poll reads the head and snapshots the keys.  A failed head read skips   *)
(* the pass and changes nothing.                                           *)
(***************************************************************************)
PassOver == cur = NoTx /\ todo = {} /\ emitted = << >>

StartPass ==
    /\ PassOver
    /\ Tracked # {}
    /\ head' = HeadNumber
    /\ todo' = Tracked
    /\ UNCHANGED <<entry, cur, emitted>>

(***************************************************************************)
(* Observing a pending key: the receipt, if there is one, anchors it.  A   *)
(* mined transaction has at least one confirmation even if the head lags.  *)
(***************************************************************************)
PollPending(t) ==
    /\ cur = NoTx
    /\ t \in todo
    /\ entry[t].phase = "pending"
    /\ todo' = todo \ {t}
    /\ \/ /\ ReceiptBlocks(t) = {}
          /\ UNCHANGED <<entry, emitted>>
       \/ \E b \in ReceiptBlocks(t) :
            Advance(t, b, IF confirmations(b) = 0 THEN 1 ELSE confirmations(b))
    /\ UNCHANGED <<head, cur>>

(***************************************************************************)
(* Observing a mined or confirmed key, first read: a vanished receipt is a *)
(* reorganisation, a receipt found leads on to the header.                 *)
(***************************************************************************)
PollReceipt(t) ==
    /\ cur = NoTx
    /\ t \in todo
    /\ entry[t].phase \in {"mined", "confirmed"}
    /\ todo' = todo \ {t}
    /\ \/ /\ ReceiptBlocks(t) = {}
          /\ ReverseEntry(t)
          /\ cur' = NoTx
       \/ /\ ReceiptBlocks(t) # {}
          /\ cur' = t
          /\ UNCHANGED <<entry, emitted>>
    /\ UNCHANGED head

\* Past finalityDepth: surface Finalized and evict the entry.
FinalizeEntry(t) ==
    LET e == entry[t]
    IN  /\ emitted' = Surfaced(t, e, "finalized", e.block, confirmations(e.block))
        /\ entry' = [entry EXCEPT ![t] = Untracked]

(***************************************************************************)
(* Second read: the canonical header at the anchor's height.  A divergent  *)
(* one is a reorganisation; otherwise the entry advances by its depth at   *)
(* the head the pass started from.                                         *)
(***************************************************************************)
PollHeader ==
    LET t == cur
        e == entry[t]
    IN  /\ cur # NoTx
        /\ \E h \in Branch[tip] : Number[h] = Number[e.block]
        /\ \/ /\ ~Canonical(e.block)
              /\ ReverseEntry(t)
           \/ /\ Canonical(e.block)
              /\ \/ /\ e.phase = "mined"
                    /\ head >= Number[e.block]
                    /\ Advance(t, e.block, confirmations(e.block))
                 \/ /\ e.phase = "confirmed"
                    /\ confirmations(e.block) >= FinalityDepth
                    /\ FinalizeEntry(t)
                 \/ /\ e.phase = "mined" => head < Number[e.block]
                    /\ e.phase = "confirmed" => confirmations(e.block) < FinalityDepth
                    /\ UNCHANGED <<entry, emitted>>
        /\ cur' = NoTx
        /\ UNCHANGED <<head, todo>>

\* A transient RPC error on any of these reads: the key waits for the next pass.
PollSkip ==
    /\ \/ /\ cur # NoTx
          /\ cur' = NoTx
          /\ UNCHANGED todo
       \/ /\ cur = NoTx
          /\ \E t \in todo : todo' = todo \ {t}
          /\ UNCHANGED cur
    /\ UNCHANGED <<entry, head, emitted>>

Poll == StartPass \/ (\E t \in Tx : PollPending(t) \/ PollReceipt(t)) \/ PollHeader \/ PollSkip

(***************************************************************************)
(* Run hands the statuses of a finished pass to the sink in order.  After  *)
(* an error on a Confirmed it rolls the entry back to mined and clears the *)
(* dedupe, unless the entry has moved on; other errors are only logged.    *)
(* The head is a local of poll and dies with the pass.                     *)
(***************************************************************************)
NextStatus == Head(emitted)

Dispatch ==
    /\ cur = NoTx
    /\ todo = {}
    /\ emitted # << >>
    /\ emitted' = Tail(emitted)
    /\ head' = 0
    /\ UNCHANGED <<todo, cur>>

RollBack(s) ==
    IF s.phase = "confirmed" /\ entry[s.tx].phase = "confirmed"
    THEN entry' = [entry EXCEPT ![s.tx] = Entry("mined", @.block, "pending", 0)]
    ELSE UNCHANGED entry
=============================================================================
