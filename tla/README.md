# Payment Rail: a TLA+ model

Payment Rail takes payments over an HTTP API, books them in a double-entry
ledger, sends them on chain, and follows each transaction until it is final,
undoing its settlement when the chain reorganises. This directory models the
parts where order, concurrency and failure decide whether the books are right,
checks them with TLC on small instances and proves every safety property of the
passing runs with TLAPS for every instance. Paths below are relative to the repository.

## The system

| Part | Code | Model |
|---|---|---|
| Ledger: balanced entries, no negative account, one entry per (kind, external_ref) | `internal/ledger` | `Ledger`, `LedgerPosting` |
| Chain watcher: polls the node, surfaces mined, confirmed, reorged, finalized | `internal/chain/evm/watcher.go` | `Watcher` |
| Settlement: rows by tx hash, sink that posts, reverses, finalises | `internal/settlement` | `Settlement` |
| Chainwatcher process: seeding, poll loop, re-scan goroutine | `cmd/chainwatcher` | `Chainwatcher` |
| Chain node (external) | read through `chainReader` | `Chain` |
| Audit log: one hash chain, appended under one advisory lock; Verify | `internal/audit` | `Audit`, `LedgerPosting` |
| Payments: create, cancel, list | `internal/payments/payments.go` | `Payments` |
| Idempotency keys, HTTP API | `internal/payments/idempotency.go`, `cmd/api` | `Idempotency`, `Api` |
| Outbox: event rows in the writer's transaction; relay to Kafka | `internal/outbox`, `cmd/outboxrelay` | `Outbox`, `Events` |
| Webhooks: consumer, leased delivery queue, replay | `internal/webhook`, `cmd/webhookd` | `Webhook`, `Events`, `Notifications` |
| Velocity limits | `internal/policy/velocity.go`, `velocitystore.go` | `Velocity` |
| Four-eyes approval | `internal/policy/approval.go`, `approvalstore.go`, `approve.go` | `Approval` |
| Signer: per-key spend limit | `internal/signer`, `cmd/signer` | `Signer` |
| Submit: policy, gas, nonce, signature, send, link | `cmd/paymentrailctl`, `internal/chain/evm` | `Submit` (and `Intents`) |
| Reconciliation | `internal/reconcile`, `reconcile.go` | `Reconcile` |
| Configuration, service shell, generated code, load test | `internal/config`, ... | not modelled |

`POST /v1/payments` runs under an idempotency key: claim, handler, completion.

A payment credits its destination provisionally. `paymentrailctl` broadcasts a
transaction and links it to the payment (a `pending` settlement row). The
watcher sees the transaction mined and, `Depth` confirmations later, confirmed;
the sink then moves the credit to the clearing account and marks the row
`settled` at the block. If the block leaves the chain, the watcher surfaces
`reorged` and the sink posts the reversal. Once the block is `FinalityDepth`
deep the row is `finalized` and the watcher forgets the transaction. Each sink
handler is one database transaction that also writes the event and the audit
record. A re-scan re-seeds the watcher from the rows while it runs.

## Modules

`Chain` is the node: a fixed tree of blocks and a canonical head that extends or
reorganises. `ReceiptBlocks`, `HeadNumber` and `Canonical` are the three reads
the watcher makes. Two assumptions: the head's height does not shrink, and a
block that has had `FinalityDepth` confirmations stays (the code treats a deeper
reorganisation as impossible, `watcher.go:421`). `Revisit` says whether an
orphaned block may become canonical again, as on a real chain it may.

`Ledger` is the ledger as its callers see it: `PostWithin` is one step that is
refused when an account would go negative or the reference exists.

`LedgerPosting` is the same posting as the statements of concurrent READ
COMMITTED transactions: lock the accounts in id order, check them, read the
balances, insert (waiting for an open transaction with the same key), take the
audit lock, read the head of the audit log and build the next row on it, commit;
or roll back anywhere. The balances are read in one step, which the locks
justify. The entry's lines are their sum per account. Posting and auditing are
independent: `PostEntry` and a settle or reversal whose Mark matches nothing
(`settlement.go:223-225`, `291-293`) post without an audit row; `finalize`,
`Propose` and `Claim` append a row and post nothing (`settlement.go:365`,
`approvalstore.go:116`, `220`), which is an entry without lines, kept in `marks`.

`Audit` has the hash chain: the row built on a head, `Verify` and its anchor, and
the altered logs `Verify` is tried on. A hash is the tuple of what was hashed.

`Payments` creates, cancels (an unlocked read, then the guarded update) and lists
by pages. `Idempotency` is the key table, each statement an operator. `Api` runs
`withIdempotency` for concurrent requests, a statement a step, any of which may
fail or lose its answer; the sweeper, cancels and other postings go on meanwhile.

`Outbox` is the event table and the relay: a row's `created_at` is the start of
its transaction, a batch is claimed, published (each partition's share may land
or not when the call fails), marked and committed. `Webhook` is the consumer, the
deliveries with their leases and the workers. `Events` composes the two;
`Notifications` is what they promise together: an event is owed from the moment
it commits, reported delivered only if the subscriber has it, or given up openly.

`Velocity`, `Approval` and `Signer` are the three gates of the submit path and
`Submit` the commands that pass them: `submit` and `approve`, each a process that
charges, prices, takes a nonce, has the transaction signed, sends, links and
records, and may be killed between any two steps. `Takes` is the node's mempool
(external): the next nonce, or a replacement that pays more.

`Reconcile` is one run of `paymentrailctl reconcile` with every query a step,
beside a moving chain, the sink, new links, payments and token transfers. A
balance on chain belongs to a token and a holder. The sink is given what
`OnStatus` acts on; a confirmation may be of any block that was once deep enough,
so one that comes late posts again for a row that is final.

`Settlement` has the rows, the events and the handlers `Link`, `Settle`,
`Reverse`, `Finalize`, `OnStatus`. `Settle` keeps the code's order: status guard,
posting, guarded Mark, and a Mark that matches nothing still commits.

`Watcher` has the tracked map and the poll pass. Each node read is a step of its
own: `StartPass` (head and snapshot), `PollPending`, `PollReceipt`, `PollHeader`;
`PollSkip` is a failed read. `emitted` holds the statuses of the pass until the
sink has had them.

`Chainwatcher` composes them with the process: `RescanList` and `RescanSeed` run
beside the poll, `Restart` loses the memory and seeds again, a dispatched status
commits (`Deliver`), is refused by the ledger (`DeliverRefused`), or fails
(`DeliverFault`: rolled back, or committed with the answer lost). `PaymentStep`
is a payment between any two accounts: `Create` and the API ask for an account id
and nothing more (`payments.go:90-158`, `handlers.go:23-53`), so a payment may draw
on the clearing account or name it as its destination. `drawn` is what payments
have taken out of it.

The `MC*` modules give the constants values;
`*Proofs` hold the theorems. Operators marked "Mutant" are plausible mistakes in
the definition that follows them. They are used in no specification: each shows
that one property would notice the mistake.

## Runs

| Run | Shows |
|---|---|
| `Chainwatcher_safety` | `PostingsMatchRows`, `SettledOnceUnlessFaults`, `DeepEnough`, `EventsTellTheRow`, `HouseCovers` hold at every interleaving (1,008,190 states) |
| `Chainwatcher_liveness` | a transaction buried for good is finalised through a fault and a restart; one that left the chain is reversed if nothing lapses (73,072 states) |
| `LedgerPosting` | concurrent postings implement `Ledger`, stay solvent, conserve every asset, never deadlock, and append what is audited, once each, to one chain that no single alteration leaves verifiable against its head (57,816 states) |
| `Api` | one payment for each life of a key (`OncePerClaim`), honest answers, rows that match entries and events, complete walks of the list, keys that are freed (378,632 states) |
| `Events` | no committed event is ever lost, one relay keeps an aggregate's order, a dead letter was tried, the pipeline implements `Notifications`, what is owed is settled (112,145 states) |
| `Submit` | four eyes, one heard send per approval, true records, velocity and signer limits (342,496 states) |
| `Reconcile` | every settlement that stays is counted once; a clean exit is wrong by the rows that moved under the run at most, and without such rows a backed treasury gives a clean exit (906,032 states) |
| `Chainwatcher_settled_once` | violated: a payment is settled twice |
| `Chainwatcher_flipflop` | violated: a row stays `reorged` for ever |
| `Chainwatcher_failed_reorg` | violated: a row stays `settled` for ever |
| `Api_at_most_once` | violated: a retry creates a second payment |
| `Submit_double_send` | violated: one approval is sent twice |

Bounds. The chainwatcher instances have one transaction, a payment to alice (and
in the safety run one to the clearing account), nine blocks in three branches,
`Depth` 2 and `FinalityDepth` 3. That is enough for a
transaction to be mined, confirmed, reorganised out, mined again in another
block at another height, reorganised to a branch without it, and finalised, with
a stale head at each read. `MaxFaults` and `MaxRestarts` are 0 or 1. The safety
run has two payments: one may empty the destination or the clearing account and
another refill it. The liveness run has none, since a settle that lacks funds waits
for a payment that nothing makes happen.
More transactions only share the ledger; the theorems cover any number.
`LedgerPosting` has three callers, five accounts in two assets, opposite
transfers over the same accounts whose funds may be gone, one that mixes
assets, an unbalanced one, one key used twice on disjoint accounts (once without
an audit row), and a note that posts nothing.

`Api` has one key, two requests that are retries of each other and one with another,
invalid body; two cancels; one fault; two rows that tie in `created_at` on pages of
one. `Events` has two events of one aggregate and one of another, one relay with
batches of two, two workers, two attempts and one fault: a lease can expire under a
worker, a batch be published in part or twice, an offset commit fail. One subscription
is enough, since rows of different subscriptions never meet except in a claim.
`Submit` has three commands (a proposal and two approvals, or any other mix), two
approvers and a stranger, clocks that differ by up to two windows, and two faults; the
caps are met exactly and exceeded by one (no amount is too large for its column
there). `Reconcile` has three settlements, all in one asset, over two branches on
pages of two, `Depth` 1 and `FinalityDepth` 2; one payment between the clearing
account and alice; one token transfer, a deposit or a withdrawal; and six manifests:
empty, a malformed address, a malformed token, no asset, one holder in two spellings,
and three entries over two assets and two tokens.

Deadlock is not checked where the system may rest: the chainwatcher with no
linked transaction and a head at the end of the tree, `Api`, `Submit` and
`Reconcile` when every request or command has ended, `Events` when everything is
delivered. It is checked in `LedgerPosting`.

Fairness. The tickers keep the loop and the re-scan running: weak fairness of
their steps. A node read may fail any number of times but not always: strong
fairness of the reads that `PollSkip` competes with. Nothing is assumed of the
head, the operator, faults or restarts. In `LedgerPosting` a transaction that is
repeatedly able to proceed does (Postgres queues lock waiters): strong fairness
of each caller's step, none of a new posting or an arbitrary rollback. In `Api`
an accepted request is run, time passes and the sweeper's ticker fires: weak
fairness of the request's own steps, `Age` and `Sweep`, none of failures. In
`Events` the relay and the workers are loops that go on after an error, the
consumer's process is restarted by its supervisor, and time passes: weak fairness
of each; faults are bounded, and nothing is asked of callers, subscribers or
operators.

### What the violated runs show

*Settled twice.* `settle` lets a `finalized` row through its guard, posts, and
takes the Mark that matches nothing for "already settled; idempotent no-op"
(`settlement.go:223-224`). Reaching it takes a failed Reorged delivery, a re-mine
at another block, `Finalized`, and a re-scan that listed the row before it was
final. It does not happen as long as no delivery fails and no payment draws on the
clearing account (`SettledOnceUnlessFaults`): with that account short, a reversal is
refused, which drops the Reorged just as a failed delivery does.

*Flip-flop.* References contain the block hash, and ADR-0014 says an identical
block cannot reappear after a reorganisation. When the chain returns to it, the
settle entry of that block exists, so every Confirmed is refused.

*Failed Reorged.* `watcher.go:239-240` and ADR-0016 say the row's anchor brings
a failed Reorged back. The entry is still tracked, so `Resume` does nothing,
until a restart.

*Created twice.* `middleware.go:20` and ADR-0005 say that a key creates at most one
payment. Any answer but a success releases the key, also when the create has
committed and only its answer was lost, so the retry creates again. The failed
completion, which ADR-0005 names as its limitation, is not the cause: it "fails
safe", as `OncePerClaim` shows. (No key expires in this run.) ADR-0005 also
answers 422 to a different body under a key in flight, where the code answers 409.

*Sent twice.* `approve.go:113-116` takes an empty hash for "nothing was
broadcast". `Adapter.Submit` returns none when `SendTransaction` fails, whether or
not the node took the transaction, so the approval is reopened and sent again.

## Proofs

| Theorem | States |
|---|---|
| `ChainwatcherProofs!TypeCorrect` | `Spec => []TypeOK` |
| `ChainwatcherProofs!SettlesDeepEnough` | `Spec => []DeepEnough` |
| `ChainwatcherLedgerProofs!LedgerMatchesRows` | `Spec => []PostingsMatchRows` |
| `ChainwatcherLedgerProofs!SettledOnceHolds` | `Spec => []SettledOnceUnlessFaults` |
| `ChainwatcherLedgerProofs!EventsTellTheRowHolds`, `HouseAlwaysCovers` | `Spec => []EventsTellTheRow`, `[]HouseCovers` |
| `LedgerPostingProofs!TypeCorrect` | `Spec => []TypeOK` |
| `LedgerPostingProofs!NeverOverdrawn`, `MoneyConserved` | `Spec => []Solvent`, `[]Conserved` |
| `LedgerPostingProofs!ImplementsLedger` | `Spec => AtomicPosting` |
| `LedgerPostingProofs!PostingsNeverDeadlock` | `Spec => []SomeoneProceeds` |
| `LedgerPostingProofs!HeadsFresh`, `LogIntact`, `TamperingShows` | `Spec => []FreshHead`, `[]ChainIntact`, `[]TamperEvident` |
| `ApiProofs!TypeCorrect` | `Spec => []TypeOK` |
| `ApiProofs!OncePerClaimHolds`, `TruthfulAnswersHold` | `Spec => []OncePerClaim`, `[]TruthfulAnswers` |
| `ApiProofs!BooksMatchHolds`, `WalkCompleteHolds` | `Spec => []BooksMatch`, `[]WalkComplete` |
| `EventsProofs!TypeCorrect` | `Spec => []TypeOK` |
| `EventsProofs!NothingLostHolds`, `DeadMeansTriedHolds`, `PublishedInOrderHolds` | `Spec => []NothingLost`, `[]DeadMeansTried`, `[]PublishedInOrder` |
| `EventsProofs!Implementation` | `Spec => ImplementsNotifications` |
| `SubmitProofs!FourEyesHolds`, `SentOnceHolds`, `TrueRecordsHold` | `Spec => []FourEyes`, `[]SentOnce`, `[]TrueRecords` |
| `SubmitProofs!SignedWithinLimitHolds`, `VelocityCapsHold` | `Spec => []SignedWithinLimit`, `[]WindowNeverExceeded` |
| `ReconcileProofs!CountedOnceHolds`, `TrueExitHolds` | `Spec => []CountedOnce`, `Spec => TrueExit` |
| `ReconcileProofs!VerdictAlwaysOK` | `Spec => AlwaysCollateralized` |

They hold for any block tree, depths, payments and bounds, any finite number of
transactions, accounts (where money is summed) and requests, and any number of
callers, keys, relays, partitions, workers, commands, operators, registry
entries, page sizes and faults.
Assumptions: the named `ASSUME`s only. The ones that carry weight: a branch mines
a transaction at most once (`ChainAssumption`), and no account starts below zero
(`SettlementAssumption`): no posting of the code leaves one there, and the opening
credits of the repository, written by SQL (`loadtest.go:282-310`), are positive.
`Reconcile` adds that the payments that are settled are in the clearing account's
asset (`ReconcileAssumption`): the sink finds no clearing account for any other
and refuses (`settlement.go:158-163`).

`Sums` has what the library lacks about `SumFunctionOnSet`: unfolding, adding,
splitting, changing one term, summing over an image. The library's induction theorems
cannot be instantiated by the provers here; facts about finite sets and numbers are
proved from a least counterexample instead (`LeastSet`, `LeastNat`), with the property
written as a set.

`TypeOK` is inductive; it says among the types that a settled row carries its
anchor and that the key in hand is mined or confirmed, without which `Reverse`
and `PollHeader` could not be typed.

`DeepEnough` is not inductive: a row is deep because the status was, the status
because the entry was. `DeepInv` says it of all three: an entry that is
confirmed, a Confirmed or Finalized in `emitted`, a row, and a listed row each
have an anchor that holds the transaction and was buried deep enough on its own
branch, and the head a pass works with is never ahead of the node. The one hard
step is `ComputedDepth`: when the anchor is canonical, its depth under the
pass's head is at most its depth under the current one, since heights do not
shrink. `Buried` never becomes false (`DeepMonotone`).

`PostingsMatchRows` is proved with `LedgerInv`, which adds that the journal is
finite. Only the sink moves it: a posting adds one entry of one kind
(`NetStep`), a Mark moves one row (`LiveStep`), and `OnStatusLedger` puts the two
together, the settle of a final row being the case in which the entry has no row.

`EventsTellTheRow` is inductive given the types; `TellsAppend` is the step that
a handler's event extends the story of its row. `HouseCovers` is inductive with
the same case split: a posting into the clearing account and the Mark that goes
with it change both sides by the payment's amount (`SumChange`), and a payment out
of that account adds to `drawn` what it takes (`PayHouse`). The clearing account may
well be short: then `drawn` is the reason, and the sink never is.

`SettledOnceUnlessFaults` is far from inductive: the ledger accepts the settle of a
final row, and only the whole pipeline says that none at another block arrives.
`Orderly` is about the watcher: an entry's `lastPhase` fits its phase, so that a
change of phase is always surfaced, and a pass surfaces a transaction once, after
it has read it. `Clean`, which holds while `NoLapse` does (no sink transaction failed,
no payment drew on the clearing account), relates entries, statuses,
rows and journal. A status on its way says what the row lacks (`StatusFits`); with
none on its way the entry agrees with the row, and a listed row that could still
seed an entry is current or of a final row (`EntryFits`). A settled row has its
settle entry, not undone; a final row has one at a block that is canonical and too
deep to leave (`RowFits`). As a branch mines a transaction once, a Confirmed that a
stale re-scan brings back for a final row names that very block, and its posting is
a duplicate (`NoSecondPosting`). `PollClean` and `DeliverClean` follow a status from
the read to the sink. A refused delivery keeps `Clean` because a reversal is never
refused (`ReversalAccepted`): the clearing account covers it (`HouseCovers` with
nothing drawn), no account is below zero (`NoOverdraft`), and its reference is new.

`LedgerPosting` needs that a transaction past its check holds its locks, that
what it read is still the balance, that its entry was funded, and that no two
transactions with the same key have both inserted. `Conserved` adds `Vetted`: what
has passed `Post` is balanced, what has passed `checkAccounts` lies in one asset.

`SomeoneProceeds` is the safety half of `PostingsEnd`: while a transaction is open,
what some transaction needs next is free (`Free` spells out the guards of `Step`,
since the prover has no `ENABLED`). `WaitInv` says that a locked row
belongs to an open transaction that touches it, that a transaction has locked the
first of its rows in id order, and that the holder of the audit lock is past it. If
someone is at the audit log, the holder of its lock can go on, or nobody holds it;
otherwise nobody has inserted, so whoever is at its check can go on; otherwise all
are locking, and the one that waits for the largest row can go on: the owner of that
row would have to wait for a larger one.

The audit theorems rest on `AuditInv`: every row of the log is chained to the one
before it, the facts are those of the audited postings and notes, once each, and an
audited transaction at its commit holds the audit lock, so the head it read is still
the last row. A transaction that is not audited leaves all of this alone
(`AuditApart`). That a chained log passes `Verify` is `ChainedVerifies`.
`TamperEvident` follows from `HeadDetermines`: two logs without a fault whose last
hashes agree are the same log, since a hash gives the row and the hash before it; so
an altered log has a fault or another head.

`Api` counts `Slots(k)`: the payments under a key and the request that has claimed
it and may still make one. `IOnce` leaves room for one more exactly when the key
is free. `ITruth` adds what a stored answer, a holder of the key and an answered
request each know. `BooksMatch` is inductive as it stands. For `WalkComplete`,
`Walked` says that the cursor splits the payments: what lies on its newer side and
existed at the start has been listed once, what lies on the older side not at all.
A full page moves the cursor to its last row, and a short page held all the rest.

`Events`: `Safe` says that what left the outbox is ahead of the committed offset or
stored, `Genuine` that nothing moves that was not committed, and `Counted` that the
attempts a worker carries are failures that happened, however stale. Only the
commit of an event, an attempt and a replay show in `Notifications`.
`PublishedInOrder` needs `OInv`: a relay's batch is in the order of `created_at`, has
with every event the earlier ones of its aggregate unless they are sent, and what
is sent is on the topic.

`Submit`: `CInv` follows one approval through its command. `Owned`: while a command
runs, the row it claimed is approved and nobody else's. `HeardHolds`: once a send
was heard, the row stays approved for good. `VInv` says that the holder of a key's
lock counted and summed what is still there (`Truthful`); the count and the amount
of any window then follow from its earliest charge, since the query has no upper
end. `GInv` says that at most one
request is inside a key's bucket and that what it will commit fits.

`Reconcile`: `CountedOnce` is proved with `ScanInv`: there is a set of rows, all
behind the cursor, whose amounts are the sums, and every row behind the cursor that
has counted throughout is in it. A full page is the front of what is listed
(`PageIsPrefix`), so the cursor moves to its last row and skips nothing; a short page
is all of it. A row linked behind the cursor is pending, and counts only once
the sink has moved it. For `TrueExit` comes `ReportInv`: what was read of the
treasuries is still there unless one moved, and no liability read is above zero. The
registry has no pair twice, so its entries and its distinct places sum to the same
(`ActualIsHeld`). The sums are those of `CountedOnce`, so a run is wrong by the rows
that moved at most; with none, they are the only amount that reconciles.

`VerdictAlwaysOK` is the other half of the exit code. `NothingOwed`: from balances
that are not negative no posting leads to one that is, so the sum of the accounts
other than the clearing account is at least zero, and the liabilities, which are
minus that sum, are at most zero: every treasury covers them.

Model-checked only: liveness (`EventuallyFinalized`, `ReversedUnlessFaults`,
`PostingsEnd`, `KeysFreed`, `EventuallySettled`), as fairness and `ENABLED` are beyond
this prover. Every invariant, action property and refinement of a passing run is
proved. The invariants that only the proofs use (`ScanInv`, `ReportInv`, `WaitInv`,
`SomeoneProceeds` and the others) are definitions of the `*Proofs`
modules, as is `AlwaysCollateralized`, which no run checks.

## Abstractions

- Amounts matter only through balances; hashes, ids and payloads are model values.
- The status of an account never changes in the code and is left out.
- One chainwatcher process, as deployed; the sink's row read is not locked.
- In `Settlement` and `Payments` the audit record and the outbox event of a handler
  are one event.
- Integers are unbounded, except where the code compares with the width
  (`IsInt64`). Nothing is shown about the wrap of int64 sums.
- `Api`: requests refused before `Begin` change nothing and are no steps.
- `Events`: a send and its mark are one step, unless the mark fails. `due` stands
  for `next_attempt_at`, backoff and lease alike. Subscriptions do not change (no
  code changes them) and no message is unreadable (the relay writes none). The
  start times of writers are distinct, as ADR-0011 assumes. `PublishedInOrder` is
  about one relay, as ADR-0011 says. A slow worker may overwrite a delivered row
  by a dead letter once its lease has expired; `Notifications` allows it.
- `Submit`: every command has a nonce allocator of its own, as every process has.
  Mining and eviction are left out. `approve` does not screen again: the denylist
  is fixed. The comments of `velocity.go:42` and `velocitystore.go` give the window
  an upper end that the query does not have; `WindowNeverExceeded` needs that it
  has none, for a clock may be behind. The signer's limit is for one life of its
  process (`limiter.go:15-18`).
- `Reconcile`: the treasury's balance is free (external). A row's `created_at` is
  its transaction's start, so it may appear behind the cursor; `CountedOnce` speaks
  of rows that count throughout. `TrueExit` speaks of runs during which no treasury's
  balance moves; rows and accounts may. A single-entry registry is a manifest of one.
  The duplicate check is by holder and asset, as in `registry.go:60-72`, so a manifest
  may list one balance under two assets, and each asset then counts it.

## Where docs and code differ without a run

- Audit. Not every posting is in the audit log, and not every row of it is a posting
  (see `LedgerPosting` above). `ChainIntact` says what the log does promise.
- The clearing account. `settlement.go` treats it as its own, but a payment may draw
  on it. `HouseCovers`, `SettledOnceUnlessFaults` and `ReversedUnlessFaults` say what
  holds then, and what holds while no payment does.
- Proof of reserves. `report.go:56-58` says that a system "can reconcile to zero yet
  still be UNDERCOLLATERALIZED", ADR-0022 that the sum of the other accounts is at most
  zero "because the house account is only ever credited on settle", and case 3 of
  `reconcile_integration_test.go:128-160` expects exit 1 at discrepancy 0. That test
  writes a lone debit by SQL, which leaves an account at -5000. The ledger refuses every
  posting that would, so on a ledger it has written the sum is at least zero, and the
  check never decides the exit code (`VerdictAlwaysOK`). `Clean` in the model has
  the check, as the code does; without it every run would exit the same.
- Recovery. The comments at `settlement.go:14-22` and `104-106` say that a dropped
  effect is retried only after a restart, and that a settled transaction orphaned
  while the watcher is down is not reversed. They are older than the code:
  ADR-0016:57-58 closes both gaps, and `EventuallyFinalized` and
  `ReversedUnlessFaults` show them closed. (What is left of the first is the failed
  Reorged above.)
- Others are named where they matter: ADR-0005 on 422 and 409 (above), the window
  comments of `velocity.go` and `velocitystore.go`, ADR-0011 on two relays, and the
  dead letter over a delivered row.

## Not modelled

- Configuration, the service shell, `cmd/ledger`, the build string: start-up only.
- Generated code: the statements that matter are modelled where they are run.
- The load test: it measures.
- Key custody, signing, the webhook MAC, calldata, envelopes: encodings and
  cryptography without state of their own.
- A second chainwatcher process: one is deployed.
- The execution status of a receipt: the code does not read it.
