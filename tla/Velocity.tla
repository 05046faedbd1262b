------------------------------ MODULE Velocity ------------------------------
(***************************************************************************)
(* The per-key velocity limiter of internal/policy/velocity.go over the    *)
(* velocity_events table (cmd/paymentrailctl/velocitystore.go).  A command *)
(* reads its own machine's clock, then, in one transaction under the key's *)
(* advisory lock, sums the window, decides and inserts its event.  The     *)
(* lock is the transaction's: commit, rollback and a crash release it.     *)
(***************************************************************************)
EXTENDS Intents, FiniteSets, Functions

CONSTANTS
    Time,           \* the instants a clock can show
    Window,         \* the width of the window; <= 0 disables the limiter
    MaxCount,       \* transfers per window; 0: unlimited
    MaxAmount       \* amount per window; NoCap: unlimited

NoCap == -1

ASSUME VelocityAssumption ==
    /\ Time \subseteq Int /\ Time # {}
    /\ Window \in Int
    /\ MaxCount \in Nat
    /\ MaxAmount \in Nat \cup {NoCap}

VARIABLES
    spends,         \* velocity_events: [cmd, key, at, amount]
    holder,         \* the command whose transaction holds the key's advisory lock
    now,            \* the time.Now() a command's Charge took, before the lock
    usage           \* the Usage its window query returned

velocityVars == <<spends, holder, now, usage>>

Spend == [cmd: Command, key: Key, at: Time, amount: Nat]

NoUsage == [count |-> 0, sum |-> 0]

VelocityInit ==
    /\ spends = {}
    /\ holder = [k \in Key |-> None]
    /\ now = [c \in Command |-> None]
    /\ usage = [c \in Command |-> NoUsage]

\* VelocityCaps.Enabled
Enabled == Window > 0 /\ (MaxCount > 0 \/ MaxAmount # NoCap)

Amounts(events) == SumFunctionOnSet([e \in events |-> e.amount], events)

\* VelocityLimiter.Charge up to the store call: the clock is read here.
ReadClock(c) ==
    /\ \E t \in Time : now' = [now EXCEPT ![c] = t]
    /\ UNCHANGED <<spends, holder, usage>>

\* Mutant: the window also ends at the reader's own clock.
SinceUntilNow(c, k) ==
    {e \in spends : e.key = k /\ e.at >= now[c] - Window /\ e.at <= now[c]}

\* WHERE key_id = $1 AND occurred_at >= $2
Since(c, k) == {e \in spends : e.key = k /\ e.at >= now[c] - Window}

\* AcquireVelocityLock waits for the holder; SumVelocityWindow reads under the lock.
SumVelocityWindow(c, k) ==
    /\ holder[k] = None
    /\ holder' = [holder EXCEPT ![k] = c]
    /\ usage' = [usage EXCEPT ![c] = [count |-> Cardinality(Since(c, k)),
                                      sum   |-> Amounts(Since(c, k))]]
    /\ UNCHANGED <<spends, now>>

\* the closure Charge hands to the store
decide(u, amount) ==
    /\ MaxCount > 0 => u.count + 1 <= MaxCount
    /\ MaxAmount # NoCap => u.sum + amount <= MaxAmount

\* The end of c's transaction, whichever way it ends.
Released(c) == [k \in Key |-> IF holder[k] = c THEN None ELSE holder[k]]

\* The event is inserted with the clock read before the lock; then commit.
InsertVelocityEvent(c, k, amount) ==
    /\ holder[k] = c
    /\ decide(usage[c], amount)
    /\ spends' = spends \cup {[cmd |-> c, key |-> k, at |-> now[c], amount |-> amount]}
    /\ holder' = Released(c)
    /\ now' = [now EXCEPT ![c] = None]
    /\ usage' = [usage EXCEPT ![c] = NoUsage]

\* decide refused, a statement failed, or the command died: rollback.
RollbackCharge(c) ==
    /\ holder' = Released(c)
    /\ now' = [now EXCEPT ![c] = None]
    /\ usage' = [usage EXCEPT ![c] = NoUsage]
    /\ UNCHANGED spends

InWindow(k, t) == {e \in spends : e.key = k /\ e.at >= t /\ e.at <= t + Window}

\* No window of the configured width holds more of a key's transfers than MaxCount...
CountWithinCap ==
    Enabled /\ MaxCount > 0 =>
        \A k \in Key, t \in Time : Cardinality(InWindow(k, t)) <= MaxCount

\* ...or more of its money than MaxAmount.
AmountWithinCap ==
    Enabled /\ MaxAmount # NoCap =>
        \A k \in Key, t \in Time : Amounts(InWindow(k, t)) <= MaxAmount

\* The limiter's promise, for every placement of the window and not only the ones
\* that end at a charge: commands whose clocks disagree, or that wait for the lock
\* while others charge, insert events out of order of time, and no window is ever
\* over either cap.
WindowNeverExceeded == CountWithinCap /\ AmountWithinCap
=============================================================================
