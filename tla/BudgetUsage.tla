---------------------------- MODULE BudgetUsage ----------------------------
(***************************************************************************)
(* The budgets of the governance plugin: the check before a call, the      *)
(* charge after it (a goroutine of PostLLMHook, through                    *)
(* UsageTracker.UpdateUsage), the ticker that resets and dumps, Cleanup,   *)
(* and a restart that loads what the configuration store has.              *)
(* There is one budget: the others a call is charged to go through the     *)
(* same steps, one after another, and so do the counters of a rate limit.  *)
(* A loop around CompareAndSwap is one step, taken when nothing came in    *)
(* between; what a goroutine has read and judged before is kept.           *)
(***************************************************************************)
EXTENDS Integers, FiniteSets, FiniteSetsExt

CONSTANTS
  Calls,        \* physical provider calls, by request ID and attempt
  Settlements,  \* the terminal post-hooks of the calls
  CallOf,       \* the call each of them settles: two of one call may race
  Limit,        \* MaxLimit, in charges
  Duration,     \* ResetDuration as ParseDuration reads it
  Boundaries,   \* the instants at which a calendar period starts
  MaxClock,     \* bound: the clock stops here
  MaxCrashes    \* bound: crashes

ASSUME CallAssumption == CallOf \in [Settlements -> Calls]
ASSUME BoundaryAssumption == 0 \in Boundaries /\ Boundaries \subseteq Nat
ASSUME FiniteAssumption == IsFiniteSet(Settlements)
ASSUME NumberAssumption == {Limit, Duration, MaxClock, MaxCrashes} \subseteq Nat

VARIABLES
  now,      \* the clock
  aligned,  \* whether the budget is calendar-aligned
  budget,   \* the budget in memory: its usage and its last reset
  db,       \* its row in the configuration store
  call,     \* where each call is
  settle,   \* where each settlement is
  target,   \* the reset a settlement, or the ticker, has judged due
  judged,   \* history: the last reset it has judged that on
  billed,   \* the calls whose billing is claimed
  ticker,   \* where resetWorker is
  snap,     \* what the ticker is about to write
  cleanup,  \* where Cleanup is
  final,    \* what Cleanup is about to write
  crashes,  \* history: crashes so far
  charged,  \* history: when each settlement was charged, and to which window
  raced,    \* history: the windows ended by a reset judged on an earlier one
  spoilt    \* history: why the final dump may not tell everything

runtime == <<budget, call, settle, target, judged, billed, ticker, snap, cleanup, final>>
history == <<crashes, charged, raced, spoilt>>
vars == <<now, aligned, runtime, db, history>>

Times == 0 .. MaxClock
Rows == [usage : Nat, last : Times]
Never == [at |-> -1, window |-> -1]

\* Every variable is well formed; the usage is never negative and never above
\* the number of settlements.
TypeOK ==
  /\ now \in Times /\ aligned \in BOOLEAN
  /\ {budget, db, snap, final} \subseteq Rows
  /\ budget.usage <= Cardinality(Settlements)
  /\ call \in [Calls -> {"new", "running", "rejected"}]
  /\ settle \in [Settlements -> {"none", "claim", "charge", "reset", "done"}]
  /\ {target, judged} \subseteq [Settlements \union {"ticker"} -> Times]
  /\ billed \subseteq Calls
  /\ ticker \in {"idle", "reset", "persist", "snap", "write", "gone"}
  /\ cleanup \in {"no", "waiting", "snap", "write", "limits", "stopping", "returned"}
  /\ crashes \in 0 .. MaxCrashes
  /\ charged \in [Settlements -> [at : Times, window : Times] \union {Never}]
  /\ raced \subseteq Times
  /\ spoilt \subseteq {"failed", "late", "overtaken"}

Fresh == [usage |-> 0, last |-> 0]

Init ==
  /\ now = 0 /\ aligned \in BOOLEAN
  /\ budget = Fresh /\ db = Fresh /\ snap = Fresh /\ final = Fresh
  /\ call = [c \in Calls |-> "new"]
  /\ settle = [s \in Settlements |-> "none"]
  /\ target = [p \in Settlements \union {"ticker"} |-> 0] /\ judged = target
  /\ billed = {} /\ ticker = "idle" /\ cleanup = "no"
  /\ crashes = 0 /\ charged = [s \in Settlements |-> Never] /\ raced = {} /\ spoilt = {}

-----------------------------------------------------------------------------
\* GetCalendarPeriodStart
PeriodStart(t) == Max({b \in Boundaries : b <= t})

\* Variant: as if the next reset were written instead of the last.
ResetTargetNext(b) == now + Duration

\* Variant: as if an aligned budget were reset to the current instant.
ResetTargetNow(b) == now

\* Variant: as if every budget were reset with the calendar.
ResetDueCalendar(b) == PeriodStart(now) > b.last

\* budgetResetTarget: whether a reset is due, and the LastReset it would write.
ResetDue(b) == IF aligned THEN PeriodStart(now) > b.last ELSE now - b.last >= Duration
ResetTarget(b) == IF aligned THEN PeriodStart(now) ELSE now

\* What p judges and is going to write; it is another window's by then, if others
\* have reset the budget meanwhile.
Judges(p) ==
  /\ target' = [target EXCEPT ![p] = ResetTarget(budget)]
  /\ judged' = [judged EXCEPT ![p] = budget.last]

\* ResetBudgetAt: only a budget whose last reset is older is reset, whether or not
\* it was the one judged.
Resets(p) ==
  /\ IF budget.last < target[p]
     THEN /\ budget' = [usage |-> 0, last |-> target[p]]
          /\ raced' = IF judged[p] = budget.last THEN raced ELSE raced \union {budget.last}
     ELSE UNCHANGED <<budget, raced>>
  /\ target' = [target EXCEPT ![p] = 0] /\ judged' = [judged EXCEPT ![p] = 0]

\* A transaction of the configuration store succeeds or fails.
Write(row) == db' = row \/ UNCHANGED db

-----------------------------------------------------------------------------
\* CheckBudget takes the rolling duration for every budget, aligned or not.
Passes == now - budget.last >= Duration \/ budget.usage < Limit

\* PreLLMHook
PreLLMHook(c) ==
  /\ call[c] = "new"
  /\ call' = [call EXCEPT ![c] = IF Passes THEN "running" ELSE "rejected"]
  /\ UNCHANGED <<now, aligned, budget, db, settle, target, judged, billed, ticker, snap,
                 cleanup, final, history>>

SettleAt(s, there) == settle' = [settle EXCEPT ![s] = there]

\* PostLLMHook starts the goroutine that settles the call.  The hook of a
\* rejected call does not.
PostLLMHook(s) ==
  /\ settle[s] = "none" /\ call[CallOf[s]] = "running"
  /\ SettleAt(s, "claim")
  /\ spoilt' = IF cleanup \in {"no", "waiting"} THEN spoilt ELSE spoilt \union {"late"}
  /\ UNCHANGED <<now, aligned, budget, db, call, target, judged, billed, ticker, snap,
                 cleanup, final,
                 crashes, charged, raced>>

\* Variant: as if the claim were looked up but not recorded.
ClaimUnrecorded(s) ==
  /\ settle[s] = "claim"
  /\ SettleAt(s, IF CallOf[s] \in billed THEN "done" ELSE "charge")
  /\ UNCHANGED <<now, aligned, budget, db, call, target, judged, billed, ticker, snap,
                 cleanup, final, history>>

\* UpdateUsage: a settlement that consumed nothing ends here, and one whose call
\* is billed already.
Claim(s) ==
  /\ settle[s] = "claim"
  /\ \/ SettleAt(s, "done") /\ UNCHANGED billed
     \/ /\ SettleAt(s, IF CallOf[s] \in billed THEN "done" ELSE "charge")
        /\ billed' = billed \union {CallOf[s]}
  /\ UNCHANGED <<now, aligned, budget, db, call, target, judged, ticker, snap, cleanup,
                 final, history>>

\* BumpBudgetUsage, when the budget's window is not over.
Bump(s) ==
  /\ settle[s] = "charge" /\ ~ResetDue(budget)
  /\ budget' = [budget EXCEPT !.usage = @ + 1]
  /\ charged' = [charged EXCEPT ![s] = [at |-> now, window |-> budget.last]]
  /\ SettleAt(s, "done")
  /\ UNCHANGED <<now, aligned, db, call, target, judged, billed, ticker, snap, cleanup,
                 final, crashes, raced, spoilt>>

\* When it is, the budget is reset first, and the loop starts again.
BumpJudges(s) ==
  /\ settle[s] = "charge" /\ ResetDue(budget)
  /\ Judges(s)
  /\ SettleAt(s, "reset")
  /\ UNCHANGED <<now, aligned, budget, db, call, billed, ticker, snap, cleanup, final, history>>

BumpResets(s) ==
  /\ settle[s] = "reset"
  /\ Resets(s)
  /\ SettleAt(s, "charge")
  /\ UNCHANGED <<now, aligned, db, call, billed, ticker, snap, cleanup, final, crashes,
                 charged, spoilt>>

-----------------------------------------------------------------------------
\* resetExpiredCounters, every workerInterval: a tick is taken as long as the worker
\* is in its loop, one that is pending even when done is closed.
TickerJudges ==
  /\ ticker = "idle"
  /\ IF ResetDue(budget)
     THEN ticker' = "reset" /\ Judges("ticker")
     ELSE ticker' = "snap" /\ UNCHANGED <<target, judged>>
  /\ UNCHANGED <<now, aligned, budget, db, call, settle, billed, snap, cleanup, final, history>>

\* The reset row is what ResetExpiredBudgets writes.
TickerResets ==
  /\ ticker = "reset"
  /\ Resets("ticker")
  /\ IF budget.last < target["ticker"]
     THEN snap' = budget' /\ ticker' = "persist"
     ELSE ticker' = "snap" /\ UNCHANGED snap
  /\ UNCHANGED <<now, aligned, db, call, settle, billed, cleanup, final, crashes, charged,
                 spoilt>>

\* The ticker's transactions fail once its context is cancelled.
TickerWrite == IF cleanup = "stopping" THEN UNCHANGED db ELSE Write(snap)

TickerPersists ==
  /\ ticker = "persist"
  /\ TickerWrite
  /\ ticker' = "snap"
  /\ UNCHANGED <<now, aligned, budget, call, settle, target, judged, billed, snap, cleanup,
                 final, history>>

TickerSnaps ==
  /\ ticker = "snap"
  /\ snap' = budget
  /\ ticker' = "write"
  /\ UNCHANGED <<now, aligned, budget, db, call, settle, target, judged, billed, cleanup,
                 final, history>>

\* DumpBudgets writes what it collected, and sweepBilled forgets old claims: of
\* calls no settlement of which comes any more.
TickerWrites ==
  /\ ticker = "write"
  /\ TickerWrite
  /\ ticker' = "idle"
  /\ UNCHANGED <<now, aligned, budget, call, settle, target, judged, billed, snap, cleanup,
                 final, history>>

TickerEnds ==
  /\ ticker = "idle" /\ cleanup = "stopping"
  /\ ticker' = "gone"
  /\ UNCHANGED <<now, aligned, budget, db, call, settle, target, judged, billed, snap,
                 cleanup, final, history>>

-----------------------------------------------------------------------------
CleanupBegins ==
  /\ cleanup = "no" /\ cleanup' = "waiting"
  /\ UNCHANGED <<now, aligned, budget, db, call, settle, target, judged, billed, ticker,
                 snap, final, history>>

\* Variant: as if the plugin did not wait for its goroutines.
CleanupWaitsNot ==
  /\ cleanup = "waiting" /\ cleanup' = "snap"
  /\ UNCHANGED <<now, aligned, budget, db, call, settle, target, judged, billed, ticker,
                 snap, final, history>>

CleanupWaits ==
  /\ cleanup = "waiting" /\ \A s \in Settlements : settle[s] \in {"none", "done"}
  /\ cleanup' = "snap"
  /\ UNCHANGED <<now, aligned, budget, db, call, settle, target, judged, billed, ticker,
                 snap, final, history>>

CleanupSnaps ==
  /\ cleanup = "snap" /\ cleanup' = "write"
  /\ final' = budget
  /\ UNCHANGED <<now, aligned, budget, db, call, settle, target, judged, billed, ticker,
                 snap, history>>

\* The final write.  What the ticker has collected before, and still writes, may
\* come behind it.
CleanupWrites ==
  /\ cleanup = "write" /\ cleanup' = "limits"
  /\ \/ db' = final
        /\ spoilt' = IF ticker \in {"persist", "write"} /\ snap # final
                     THEN spoilt \union {"overtaken"} ELSE spoilt
     \/ UNCHANGED db /\ spoilt' = spoilt \union {"failed"}
  /\ UNCHANGED <<now, aligned, budget, call, settle, target, judged, billed, ticker, snap,
                 final,
                 crashes, charged, raced>>

\* trackerCancel and close(done), after the rate limits are dumped too.  The worker
\* may still take a tick, until it sees done closed.
CleanupStops ==
  /\ cleanup = "limits" /\ cleanup' = "stopping"
  /\ UNCHANGED <<now, aligned, budget, db, call, settle, target, judged, billed, ticker,
                 snap, final,
                 history>>

CleanupReturnsNow ==
  /\ cleanup = "stopping" /\ ticker = "gone"
  /\ cleanup' = "returned"
  /\ UNCHANGED <<now, aligned, budget, db, call, settle, target, judged, billed, ticker,
                 snap, final,
                 history>>

\* The process dies; the next one loads the row and performs the startup
\* resets, before it serves anything.
Restart ==
  /\ crashes < MaxCrashes
  /\ LET due == ResetDue(db)
         row == IF due THEN [usage |-> 0, last |-> ResetTarget(db)] ELSE db
     IN  /\ budget' = row
         /\ IF due THEN Write(row) ELSE UNCHANGED db
  /\ call' = [c \in Calls |-> IF call[c] = "new" THEN "new" ELSE "rejected"]
  /\ settle' = [s \in Settlements |-> IF call[CallOf[s]] = "new" THEN "none" ELSE "done"]
  /\ target' = [p \in DOMAIN target |-> 0] /\ judged' = [p \in DOMAIN judged |-> 0]
  /\ billed' = {} /\ ticker' = "idle" /\ cleanup' = "no"
  /\ snap' = Fresh /\ final' = Fresh
  /\ crashes' = crashes + 1 /\ spoilt' = {}
  /\ UNCHANGED <<now, aligned, charged, raced>>

Tick ==
  /\ now < MaxClock
  /\ now' = now + 1
  /\ UNCHANGED <<aligned, runtime, db, history>>

SettleSteps(s) == Claim(s) \/ Bump(s) \/ BumpJudges(s) \/ BumpResets(s)
TickerSteps ==
  TickerJudges \/ TickerResets \/ TickerPersists \/ TickerSnaps \/ TickerWrites \/ TickerEnds
CleanupSteps ==
  CleanupWaits \/ CleanupSnaps \/ CleanupWrites \/ CleanupStops \/ CleanupReturnsNow

Next ==
  \/ \E c \in Calls : PreLLMHook(c)
  \/ \E s \in Settlements : PostLLMHook(s) \/ SettleSteps(s)
  \/ TickerSteps \/ CleanupBegins \/ CleanupSteps \/ Restart \/ Tick

Spec == Init /\ [][Next]_vars

-----------------------------------------------------------------------------
Charges(window) == {s \in Settlements : charged[s] # Never /\ charged[s].window = window}

\* The usage is what was charged to the current window, unless the process died; a
\* call both of whose terminal hooks fired is charged once; and what is dumped is
\* never more than what was charged to the window it is dumped for.  No charge to a
\* rolling budget is dropped before the duration of its window is over, but by one
\* race: a reset that was judged on an earlier window wipes what was charged since
\* another one.  (tracker.go:92-117, store.go:413-445, 505-535, 2172-2240)
UsageIsExact ==
  /\ \A s, t \in Settlements :
       s # t /\ CallOf[s] = CallOf[t] => charged[s] = Never \/ charged[t] = Never
  /\ budget.usage <= Cardinality(Charges(budget.last))
  /\ crashes = 0 => budget.usage = Cardinality(Charges(budget.last))
  /\ db.usage <= Cardinality(Charges(db.last))
  /\ ~aligned /\ crashes = 0 => \A s \in Settlements :
       charged[s] # Never /\ charged[s].window # budget.last
         => charged[s].window + Duration <= budget.last \/ charged[s].window \in raced

\* However many goroutines find a calendar-aligned budget expired at once, what
\* was charged in the current period still counts.  (store.go:505-535, 1836-1845)
AlignedChargesCount ==
  aligned /\ crashes = 0 =>
    budget.usage >= Cardinality({s \in Settlements : charged[s].at >= PeriodStart(now)})

\* What a row counts for when the next process loads it.
Counts(row) == IF ResetDue(row) THEN 0 ELSE row.usage

\* Once Cleanup has returned the next process counts what this one knew of, neither
\* less nor an ended window's usage again, whatever the ticker did until the end;
\* unless the final dump failed, a hook was late, the ticker was writing what it had
\* collected before, or the race of UsageIsExact wiped the memory behind the dump.
\* (tracker.go:374-398, main.go:1720-1733)
ShutdownFlushes ==
  cleanup = "returned" /\ spoilt = {} => Counts(db) = Counts(budget) \/ db.last \in raced
=============================================================================
