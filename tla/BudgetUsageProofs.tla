-------------------------- MODULE BudgetUsageProofs --------------------------
(***************************************************************************)
(* What BudgetUsage promises for any finite number of calls and            *)
(* settlements, any periods and any number of crashes.                     *)
(***************************************************************************)
EXTENDS BudgetUsage, FiniteSetTheorems, TLAPS

(* How many settlements a history of charges gives to a window.           *)
Tally(log, window) ==
  Cardinality({s \in Settlements : log[s] # Never /\ log[s].window = window})

(* A row tells no more than was charged to its window.                     *)
Counted(row) == row.usage <= Tally(charged, row.last)

(* TypeOK without the bound on the usage, which is a consequence of Exact. *)
Typed ==
  /\ now \in Times /\ aligned \in BOOLEAN
  /\ budget \in Rows /\ db \in Rows /\ snap \in Rows /\ final \in Rows
  /\ call \in [Calls -> {"new", "running", "rejected"}]
  /\ settle \in [Settlements -> {"none", "claim", "charge", "reset", "done"}]
  /\ target \in [Settlements \union {"ticker"} -> Times]
  /\ judged \in [Settlements \union {"ticker"} -> Times]
  /\ billed \subseteq Calls
  /\ ticker \in {"idle", "reset", "persist", "snap", "write", "gone"}
  /\ cleanup \in {"no", "waiting", "snap", "write", "limits", "stopping", "returned"}
  /\ crashes \in 0 .. MaxCrashes
  /\ charged \in [Settlements -> [at : Times, window : Times] \union {Never}]
  /\ raced \subseteq Times
  /\ spoilt \subseteq {"failed", "late", "overtaken"}

(* A settlement that is charging its call, or has.                         *)
Charging(s) == settle[s] \in {"charge", "reset"} \/ charged[s] # Never

(* A call has one settlement that charges it.  The claim keeps the others  *)
(* away while the process lives, and their being over when it has died.    *)
Billing ==
  \A s \in Settlements :
    /\ settle[s] # "none" => call[CallOf[s]] # "new"
    /\ charged[s] # Never => settle[s] = "done"
    /\ Charging(s) =>
         /\ \/ CallOf[s] \in billed
            \/ \A t \in Settlements : CallOf[t] = CallOf[s] => settle[t] = "done"
         /\ \A t \in Settlements : CallOf[t] = CallOf[s] /\ t # s => ~Charging(t)

(* No charge is to a window the budget has not reached yet, and a charge   *)
(* of an aligned budget is to the period it was made in.  The window of a  *)
(* charge to a rolling budget is the present one, is over, or was raced.   *)
Windows ==
  \A s \in Settlements : charged[s] # Never =>
    /\ crashes = 0 => charged[s].window <= budget.last
    /\ aligned => \A b \in Boundaries : b <= charged[s].at => b <= charged[s].window
    /\ crashes = 0 /\ ~aligned =>
         \/ charged[s].window = budget.last
         \/ charged[s].window + Duration <= budget.last
         \/ charged[s].window \in raced

Exact ==
  /\ Counted(budget) /\ Counted(db) /\ Counted(snap) /\ Counted(final)
  /\ crashes = 0 => budget.usage = Tally(charged, budget.last)

(* A row's window has begun, and of an aligned budget with a period.       *)
Timely(row) == row.last <= now /\ (aligned => row.last \in Boundaries)

(* What a reset was judged to write is not from the future, of an aligned  *)
(* budget it is the start of a period, and of a rolling one it ends the    *)
(* window it was judged on.                                                *)
Periods ==
  /\ Timely(budget) /\ Timely(db) /\ Timely(snap) /\ Timely(final)
  /\ \A p \in Settlements \union {"ticker"} :
       /\ target[p] <= now /\ (aligned => target[p] \in Boundaries)
       /\ ~aligned /\ target[p] # 0 => judged[p] + Duration <= target[p]

(* Memory has been reset behind a row, whose window was over or was raced.  *)
Outlived(row) ==
  /\ budget.usage = 0 /\ row.last < budget.last
  /\ aligned \/ row.last + Duration <= budget.last \/ row.last \in raced

Kept(row) == row = budget \/ Outlived(row)

(* From the final dump on what it wrote, and what the ticker writes behind *)
(* it, is kept, unless a note in spoilt says so.                           *)
Flushing ==
  /\ cleanup = "returned" => ticker = "gone"
  /\ cleanup \in {"snap", "write", "limits", "stopping", "returned"} /\ spoilt = {} =>
       \A s \in Settlements : settle[s] \in {"none", "done"}
  /\ cleanup = "write" /\ spoilt = {} => Kept(final)
  /\ cleanup \in {"limits", "stopping", "returned"} /\ spoilt = {} =>
       /\ Kept(db)
       /\ ticker \in {"persist", "write"} => Kept(snap)

IInv == Typed /\ Billing /\ Windows /\ Exact /\ Periods /\ Flushing

-----------------------------------------------------------------------------
(* A set of natural numbers has a least element.                           *)
LEMMA LeastNatural ==
  ASSUME NEW T \in SUBSET Nat, T # {}
  PROVE  \E y \in T : \A z \in T : y <= z
<1> DEFINE R == OpToRel(<, Nat)
<1>1. IsWellFoundedOn(R, Nat)
  BY NatLessThanWellFounded
<1>2. \A z, y \in Nat : z < y => <<z, y>> \in R
  BY DEF OpToRel
<1> HIDE DEF R
<1>3. PICK y \in T : \A z \in T : ~ (<<z, y>> \in R)
  BY <1>1, WFMin
<1>4. ASSUME NEW z \in T PROVE y <= z
  <2>1. ~ (z < y)
    BY <1>2, <1>3
  <2> QED
    BY <2>1
<1> QED
  BY <1>4

(* A set of natural numbers that is bounded has a largest element.         *)
LEMMA LargestExists ==
  ASSUME NEW n \in Nat, NEW S, S \subseteq 0 .. n, S # {}
  PROVE  \E m \in S : \A x \in S : m >= x
<1> DEFINE T == {k \in 0 .. n : n - k \in S}
<1>1. ASSUME NEW x \in S PROVE x \in 0 .. n /\ n - x \in T
  <2>1. x \in 0 .. n /\ n - x \in 0 .. n /\ n - (n - x) = x
    OBVIOUS
  <2> QED
    BY <2>1
<1>2. PICK x \in S : TRUE
  OBVIOUS
<1>3. T \in SUBSET Nat
  OBVIOUS
<1> HIDE DEF T
<1>4. PICK y \in T : \A z \in T : y <= z
  <2>1. T # {}
    BY <1>1, <1>2
  <2> QED
    BY <1>3, <2>1, LeastNatural
<1>5. y \in 0 .. n /\ n - y \in S
  BY DEF T
<1>6. ASSUME NEW z \in S PROVE n - y >= z
  BY <1>1, <1>4, <1>5
<1> QED
  BY <1>5, <1>6

(* GetCalendarPeriodStart finds the latest start of a period.              *)
LEMMA PeriodStartIsLatest ==
  ASSUME NEW t \in Nat
  PROVE  /\ PeriodStart(t) \in Boundaries /\ PeriodStart(t) \in 0 .. t
         /\ \A b \in Boundaries : b <= t => b <= PeriodStart(t)
<1> DEFINE S == {b \in Boundaries : b <= t}
<1>1. S \subseteq 0 .. t /\ 0 \in S
  <2>1. ASSUME NEW x \in S PROVE x \in 0 .. t
    <3>1. x \in Nat /\ x <= t
      BY BoundaryAssumption
    <3> QED
      BY <3>1
  <2>2. 0 \in S
    BY BoundaryAssumption
  <2> QED
    BY <2>1, <2>2
<1> HIDE DEF S
<1>2. \E m \in S : \A x \in S : m >= x
  BY <1>1, LargestExists
<1>3. PeriodStart(t) \in S /\ \A x \in S : PeriodStart(t) >= x
  BY <1>2 DEF PeriodStart, Max, S
<1>4. \A b \in Boundaries : b <= t => b \in S
  BY DEF S
<1>5. S \subseteq Boundaries
  BY DEF S
<1> QED
  BY <1>1, <1>3, <1>4, <1>5, BoundaryAssumption

(* What is judged due is the present, or the start of the present period.  *)
LEMMA TargetIsDue ==
  ASSUME Typed, NEW b
  PROVE  /\ ResetTarget(b) \in 0 .. now /\ ResetTarget(b) \in Times
         /\ aligned => ResetTarget(b) \in Boundaries
<1>1. now \in Nat /\ MaxClock \in Nat /\ now <= MaxClock
  BY NumberAssumption DEF Typed, Times
<1>2. PeriodStart(now) \in Boundaries /\ PeriodStart(now) \in 0 .. now
  BY <1>1, PeriodStartIsLatest
<1> QED
  BY <1>1, <1>2 DEF ResetTarget, Times

(* A reset that is not due any more leaves the budget as it is; one that   *)
(* is empties it, moves its window forward, and notes it if it was judged  *)
(* on another window.                                                      *)
LEMMA ResetMoves ==
  ASSUME Typed, NEW p \in Settlements \union {"ticker"}, Resets(p)
  PROVE  /\ target[p] \in Times /\ budget' \in Rows
         /\ target' = [target EXCEPT ![p] = 0] /\ judged' = [judged EXCEPT ![p] = 0]
         /\ raced \subseteq raced' /\ raced' \subseteq Times
         /\ \/ budget' = budget
            \/ /\ budget' = [usage |-> 0, last |-> target[p]] /\ budget.last < target[p]
               /\ judged[p] = budget.last \/ budget.last \in raced'
<1>1. target[p] \in Times /\ budget.last \in Times
  BY DEF Typed, Rows
<1>2. [usage |-> 0, last |-> target[p]] \in Rows
  BY <1>1 DEF Rows
<1>3. CASE budget.last < target[p]
  BY <1>1, <1>2, <1>3 DEF Resets, Typed
<1>4. CASE ~(budget.last < target[p])
  BY <1>1, <1>4 DEF Resets, Typed
<1> QED
  BY <1>3, <1>4

(* A rolling window that was not raced has lasted its duration when it is  *)
(* reset.                                                                  *)
LEMMA ResetIsDue ==
  ASSUME Typed, Periods, ~aligned, NEW p \in Settlements \union {"ticker"}, Resets(p)
  PROVE  \/ budget' = budget
         \/ budget.last + Duration <= budget'.last
         \/ budget.last \in raced'
<1>1. budget.last \in Nat /\ target[p] \in Nat /\ judged[p] \in Nat
  BY NumberAssumption DEF Typed, Rows, Times
<1>2. target[p] # 0 => judged[p] + Duration <= target[p]
  BY DEF Periods
<1> QED
  BY <1>1, <1>2, ResetMoves

(* A reset leaves what was kept kept.                                      *)
LEMMA ResetKeeps ==
  ASSUME Typed, Typed', Periods, NEW p \in Settlements \union {"ticker"}, Resets(p),
         UNCHANGED aligned, NEW row \in Rows, Kept(row)
  PROVE  row = budget' \/ /\ budget'.usage = 0 /\ row.last < budget'.last
                          /\ \/ aligned \/ row.last + Duration <= budget'.last
                             \/ row.last \in raced'
<1>1. /\ budget.last \in Nat /\ budget'.last \in Nat /\ row.last \in Nat /\ Duration \in Nat
  BY NumberAssumption DEF Typed, Rows, Times
<1>2. CASE budget' = budget
  BY <1>2, ResetMoves DEF Kept, Outlived
<1>3. CASE budget' # budget
  <2>1. budget'.usage = 0 /\ budget.last < budget'.last /\ raced \subseteq raced'
    BY <1>3, ResetMoves
  <2>2. row.last < budget'.last
    BY <1>1, <2>1 DEF Kept, Outlived
  <2>3. ~aligned => row.last + Duration <= budget'.last \/ row.last \in raced'
    <3>1. CASE row = budget
      BY <1>3, <3>1, ResetIsDue
    <3>2. CASE Outlived(row)
      BY <1>1, <2>1, <3>2 DEF Outlived
    <3> QED
      BY <3>1, <3>2 DEF Kept
  <2> QED
    BY <2>1, <2>2, <2>3
<1> QED
  BY <1>2, <1>3

(* A window has at most as many charges as there are settlements.          *)
LEMMA TallyType ==
  ASSUME NEW log, NEW w
  PROVE  /\ Tally(log, w) \in Nat /\ Cardinality(Settlements) \in Nat
         /\ Tally(log, w) <= Cardinality(Settlements)
<1> DEFINE T == {s \in Settlements : log[s] # Never /\ log[s].window = w}
<1>1. T \in SUBSET Settlements
  OBVIOUS
<1> HIDE DEF T
<1>2. IsFiniteSet(T) /\ Cardinality(T) <= Cardinality(Settlements)
  BY <1>1, FiniteAssumption, FS_Subset
<1>3. Cardinality(T) \in Nat /\ Cardinality(Settlements) \in Nat
  BY <1>2, FiniteAssumption, FS_CardinalityType
<1> QED
  BY <1>2, <1>3 DEF Tally, T

(* A new charge counts once, for its window.                               *)
LEMMA TallyGrows ==
  ASSUME NEW log, NEW new, NEW s \in Settlements, log[s] = Never, new[s] # Never,
         \A t \in Settlements : t # s => new[t] = log[t],
         NEW w
  PROVE  Tally(new, w) = IF new[s].window = w THEN Tally(log, w) + 1 ELSE Tally(log, w)
<1> DEFINE T(f) == {t \in Settlements : f[t] # Never /\ f[t].window = w}
<1>1. T(log) \in SUBSET Settlements /\ s \notin T(log)
  OBVIOUS
<1>2. T(new) = IF new[s].window = w THEN T(log) \union {s} ELSE T(log)
  OBVIOUS
<1>3. Tally(new, w) = Cardinality(T(new)) /\ Tally(log, w) = Cardinality(T(log))
  BY DEF Tally
<1> HIDE DEF T
<1>4. Cardinality(T(log) \union {s}) = Cardinality(T(log)) + 1
  BY <1>1, FiniteAssumption, FS_Subset, FS_AddElement
<1> QED
  BY <1>2, <1>3, <1>4

(* A window nothing was charged to has no charge.                          *)
LEMMA TallyEmpty ==
  ASSUME NEW log, NEW w, \A s \in Settlements : log[s] # Never => log[s].window # w
  PROVE  Tally(log, w) = 0
<1>1. {s \in Settlements : log[s] # Never /\ log[s].window = w} = {}
  OBVIOUS
<1> QED
  BY <1>1, FS_EmptySet DEF Tally

(* The rows after a restart: the stored one, or an emptied one.            *)
LEMMA RestartLoads ==
  ASSUME Typed, Restart
  PROVE  /\ budget' \in Rows /\ db' \in Rows
         /\ budget' = db \/ budget'.usage = 0
         /\ db' = db \/ db' = budget'
<1>1. ResetTarget(db) \in Times
  BY TargetIsDue
<1>2. [usage |-> 0, last |-> ResetTarget(db)] \in Rows
  BY <1>1 DEF Rows
<1>3. CASE ResetDue(db)
  BY <1>2, <1>3 DEF Restart, Write, Typed
<1>4. CASE ~ResetDue(db)
  BY <1>4 DEF Restart, Typed
<1> QED
  BY <1>3, <1>4

(* A reset never leaves the budget with more than its new window has, and  *)
(* that is nothing.                                                        *)
LEMMA ResetKeepsCount ==
  ASSUME Typed, Typed', Windows, Exact, NEW p \in Settlements \union {"ticker"},
         Resets(p), UNCHANGED charged
  PROVE  /\ Counted(budget)'
         /\ crashes = 0 => budget'.usage = Tally(charged, budget'.last)
<1> USE NumberAssumption, TallyType DEF Typed, Exact, Counted, Rows, Times
<1>1. CASE budget' = budget
  BY <1>1
<1>2. CASE budget' = [usage |-> 0, last |-> target[p]] /\ budget.last < target[p]
  <2>1. budget'.usage = 0 /\ budget'.last = target[p]
    BY <1>2
  <2>2. crashes = 0 => Tally(charged, target[p]) = 0
    <3>1. crashes = 0 =>
            \A s \in Settlements : charged[s] # Never => charged[s].window # target[p]
      BY <1>2 DEF Windows
    <3> QED
      BY <3>1, TallyEmpty
  <2> QED
    BY <2>1, <2>2
<1> QED
  BY <1>1, <1>2, ResetMoves

(* Every action keeps the types. *)
LEMMA TypedStep ==
  ASSUME Typed, [Next]_vars
  PROVE  Typed'
<1> USE NumberAssumption DEF Typed, Times, Rows, Fresh, Never
<1>1. ASSUME NEW c \in Calls, PreLLMHook(c) PROVE Typed'
  BY <1>1 DEF PreLLMHook, SettleAt, runtime, history
<1>2. ASSUME NEW s \in Settlements, PostLLMHook(s) PROVE Typed'
  BY <1>2 DEF PostLLMHook, SettleAt, runtime, history
<1>3. ASSUME NEW s \in Settlements, Claim(s) PROVE Typed'
  <2>1. settle' \in [Settlements -> {"none", "claim", "charge", "reset", "done"}]
    BY <1>3 DEF Claim, SettleAt
  <2>2. billed' \subseteq Calls
    BY <1>3, CallAssumption DEF Claim
  <2> QED
    BY <1>3, <2>1, <2>2 DEF Claim, history
<1>4. ASSUME NEW s \in Settlements, Bump(s) PROVE Typed'
  BY <1>4 DEF Bump, SettleAt, runtime, history
<1>5. ASSUME NEW s \in Settlements, BumpJudges(s) PROVE Typed'
  BY <1>5, TargetIsDue DEF BumpJudges, Judges, SettleAt, runtime, history
<1>6. ASSUME NEW s \in Settlements, BumpResets(s) PROVE Typed'
  <2>1. Resets(s)
    BY <1>6 DEF BumpResets
  <2>2. /\ budget' \in Rows /\ raced' \subseteq Times
        /\ target' = [target EXCEPT ![s] = 0] /\ judged' = [judged EXCEPT ![s] = 0]
    BY <2>1, ResetMoves
  <2> QED
    BY <1>6, <2>2 DEF BumpResets, SettleAt, history
<1>7. CASE TickerJudges
  BY <1>7, TargetIsDue DEF TickerJudges, Judges, runtime, history
<1>8. CASE TickerResets
  <2>1. Resets("ticker")
    BY <1>8 DEF TickerResets
  <2>2. /\ budget' \in Rows /\ raced' \subseteq Times
        /\ target' = [target EXCEPT !["ticker"] = 0]
        /\ judged' = [judged EXCEPT !["ticker"] = 0]
    BY <2>1, ResetMoves
  <2>3. snap' \in Rows /\ ticker' \in {"persist", "snap"}
    BY <1>8, <2>2 DEF TickerResets
  <2> QED
    BY <1>8, <2>2, <2>3 DEF TickerResets, history
<1>9. CASE TickerPersists
  <2>1. db' \in Rows
    BY <1>9 DEF TickerPersists, TickerWrite, Write
  <2> QED
    BY <1>9, <2>1 DEF TickerPersists, history
<1>10. CASE TickerSnaps
  BY <1>10 DEF TickerSnaps, runtime, history
<1>11. CASE TickerWrites
  <2>1. db' \in Rows
    BY <1>11 DEF TickerWrites, TickerWrite, Write
  <2> QED
    BY <1>11, <2>1 DEF TickerWrites, history
<1>12. CASE TickerEnds
  BY <1>12 DEF TickerEnds, runtime, history
<1>13. CASE CleanupBegins
  BY <1>13 DEF CleanupBegins, runtime, history
<1>14. CASE CleanupWaits
  BY <1>14 DEF CleanupWaits, runtime, history
<1>15. CASE CleanupSnaps
  BY <1>15 DEF CleanupSnaps, runtime, history
<1>16. CASE CleanupWrites
  BY <1>16 DEF CleanupWrites, runtime, history
<1>17. CASE CleanupStops
  BY <1>17 DEF CleanupStops, runtime, history
<1>18. CASE CleanupReturnsNow
  BY <1>18 DEF CleanupReturnsNow, runtime, history
<1>19. CASE Restart
  <2>1. budget' \in Rows /\ db' \in Rows
    BY <1>19, RestartLoads
  <2> QED
    BY <1>19, <2>1 DEF Restart
<1>20. CASE Tick
  BY <1>20 DEF Tick, runtime, history
<1>21. CASE UNCHANGED vars
  BY <1>21 DEF vars, runtime, history
<1> QED
  BY <1>1, <1>2, <1>3, <1>4, <1>5, <1>6, <1>7, <1>8, <1>9, <1>10,
     <1>11, <1>12, <1>13, <1>14, <1>15, <1>16, <1>17, <1>18, <1>19, <1>20, <1>21
     DEF Next, SettleSteps, TickerSteps, CleanupSteps

(* A call never gets a second settlement that charges it. *)
LEMMA BillingStep ==
  ASSUME Typed, Typed', Billing, [Next]_vars
  PROVE  Billing'
<1> USE CallAssumption DEF Typed, Billing, Charging
<1>1. ASSUME NEW c \in Calls, PreLLMHook(c) PROVE Billing'
  BY <1>1 DEF PreLLMHook, SettleAt, runtime, history
<1>2. ASSUME NEW s \in Settlements, PostLLMHook(s) PROVE Billing'
  BY <1>2 DEF PostLLMHook, SettleAt, runtime, history
<1>3. ASSUME NEW s \in Settlements, Claim(s) PROVE Billing'
  BY <1>3 DEF Claim, SettleAt, runtime, history
<1>4. ASSUME NEW s \in Settlements, Bump(s) PROVE Billing'
  <2>1. \A t \in Settlements : t # s => charged'[t] = charged[t] /\ settle'[t] = settle[t]
    BY <1>4 DEF Bump, SettleAt
  <2>2. settle'[s] = "done" /\ settle[s] = "charge"
    BY <1>4 DEF Bump, SettleAt
  <2> QED
    BY <1>4, <2>1, <2>2 DEF Bump
<1>5. ASSUME NEW s \in Settlements, BumpJudges(s) PROVE Billing'
  BY <1>5 DEF BumpJudges, SettleAt, runtime, history
<1>6. ASSUME NEW s \in Settlements, BumpResets(s) PROVE Billing'
  BY <1>6 DEF BumpResets, SettleAt, runtime, history
<1>7. CASE TickerJudges
  BY <1>7 DEF TickerJudges, runtime, history
<1>8. CASE TickerResets
  BY <1>8 DEF TickerResets, runtime, history
<1>9. CASE TickerPersists
  BY <1>9 DEF TickerPersists, runtime, history
<1>10. CASE TickerSnaps
  BY <1>10 DEF TickerSnaps, runtime, history
<1>11. CASE TickerWrites
  BY <1>11 DEF TickerWrites, runtime, history
<1>12. CASE TickerEnds
  BY <1>12 DEF TickerEnds, runtime, history
<1>13. CASE CleanupBegins
  BY <1>13 DEF CleanupBegins, runtime, history
<1>14. CASE CleanupWaits
  BY <1>14 DEF CleanupWaits, runtime, history
<1>15. CASE CleanupSnaps
  BY <1>15 DEF CleanupSnaps, runtime, history
<1>16. CASE CleanupWrites
  BY <1>16 DEF CleanupWrites, runtime, history
<1>17. CASE CleanupStops
  BY <1>17 DEF CleanupStops, runtime, history
<1>18. CASE CleanupReturnsNow
  BY <1>18 DEF CleanupReturnsNow, runtime, history
<1>19. CASE Restart
  BY <1>19 DEF Restart, runtime, history
<1>20. CASE Tick
  BY <1>20 DEF Tick, runtime, history
<1>21. CASE UNCHANGED vars
  BY <1>21 DEF vars, runtime, history
<1> QED
  BY <1>1, <1>2, <1>3, <1>4, <1>5, <1>6, <1>7, <1>8, <1>9, <1>10,
     <1>11, <1>12, <1>13, <1>14, <1>15, <1>16, <1>17, <1>18, <1>19, <1>20, <1>21
     DEF Next, SettleSteps, TickerSteps, CleanupSteps

(* What is judged due stays in the past. *)
LEMMA PeriodsStep ==
  ASSUME Typed, Typed', Periods, [Next]_vars
  PROVE  Periods'
<1> USE NumberAssumption DEF Typed, Periods, Timely, Times, Rows
<1>1. ASSUME NEW c \in Calls, PreLLMHook(c) PROVE Periods'
  BY <1>1 DEF PreLLMHook, SettleAt, runtime, history
<1>2. ASSUME NEW s \in Settlements, PostLLMHook(s) PROVE Periods'
  BY <1>2 DEF PostLLMHook, SettleAt, runtime, history
<1>3. ASSUME NEW s \in Settlements, Claim(s) PROVE Periods'
  BY <1>3 DEF Claim, SettleAt, runtime, history
<1>4. ASSUME NEW s \in Settlements, Bump(s) PROVE Periods'
  <2>1. budget'.last = budget.last
    BY <1>4 DEF Bump
  <2> QED
    BY <1>4, <2>1 DEF Bump, history
<1>5. ASSUME NEW s \in Settlements, BumpJudges(s) PROVE Periods'
  <2>1. ResetTarget(budget) \in 0 .. now /\ (aligned => ResetTarget(budget) \in Boundaries)
    BY TargetIsDue
  <2>2. ~aligned => budget.last + Duration <= ResetTarget(budget)
    BY <1>5 DEF BumpJudges, ResetDue, ResetTarget
  <2> QED
    BY <1>5, <2>1, <2>2 DEF BumpJudges, Judges, history
<1>6. ASSUME NEW s \in Settlements, BumpResets(s) PROVE Periods'
  <2>1. Resets(s)
    BY <1>6 DEF BumpResets
  <2>2. /\ budget' = budget \/ budget'.last = target[s]
        /\ target' = [target EXCEPT ![s] = 0] /\ judged' = [judged EXCEPT ![s] = 0]
    BY <2>1, ResetMoves
  <2> QED
    BY <1>6, <2>2, BoundaryAssumption DEF BumpResets, history
<1>7. CASE TickerJudges
  <2>1. ResetTarget(budget) \in 0 .. now /\ (aligned => ResetTarget(budget) \in Boundaries)
    BY TargetIsDue
  <2>2. ~aligned /\ ResetDue(budget) => budget.last + Duration <= ResetTarget(budget)
    BY DEF ResetDue, ResetTarget
  <2> QED
    BY <1>7, <2>1, <2>2 DEF TickerJudges, Judges, history
<1>8. CASE TickerResets
  <2>1. Resets("ticker")
    BY <1>8 DEF TickerResets
  <2>2. /\ budget' = budget \/ budget'.last = target["ticker"]
        /\ target' = [target EXCEPT !["ticker"] = 0] /\ judged' = [judged EXCEPT !["ticker"] = 0]
    BY <2>1, ResetMoves
  <2>3. snap' \in {snap, budget'}
    BY <1>8 DEF TickerResets
  <2> QED
    BY <1>8, <2>2, <2>3, BoundaryAssumption DEF TickerResets, history
<1>9. CASE TickerPersists
  BY <1>9 DEF TickerPersists, TickerWrite, Write, runtime, history
<1>10. CASE TickerSnaps
  BY <1>10 DEF TickerSnaps, runtime, history
<1>11. CASE TickerWrites
  BY <1>11 DEF TickerWrites, TickerWrite, Write, runtime, history
<1>12. CASE TickerEnds
  BY <1>12 DEF TickerEnds, runtime, history
<1>13. CASE CleanupBegins
  BY <1>13 DEF CleanupBegins, runtime, history
<1>14. CASE CleanupWaits
  BY <1>14 DEF CleanupWaits, runtime, history
<1>15. CASE CleanupSnaps
  BY <1>15 DEF CleanupSnaps, runtime, history
<1>16. CASE CleanupWrites
  BY <1>16 DEF CleanupWrites, runtime, history
<1>17. CASE CleanupStops
  BY <1>17 DEF CleanupStops, runtime, history
<1>18. CASE CleanupReturnsNow
  BY <1>18 DEF CleanupReturnsNow, runtime, history
<1>19. CASE Restart
  <2>1. budget'.last \in {db.last, ResetTarget(db)} /\ db' \in {db, budget'}
    BY <1>19 DEF Restart, Write
  <2>2. ResetTarget(db) \in 0 .. now /\ (aligned => ResetTarget(db) \in Boundaries)
    BY TargetIsDue
  <2> QED
    BY <1>19, <2>1, <2>2, BoundaryAssumption DEF Restart, Fresh
<1>20. CASE Tick
  BY <1>20 DEF Tick, runtime, history
<1>21. CASE UNCHANGED vars
  BY <1>21 DEF vars, runtime, history
<1> QED
  BY <1>1, <1>2, <1>3, <1>4, <1>5, <1>6, <1>7, <1>8, <1>9, <1>10,
     <1>11, <1>12, <1>13, <1>14, <1>15, <1>16, <1>17, <1>18, <1>19, <1>20, <1>21
     DEF Next, SettleSteps, TickerSteps, CleanupSteps

(* Charges stay in windows the budget has reached. *)
LEMMA WindowsStep ==
  ASSUME Typed, Typed', Billing, Periods, Windows, [Next]_vars
  PROVE  Windows'
<1> USE NumberAssumption DEF Typed, Windows, Times, Rows
<1>1. ASSUME NEW c \in Calls, PreLLMHook(c) PROVE Windows'
  BY <1>1 DEF PreLLMHook, SettleAt, runtime, history
<1>2. ASSUME NEW s \in Settlements, PostLLMHook(s) PROVE Windows'
  BY <1>2 DEF PostLLMHook, SettleAt, runtime, history
<1>3. ASSUME NEW s \in Settlements, Claim(s) PROVE Windows'
  BY <1>3 DEF Claim, SettleAt, runtime, history
<1>4. ASSUME NEW s \in Settlements, Bump(s) PROVE Windows'
  <2>1. \A t \in Settlements : t # s => charged'[t] = charged[t]
    BY <1>4 DEF Bump
  <2>2. charged'[s].at = now /\ charged'[s].window = budget.last
    BY <1>4 DEF Bump
  <2>3. budget'.last = budget.last /\ UNCHANGED <<aligned, crashes, raced>>
    BY <1>4 DEF Bump
  <2>4. aligned => \A b \in Boundaries : b <= now => b <= budget.last
    <3>1. aligned => PeriodStart(now) <= budget.last
      <4>1. now \in Nat
        OBVIOUS
      <4>2. PeriodStart(now) \in Nat /\ budget.last \in Nat
        BY <4>1, PeriodStartIsLatest
      <4> QED
        BY <1>4, <4>2 DEF Bump, ResetDue
    <3> QED
      BY <3>1, PeriodStartIsLatest, BoundaryAssumption
  <2> QED
    BY <2>1, <2>2, <2>3, <2>4
<1>5. ASSUME NEW s \in Settlements, BumpJudges(s) PROVE Windows'
  BY <1>5 DEF BumpJudges, SettleAt, runtime, history
<1>6. ASSUME NEW s \in Settlements, BumpResets(s) PROVE Windows'
  <2>1. Resets(s)
    BY <1>6 DEF BumpResets
  <2>2. budget'.last >= budget.last /\ raced \subseteq raced'
    BY <2>1, ResetMoves
  <2>3. ~aligned => \/ budget'.last = budget.last
                    \/ budget.last + Duration <= budget'.last
                    \/ budget.last \in raced'
    BY <2>1, ResetIsDue
  <2> QED
    BY <1>6, <2>2, <2>3 DEF BumpResets, history
<1>7. CASE TickerJudges
  BY <1>7 DEF TickerJudges, runtime, history
<1>8. CASE TickerResets
  <2>1. Resets("ticker")
    BY <1>8 DEF TickerResets
  <2>2. budget'.last >= budget.last /\ raced \subseteq raced'
    BY <2>1, ResetMoves
  <2>3. ~aligned => \/ budget'.last = budget.last
                    \/ budget.last + Duration <= budget'.last
                    \/ budget.last \in raced'
    BY <2>1, ResetIsDue
  <2> QED
    BY <1>8, <2>2, <2>3 DEF TickerResets, history
<1>9. CASE TickerPersists
  BY <1>9 DEF TickerPersists, runtime, history
<1>10. CASE TickerSnaps
  BY <1>10 DEF TickerSnaps, runtime, history
<1>11. CASE TickerWrites
  BY <1>11 DEF TickerWrites, runtime, history
<1>12. CASE TickerEnds
  BY <1>12 DEF TickerEnds, runtime, history
<1>13. CASE CleanupBegins
  BY <1>13 DEF CleanupBegins, runtime, history
<1>14. CASE CleanupWaits
  BY <1>14 DEF CleanupWaits, runtime, history
<1>15. CASE CleanupSnaps
  BY <1>15 DEF CleanupSnaps, runtime, history
<1>16. CASE CleanupWrites
  BY <1>16 DEF CleanupWrites, runtime, history
<1>17. CASE CleanupStops
  BY <1>17 DEF CleanupStops, runtime, history
<1>18. CASE CleanupReturnsNow
  BY <1>18 DEF CleanupReturnsNow, runtime, history
<1>19. CASE Restart
  BY <1>19 DEF Restart, runtime, history
<1>20. CASE Tick
  BY <1>20 DEF Tick, runtime, history
<1>21. CASE UNCHANGED vars
  BY <1>21 DEF vars, runtime, history
<1> QED
  BY <1>1, <1>2, <1>3, <1>4, <1>5, <1>6, <1>7, <1>8, <1>9, <1>10,
     <1>11, <1>12, <1>13, <1>14, <1>15, <1>16, <1>17, <1>18, <1>19, <1>20, <1>21
     DEF Next, SettleSteps, TickerSteps, CleanupSteps

(* No row tells of more charges than its window has. *)
LEMMA ExactStep ==
  ASSUME Typed, Typed', Billing, Windows, Exact, [Next]_vars
  PROVE  Exact'
<1> USE NumberAssumption, TallyType DEF Typed, Exact, Counted, Rows, Fresh
<1>1. ASSUME NEW c \in Calls, PreLLMHook(c) PROVE Exact'
  BY <1>1 DEF PreLLMHook, SettleAt, runtime, history
<1>2. ASSUME NEW s \in Settlements, PostLLMHook(s) PROVE Exact'
  BY <1>2 DEF PostLLMHook, SettleAt, runtime, history
<1>3. ASSUME NEW s \in Settlements, Claim(s) PROVE Exact'
  BY <1>3 DEF Claim, SettleAt, runtime, history
<1>4. ASSUME NEW s \in Settlements, Bump(s) PROVE Exact'
  <2>1. \A t \in Settlements : t # s => charged'[t] = charged[t]
    BY <1>4 DEF Bump
  <2>2. charged[s] = Never
    BY <1>4 DEF Bump, Billing
  <2>3. charged'[s].window = budget.last /\ charged'[s] # Never
    BY <1>4 DEF Bump, Never, Times
  <2>4. \A w : Tally(charged', w) = IF budget.last = w THEN Tally(charged, w) + 1
                                     ELSE Tally(charged, w)
    BY <2>1, <2>2, <2>3, TallyGrows
  <2>5. budget'.usage = budget.usage + 1 /\ budget'.last = budget.last
    BY <1>4 DEF Bump
  <2>6. \A w : Tally(charged', w) >= Tally(charged, w)
    BY <2>4, TallyType
  <2>7. Tally(charged', budget.last) = Tally(charged, budget.last) + 1
    BY <2>4
  <2>8. UNCHANGED <<db, snap, final, crashes>>
    BY <1>4 DEF Bump
  <2>9. Counted(db)' /\ Counted(snap)' /\ Counted(final)'
    BY <2>6, <2>8
  <2>10. Counted(budget)' /\ (crashes = 0 => budget'.usage = Tally(charged', budget'.last))
    BY <2>5, <2>7
  <2> QED
    BY <2>8, <2>9, <2>10
<1>5. ASSUME NEW s \in Settlements, BumpJudges(s) PROVE Exact'
  BY <1>5 DEF BumpJudges, SettleAt, runtime, history
<1>6. ASSUME NEW s \in Settlements, BumpResets(s) PROVE Exact'
  <2>1. Resets(s) /\ UNCHANGED <<charged, db, snap, final, crashes>>
    BY <1>6 DEF BumpResets, history
  <2>2. Counted(budget)' /\ (crashes = 0 => budget'.usage = Tally(charged, budget'.last))
    BY <2>1, ResetKeepsCount
  <2> QED
    BY <2>1, <2>2
<1>7. CASE TickerJudges
  BY <1>7 DEF TickerJudges, runtime, history
<1>8. CASE TickerResets
  <2>1. Resets("ticker") /\ UNCHANGED <<charged, db, final, crashes>>
    BY <1>8 DEF TickerResets, history
  <2>2. Counted(budget)' /\ (crashes = 0 => budget'.usage = Tally(charged, budget'.last))
    BY <2>1, ResetKeepsCount
  <2>3. snap' \in {budget', snap}
    BY <1>8 DEF TickerResets
  <2> QED
    BY <2>1, <2>2, <2>3
<1>9. CASE TickerPersists
  BY <1>9 DEF TickerPersists, TickerWrite, Write, history
<1>10. CASE TickerSnaps
  BY <1>10 DEF TickerSnaps, runtime, history
<1>11. CASE TickerWrites
  BY <1>11 DEF TickerWrites, TickerWrite, Write, history
<1>12. CASE TickerEnds
  BY <1>12 DEF TickerEnds, runtime, history
<1>13. CASE CleanupBegins
  BY <1>13 DEF CleanupBegins, runtime, history
<1>14. CASE CleanupWaits
  BY <1>14 DEF CleanupWaits, runtime, history
<1>15. CASE CleanupSnaps
  BY <1>15 DEF CleanupSnaps, runtime, history
<1>16. CASE CleanupWrites
  BY <1>16 DEF CleanupWrites, runtime, history
<1>17. CASE CleanupStops
  BY <1>17 DEF CleanupStops, runtime, history
<1>18. CASE CleanupReturnsNow
  BY <1>18 DEF CleanupReturnsNow, runtime, history
<1>19. CASE Restart
  <2>1. budget' = db \/ budget'.usage = 0
    BY <1>19, RestartLoads
  <2>2. db' = db \/ db' = budget'
    BY <1>19, RestartLoads
  <2>3. snap' = Fresh /\ final' = Fresh /\ charged' = charged /\ crashes' # 0
    BY <1>19 DEF Restart
  <2> QED
    BY <2>1, <2>2, <2>3
<1>20. CASE Tick
  BY <1>20 DEF Tick, runtime, history
<1>21. CASE UNCHANGED vars
  BY <1>21 DEF vars, runtime, history
<1> QED
  BY <1>1, <1>2, <1>3, <1>4, <1>5, <1>6, <1>7, <1>8, <1>9, <1>10,
     <1>11, <1>12, <1>13, <1>14, <1>15, <1>16, <1>17, <1>18, <1>19, <1>20, <1>21
     DEF Next, SettleSteps, TickerSteps, CleanupSteps

(* After the final dump the row has the usage, or a note says why not. *)
LEMMA FlushingStep ==
  ASSUME Typed, Typed', Periods, Flushing, [Next]_vars
  PROVE  Flushing'
<1> USE DEF Typed, Flushing, Kept, Outlived
<1>1. ASSUME NEW c \in Calls, PreLLMHook(c) PROVE Flushing'
  BY <1>1 DEF PreLLMHook, SettleAt, runtime, history
<1>2. ASSUME NEW s \in Settlements, PostLLMHook(s) PROVE Flushing'
  BY <1>2 DEF PostLLMHook, SettleAt, runtime, history
<1>3. ASSUME NEW s \in Settlements, Claim(s) PROVE Flushing'
  BY <1>3 DEF Claim, SettleAt, runtime, history
<1>4. ASSUME NEW s \in Settlements, Bump(s) PROVE Flushing'
  BY <1>4 DEF Bump, SettleAt, runtime, history
<1>5. ASSUME NEW s \in Settlements, BumpJudges(s) PROVE Flushing'
  BY <1>5 DEF BumpJudges, SettleAt, runtime, history
<1>6. ASSUME NEW s \in Settlements, BumpResets(s) PROVE Flushing'
  BY <1>6 DEF BumpResets, SettleAt, runtime, history
<1>7. CASE TickerJudges
  BY <1>7 DEF TickerJudges, runtime, history
<1>8. CASE TickerResets
  <2>1. Resets("ticker") /\ UNCHANGED <<aligned, settle, db, final, cleanup, spoilt>>
    BY <1>8 DEF TickerResets
  <2>2. ticker' = "persist" => snap' = budget'
    BY <1>8 DEF TickerResets
  <2>3. ticker = "reset" /\ ticker' \in {"persist", "snap"}
    BY <1>8 DEF TickerResets
  <2>4. ASSUME NEW row \in Rows, Kept(row) PROVE Kept(row)'
    BY <2>1, <2>4, ResetKeeps
  <2>5. (Kept(db) => Kept(db)') /\ (Kept(final) => Kept(final)')
    BY <2>1, <2>4
  <2> QED
    BY <2>1, <2>2, <2>3, <2>5
<1>9. CASE TickerPersists
  <2>1. db' = snap \/ db' = db
    BY <1>9 DEF TickerPersists, TickerWrite, Write
  <2> QED
    BY <1>9, <2>1 DEF TickerPersists, history
<1>10. CASE TickerSnaps
  BY <1>10 DEF TickerSnaps, runtime, history
<1>11. CASE TickerWrites
  <2>1. db' = snap \/ db' = db
    BY <1>11 DEF TickerWrites, TickerWrite, Write
  <2> QED
    BY <1>11, <2>1 DEF TickerWrites, history
<1>12. CASE TickerEnds
  BY <1>12 DEF TickerEnds, runtime, history
<1>13. CASE CleanupBegins
  BY <1>13 DEF CleanupBegins, runtime, history
<1>14. CASE CleanupWaits
  BY <1>14 DEF CleanupWaits, runtime, history
<1>15. CASE CleanupSnaps
  BY <1>15 DEF CleanupSnaps, runtime, history
<1>16. CASE CleanupWrites
  BY <1>16 DEF CleanupWrites, runtime, history
<1>17. CASE CleanupStops
  BY <1>17 DEF CleanupStops, runtime, history
<1>18. CASE CleanupReturnsNow
  BY <1>18 DEF CleanupReturnsNow, runtime, history
<1>19. CASE Restart
  BY <1>19 DEF Restart, runtime, history
<1>20. CASE Tick
  BY <1>20 DEF Tick, runtime, history
<1>21. CASE UNCHANGED vars
  BY <1>21 DEF vars, runtime, history
<1> QED
  BY <1>1, <1>2, <1>3, <1>4, <1>5, <1>6, <1>7, <1>8, <1>9, <1>10,
     <1>11, <1>12, <1>13, <1>14, <1>15, <1>16, <1>17, <1>18, <1>19, <1>20, <1>21
     DEF Next, SettleSteps, TickerSteps, CleanupSteps

(* The program starts with an empty budget, and nothing charged.           *)
LEMMA Starts == Init => IInv
<1> SUFFICES ASSUME Init PROVE IInv
  OBVIOUS
<1> USE NumberAssumption, BoundaryAssumption DEF Init
<1>1. Typed
  BY DEF Typed, Rows, Times, Fresh
<1>2. \A w : Tally(charged, w) = 0
  <2>1. \A s \in Settlements : charged[s] = Never
    OBVIOUS
  <2> QED
    BY <2>1, TallyEmpty
<1>3. Exact
  BY <1>2 DEF Exact, Counted, Fresh
<1>4. Billing /\ Windows
  BY DEF Billing, Charging, Windows
<1>5. Periods /\ Flushing
  BY DEF Periods, Timely, Flushing, Fresh
<1> QED
  BY <1>1, <1>3, <1>4, <1>5 DEF IInv

LEMMA StepKeeps == IInv /\ [Next]_vars => IInv'
<1> SUFFICES ASSUME IInv, [Next]_vars PROVE IInv'
  OBVIOUS
<1>1. Typed'
  BY TypedStep DEF IInv
<1>2. Billing' /\ Windows' /\ Periods' /\ Flushing'
  BY <1>1, BillingStep, WindowsStep, PeriodsStep, FlushingStep DEF IInv
<1>3. Exact'
  BY <1>1, ExactStep DEF IInv
<1> QED
  BY <1>1, <1>2, <1>3 DEF IInv

LEMMA Invariance == Spec => []IInv
<1> QED
  BY Starts, StepKeeps, PTL DEF Spec

(* Every variable is well formed, and the usage is at most the number of   *)
(* settlements: what the counter has is what was charged, so it needs no   *)
(* other bound.  (store.go:423-535, tracker.go:92-117)                     *)
THEOREM TypeCorrect == Spec => []TypeOK
<1>1. IInv => TypeOK
  <2> SUFFICES ASSUME IInv PROVE TypeOK
    OBVIOUS
  <2>1. budget.usage <= Cardinality(Settlements)
    <3>1. budget.usage \in Nat /\ budget.usage <= Tally(charged, budget.last)
      BY DEF IInv, Typed, Rows, Exact, Counted
    <3> QED
      BY <3>1, TallyType
  <2> QED
    BY <2>1 DEF IInv, Typed, TypeOK
<1> QED
  BY <1>1, Invariance, PTL

(* However many settlements race, the usage is what was charged to the     *)
(* budget's window, each call charged once; a crash can only lose charges, *)
(* and no row tells more than was charged.  A rolling window that was not  *)
(* raced has lasted its duration when its charges are dropped.             *)
(* (tracker.go:92-117, store.go:423-445, 2172-2240)                        *)
THEOREM UsageExact == Spec => []UsageIsExact
<1>1. IInv => UsageIsExact
  <2> SUFFICES ASSUME IInv PROVE UsageIsExact
    OBVIOUS
  <2>1. \A w : Tally(charged, w) = Cardinality(Charges(w))
    BY DEF Tally, Charges
  <2>2. \A s, t \in Settlements :
           s # t /\ CallOf[s] = CallOf[t] => charged[s] = Never \/ charged[t] = Never
    BY DEF IInv, Billing, Charging
  <2>3. ~aligned /\ crashes = 0 => \A s \in Settlements :
          charged[s] # Never /\ charged[s].window # budget.last
            => charged[s].window + Duration <= budget.last \/ charged[s].window \in raced
    BY DEF IInv, Windows
  <2> QED
    BY <2>1, <2>2, <2>3 DEF IInv, Exact, Counted, UsageIsExact
<1> QED
  BY <1>1, Invariance, PTL

(* Whatever resets race with it, a charge of the current calendar period   *)
(* counts until the period ends.  (store.go:505-535, 1836-1845)            *)
THEOREM AlignedCharges == Spec => []AlignedChargesCount
<1>1. IInv => AlignedChargesCount
  <2> SUFFICES ASSUME IInv, aligned, crashes = 0
               PROVE  budget.usage >=
                        Cardinality({s \in Settlements : charged[s].at >= PeriodStart(now)})
    BY DEF AlignedChargesCount
  <2> DEFINE Recent == {s \in Settlements : charged[s].at >= PeriodStart(now)}
             Window == {s \in Settlements : charged[s] # Never
                                            /\ charged[s].window = budget.last}
  <2>1. now \in Nat /\ budget.last \in Nat /\ budget.last \in Boundaries /\ budget.last <= now
    BY NumberAssumption DEF IInv, Typed, Times, Rows, Periods, Timely
  <2>2. /\ PeriodStart(now) \in Boundaries /\ PeriodStart(now) \in Nat
        /\ budget.last <= PeriodStart(now)
    BY <2>1, PeriodStartIsLatest
  <2>3. ASSUME NEW s \in Recent PROVE s \in Window
    <3>1. charged[s] # Never
      BY <2>2, <2>3 DEF Never
    <3>2. charged[s].window \in Nat /\ charged[s].window <= budget.last
      BY <3>1, NumberAssumption DEF IInv, Typed, Windows, Times
    <3>3. PeriodStart(now) <= charged[s].window
      BY <2>2, <3>1 DEF IInv, Windows
    <3> QED
      BY <2>1, <2>2, <3>1, <3>2, <3>3
  <2>4. Recent \subseteq Window /\ Window \subseteq Settlements
    BY <2>3
  <2> HIDE DEF Recent, Window
  <2>5. IsFiniteSet(Window) /\ IsFiniteSet(Recent) /\ Cardinality(Recent) <= Cardinality(Window)
    BY <2>4, FiniteAssumption, FS_Subset
  <2>6. budget.usage = Cardinality(Window)
    BY DEF IInv, Exact, Tally, Window
  <2>7. Cardinality(Window) \in Nat /\ Cardinality(Recent) \in Nat
    BY <2>5, FS_CardinalityType
  <2> QED
    BY <2>5, <2>6, <2>7 DEF Recent
<1> QED
  BY <1>1, Invariance, PTL

(* The next process counts what this one knew of when Cleanup had returned, *)
(* unless the dump failed, a hook was late, the ticker was overtaken in its *)
(* writing, or a raced reset wiped the memory.                             *)
(* (tracker.go:374-398, main.go:1720-1733)                                 *)
THEOREM FlushOnShutdown == Spec => []ShutdownFlushes
<1>1. IInv => ShutdownFlushes
  <2> SUFFICES ASSUME IInv, cleanup = "returned", spoilt = {}, db.last \notin raced
               PROVE  Counts(db) = Counts(budget)
    BY DEF ShutdownFlushes
  <2>1. /\ budget.last \in Nat /\ db.last \in Nat /\ now \in Nat /\ Duration \in Nat
        /\ Timely(budget)
    BY NumberAssumption DEF IInv, Typed, Rows, Times, Periods
  <2>2. db = budget \/ Outlived(db)
    BY DEF IInv, Flushing, Kept
  <2>3. CASE Outlived(db)
    <3>1. Counts(budget) = 0
      BY <2>3 DEF Outlived, Counts
    <3>2. CASE aligned
      <4>1. PeriodStart(now) \in Nat /\ budget.last <= PeriodStart(now)
        BY <2>1, <3>2, PeriodStartIsLatest DEF Timely
      <4> QED
        BY <2>1, <2>3, <3>1, <3>2, <4>1 DEF Outlived, ResetDue, Counts
    <3>3. CASE ~aligned
      <4>1. db.last + Duration <= now
        BY <2>1, <2>3, <3>3 DEF Outlived, Timely
      <4>2. now - db.last >= Duration
        BY <2>1, <4>1
      <4> QED
        BY <3>1, <3>3, <4>2 DEF ResetDue, Counts
    <3> QED
      BY <3>2, <3>3
  <2> QED
    BY <2>2, <2>3
<1> QED
  BY <1>1, Invariance, PTL
=============================================================================
