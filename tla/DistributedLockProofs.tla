------------------------ MODULE DistributedLockProofs ------------------------
(* What DistributedLock promises for any number of instances, any lease    *)
(* time, any clock skew and any number of retries.                         *)
EXTENDS DistributedLock, TLAPS

(* A statement's time is not from the future, and no instance believes in  *)
(* an expiry that an extension it is making now would not reach.           *)
TimesArePast ==
    \A h \in Holders :
        /\ stamp[h] <= Clock(h)
        /\ pc[h] = "held" => lease[h] <= Clock(h) + TTL
        /\ pc[h] = "extend" => lease[h] <= stamp[h] + TTL

IInv == TypeOK /\ TimesArePast /\ LeaseIsExclusive

USE DEF Holding, Safe, Clock, rowVars, clockVars

LEMMA InitIInv == Init => IInv
  BY LockAssumption DEF Init, IInv, TypeOK, TimesArePast, LeaseIsExclusive

LEMMA NextType == TypeOK /\ [Next]_vars => TypeOK'
<1> SUFFICES ASSUME TypeOK, [Next]_vars PROVE TypeOK'
  OBVIOUS
<1> USE LockAssumption DEF TypeOK
<1>1. CASE Tick
  BY <1>1 DEF Tick
<1>2. ASSUME NEW h \in Holders, LockBegin(h) PROVE TypeOK'
  BY <1>2 DEF LockBegin, Goto
<1>3. ASSUME NEW h \in Holders, TryClean(h) PROVE TypeOK'
  BY <1>3 DEF TryClean, Goto, Cleanup, DeleteRow
<1>4. ASSUME NEW h \in Holders, TryAcquired(h) PROVE TypeOK'
  BY <1>4 DEF TryAcquired, Goto, Insert
<1>5. ASSUME NEW h \in Holders, TryRejected(h) PROVE TypeOK'
  BY <1>5 DEF TryRejected, Goto
<1>6. ASSUME NEW h \in Holders, LockGivesUp(h) PROVE TypeOK'
  BY <1>6 DEF LockGivesUp, Finish, Goto
<1>7. ASSUME NEW h \in Holders, TryFailed(h) PROVE TypeOK'
  BY <1>7 DEF TryFailed, Finish, Goto, Insert
<1>8. ASSUME NEW h \in Holders, Wake(h) PROVE TypeOK'
  BY <1>8 DEF Wake, Goto
<1>9. ASSUME NEW h \in Holders, ExtendBegin(h) PROVE TypeOK'
  BY <1>9 DEF ExtendBegin, Goto
<1>10. ASSUME NEW h \in Holders, Extended(h) PROVE TypeOK'
  BY <1>10 DEF Extended, SetExpiry, Goto
<1>11. ASSUME NEW h \in Holders, NotExtended(h) PROVE TypeOK'
  BY <1>11 DEF NotExtended, Finish, Goto
<1>12. ASSUME NEW h \in Holders, ExtendFailed(h) PROVE TypeOK'
  BY <1>12 DEF ExtendFailed, SetExpiry, Finish, Goto
<1>13. ASSUME NEW h \in Holders, FoundLost(h) PROVE TypeOK'
  BY <1>13 DEF FoundLost, Finish, Goto
<1>14. ASSUME NEW h \in Holders, Unlock(h) PROVE TypeOK'
  BY <1>14 DEF Unlock, Release, DeleteRow, Finish, Goto
<1>15. ASSUME NEW h \in Holders, UnlockFailed(h) PROVE TypeOK'
  BY <1>15 DEF UnlockFailed, Release, DeleteRow, Finish, Goto
<1>16. ASSUME NEW h \in Holders, Crash(h) PROVE TypeOK'
  BY <1>16 DEF Crash, Finish, Goto
<1>17. CASE UNCHANGED vars
  BY <1>17 DEF vars
<1> QED
  BY <1>1, <1>2, <1>3, <1>4, <1>5, <1>6, <1>7, <1>8, <1>9, <1>10, <1>11, <1>12,
     <1>13, <1>14, <1>15, <1>16, <1>17 DEF Next, TryLock, Hold

(* The inductive step.  Only a removal can take a safe holder's row away,  *)
(* and it needs a time beyond the row's expiry, which no clock has reached *)
(* while the holder is safe.                                               *)
LEMMA NextIInv == IInv /\ [Next]_vars => IInv'
<1> SUFFICES ASSUME IInv, [Next]_vars PROVE (TimesArePast /\ LeaseIsExclusive)'
  BY NextType DEF IInv
<1> TypeOK /\ TypeOK'
  BY NextType DEF IInv
<1> USE LockAssumption DEF IInv, TypeOK, TimesArePast, LeaseIsExclusive
<1>1. CASE Tick
  BY <1>1 DEF Tick
<1>2. ASSUME NEW h \in Holders, LockBegin(h) PROVE (TimesArePast /\ LeaseIsExclusive)'
  BY <1>2 DEF LockBegin, Goto
<1>3. ASSUME NEW h \in Holders, TryClean(h) PROVE (TimesArePast /\ LeaseIsExclusive)'
  <2>1. TimesArePast'
    BY <1>3 DEF TryClean, Goto
  <2>2. ASSUME NEW k \in Holders, Safe(k)' PROVE owner' = k /\ expires' >= lease'[k]
    <3>1. k # h /\ Safe(k) /\ lease'[k] = lease[k]
      BY <1>3, <2>2 DEF TryClean, Goto
    <3>2. ~(expires < stamp[h])
      BY <3>1
    <3> QED
      BY <1>3, <3>1, <3>2 DEF TryClean, Cleanup
  <2> QED
    BY <2>1, <2>2
<1>4. ASSUME NEW h \in Holders, TryAcquired(h) PROVE (TimesArePast /\ LeaseIsExclusive)'
  BY <1>4 DEF TryAcquired, Goto, Insert
<1>5. ASSUME NEW h \in Holders, TryRejected(h) PROVE (TimesArePast /\ LeaseIsExclusive)'
  BY <1>5 DEF TryRejected, Goto
<1>6. ASSUME NEW h \in Holders, LockGivesUp(h) PROVE (TimesArePast /\ LeaseIsExclusive)'
  BY <1>6 DEF LockGivesUp, Finish, Goto
<1>7. ASSUME NEW h \in Holders, TryFailed(h) PROVE (TimesArePast /\ LeaseIsExclusive)'
  BY <1>7 DEF TryFailed, Finish, Goto, Insert
<1>8. ASSUME NEW h \in Holders, Wake(h) PROVE (TimesArePast /\ LeaseIsExclusive)'
  BY <1>8 DEF Wake, Goto
<1>9. ASSUME NEW h \in Holders, ExtendBegin(h) PROVE (TimesArePast /\ LeaseIsExclusive)'
  BY <1>9 DEF ExtendBegin, Goto
<1>10. ASSUME NEW h \in Holders, Extended(h) PROVE (TimesArePast /\ LeaseIsExclusive)'
  BY <1>10 DEF Extended, Extendable, SetExpiry, Goto
<1>11. ASSUME NEW h \in Holders, NotExtended(h) PROVE (TimesArePast /\ LeaseIsExclusive)'
  BY <1>11 DEF NotExtended, Finish, Goto
<1>12. ASSUME NEW h \in Holders, ExtendFailed(h) PROVE (TimesArePast /\ LeaseIsExclusive)'
  BY <1>12 DEF ExtendFailed, Extendable, SetExpiry, Finish, Goto
<1>13. ASSUME NEW h \in Holders, FoundLost(h) PROVE (TimesArePast /\ LeaseIsExclusive)'
  BY <1>13 DEF FoundLost, Finish, Goto
<1>14. ASSUME NEW h \in Holders, Unlock(h) PROVE (TimesArePast /\ LeaseIsExclusive)'
  BY <1>14 DEF Unlock, Release, DeleteRow, Finish, Goto
<1>15. ASSUME NEW h \in Holders, UnlockFailed(h) PROVE (TimesArePast /\ LeaseIsExclusive)'
  BY <1>15 DEF UnlockFailed, Release, DeleteRow, Finish, Goto
<1>16. ASSUME NEW h \in Holders, Crash(h) PROVE (TimesArePast /\ LeaseIsExclusive)'
  BY <1>16 DEF Crash, Finish, Goto
<1>17. CASE UNCHANGED vars
  BY <1>17 DEF vars
<1> QED
  BY <1>1, <1>2, <1>3, <1>4, <1>5, <1>6, <1>7, <1>8, <1>9, <1>10, <1>11, <1>12,
     <1>13, <1>14, <1>15, <1>16, <1>17 DEF Next, TryLock, Hold

LEMMA Invariance == Spec => []IInv
<1>1. Init => IInv
  BY InitIInv
<1>2. IInv /\ [Next]_vars => IInv'
  BY NextIInv
<1> QED
  BY <1>1, <1>2, PTL DEF Spec

(* Every clock, deadline, retry count and row stays within its type.       *)
(* (framework/configstore/distributed_lock.go:133-388)                     *)
THEOREM TypeCorrect == Spec => []TypeOK
<1>1. IInv => TypeOK
  BY DEF IInv
<1> QED
  BY <1>1, Invariance, PTL

(* The lock's promise: a holder further than the clock skew from the       *)
(* expiry it was told owns the row, whatever the other instances do.       *)
THEOREM LeaseExclusive == Spec => []LeaseIsExclusive
<1>1. IInv => LeaseIsExclusive
  BY DEF IInv
<1> QED
  BY <1>1, Invariance, PTL

(* No two instances are in their protected critical sections at once.      *)
THEOREM Exclusion == Spec => []MutualExclusion
<1>1. IInv => MutualExclusion
  BY DEF IInv, LeaseIsExclusive, MutualExclusion
<1> QED
  BY <1>1, Invariance, PTL

(* Rows are removed only by their holder's Unlock or after their expiry.   *)
THEOREM RowsEnd == Spec => RowsEndOnce
<1> DEFINE Ends == owner # NoHolder /\ owner' # owner =>
                      \/ expires < now + MaxSkew
                      \/ acquired[owner] /\ pc'[owner] = "idle"
<1>1. ASSUME IInv, Next PROVE Ends
  <2> USE LockAssumption DEF IInv, TypeOK, TimesArePast
  <2>1. ASSUME NEW h \in Holders, TryClean(h) PROVE Ends
    <3>1. stamp[h] <= now + offset[h] /\ offset[h] \in 0..MaxSkew /\ stamp[h] \in Nat
      BY <1>1
    <3>2. CASE owner # NoHolder /\ expires < stamp[h]
      BY <1>1, <3>1, <3>2
    <3>3. CASE ~(owner # NoHolder /\ expires < stamp[h])
      BY <2>1, <3>3 DEF TryClean, Cleanup
    <3> QED
      BY <3>2, <3>3
  <2>2. ASSUME NEW h \in Holders, TryLock(h), ~TryClean(h) PROVE Ends
    BY <2>2 DEF TryLock, TryAcquired, TryRejected, LockGivesUp, TryFailed, Wake, Insert
  <2>3. ASSUME NEW h \in Holders, Unlock(h) \/ UnlockFailed(h) PROVE Ends
    BY <1>1, <2>3 DEF Unlock, UnlockFailed, Release, DeleteRow, Finish, Goto
  <2>4. ASSUME NEW h \in Holders,
               ExtendBegin(h) \/ Extended(h) \/ NotExtended(h) \/ ExtendFailed(h)
                 \/ FoundLost(h)
        PROVE  Ends
    BY <2>4 DEF ExtendBegin, Extended, NotExtended, ExtendFailed, FoundLost, SetExpiry
  <2>5. ASSUME NEW h \in Holders, LockBegin(h) \/ Crash(h) PROVE Ends
    BY <2>5 DEF LockBegin, Crash
  <2>6. CASE Tick
    BY <2>6 DEF Tick
  <2> QED
    BY <1>1, <2>1, <2>2, <2>3, <2>4, <2>5, <2>6 DEF Next, Hold
<1>2. IInv /\ [Next]_vars => [Ends]_vars
  BY <1>1
<1>3. RowsEndOnce <=> [][Ends]_vars
  BY PTL DEF RowsEndOnce
<1> QED
  BY <1>2, <1>3, Invariance, PTL DEF Spec

-----------------------------------------------------------------------------
\* Where in an attempt a Lock is.
Trying(h) == pc[h] \in {"clean", "insert", "sleep"}
Step(h) == CASE pc[h] = "sleep" -> 0 [] pc[h] = "clean" -> 1 [] OTHER -> 2

\* A step of a Lock ends it, or takes it to a later step or attempt.
Advances(h) ==
  Trying(h) /\ (pc'[h] # pc[h] \/ attempt'[h] # attempt[h]) =>
    \/ ~Trying(h)'
    \/ attempt'[h] > attempt[h]
    \/ attempt'[h] = attempt[h] /\ Step(h)' > Step(h)

(* Lock and LockWithRetry make at most MaxRetries + 1 attempts of three     *)
(* steps: no step, be it of another instance, takes one back.  What         *)
(* LockReturns needs beyond it is that statements and waits end.            *)
THEOREM LockNeverBack == Spec => [][\A h \in Holders : Advances(h)]_vars
<1>1. ASSUME TypeOK, Next, NEW k \in Holders PROVE Advances(k)
  <2> USE DEF Advances, Trying, Step, Goto, Finish
  <2>0. /\ pc \in [Holders -> {"idle", "clean", "insert", "sleep", "held", "extend", "dead"}]
        /\ attempt \in [Holders -> 0..MaxRetries] /\ MaxRetries \in Nat
    BY <1>1, LockAssumption DEF TypeOK
  <2>1. ASSUME NEW h \in Holders, TryClean(h) \/ Wake(h) PROVE Advances(k)
    BY <2>0, <2>1 DEF TryClean, Wake
  <2>2. ASSUME NEW h \in Holders, TryRejected(h) PROVE Advances(k)
    BY <2>0, <2>2 DEF TryRejected
  <2>3. ASSUME NEW h \in Holders, TryAcquired(h) \/ LockGivesUp(h) \/ TryFailed(h) PROVE Advances(k)
    BY <2>0, <2>3 DEF TryAcquired, LockGivesUp, TryFailed
  <2>4. ASSUME NEW h \in Holders, LockBegin(h) \/ Crash(h) PROVE Advances(k)
    BY <2>0, <2>4 DEF LockBegin, Crash
  <2>5. ASSUME NEW h \in Holders, Hold(h) PROVE Advances(k)
    BY <2>0, <2>5 DEF Hold, ExtendBegin, Extended, NotExtended, ExtendFailed, FoundLost, Unlock, UnlockFailed
  <2>6. CASE Tick
    BY <2>6 DEF Tick
  <2> QED
    BY <1>1, <2>1, <2>2, <2>3, <2>4, <2>5, <2>6 DEF Next, TryLock
<1>2. TypeOK /\ [Next]_vars => [\A h \in Holders : Advances(h)]_vars
  BY <1>1
<1> QED
  BY <1>2, TypeCorrect, PTL DEF Spec
=============================================================================
