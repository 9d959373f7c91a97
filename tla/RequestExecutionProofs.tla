------------------------ MODULE RequestExecutionProofs ------------------------
(* What the retry loop of executeRequestWithRetries guarantees, for every   *)
(* set of keys, every chain of fallbacks and every number of retries.       *)
EXTENDS RequestExecution, FiniteSetTheorems, SequenceTheorems, TLAPS

InLoop  == pc \in {"select", "call", "drain", "classify"}
Calling == pc \in {"call", "drain", "classify"}

(* Only a stream whose teardown is being waited for is open or closed.      *)
Connected == teardown \/ streamClosed => pc = "drain"

(* A fallback's keys are not narrowed.                                      *)
Unnarrowed ==
    index > 1 => /\ pin = NoKey
                 /\ InLoop => pool = Chain[index]
                 /\ pc = "hooks" => err # "no_key"

(* The trail has one record per attempt made, and the last one is of the    *)
(* current key: without a reason while its call runs, with the reason that  *)
(* perKey and permanent sum up before the next attempt.                     *)
Recorded ==
    /\ pc \in {"try", "skipped"} => trail = <<>>
    /\ InLoop /\ pool = {} => trail = <<>>
    /\ InLoop => attempt <= MaxRetries
    /\ InLoop /\ pool # {} => Len(trail) = IF Calling THEN attempt + 1 ELSE attempt
Called == Calling /\ pool # {} =>
    /\ trail[Len(trail)].key = key /\ trail[Len(trail)].reason = "none"
    /\ key \in pool \ dead /\ pending = 0
Selecting == pc = "select" /\ pool # {} =>
    IF attempt = 0 THEN pending = 0
    ELSE /\ trail[Len(trail)].key = key /\ previous = key
         /\ trail[Len(trail)].reason \in IF perKey THEN PerKey ELSE Transient
         /\ key \in pool /\ (perKey \/ key \notin dead)
         /\ permanent => trail[Len(trail)].reason \in Permanent
         /\ pending = IF perKey THEN Len(trail) ELSE 0

(* The dead keys are those the trail shows to have failed for good.         *)
DeadAreTried == InLoop => \A k \in Keys : k \in dead <=> Tried(Permanent, k) # {}

LoopInv ==
    /\ Connected /\ Unnarrowed /\ Recorded /\ Called /\ Selecting /\ DeadAreTried
    /\ DeadKeyStaysDead /\ RotationIsTrue /\ TransientKeepsKey
    /\ BackoffUnlessReplaced /\ ExhaustedMeansDead

IInv == TypeOK /\ LoopInv

-----------------------------------------------------------------------------
(* What an attempt and a failure do to the trail.                           *)

LEMMA Attempted ==
  ASSUME IInv, pc = "select", pool # {}, NEW k \in Keys,
         trail' = Append(MarkRotation(k), Record(k))
  PROVE  /\ trail' \in Seq(Records) /\ Len(trail') = attempt + 1
         /\ trail'[attempt + 1] = Record(k)
         /\ \A i \in 1..attempt :
              /\ trail'[i].key = trail[i].key /\ trail'[i].reason = trail[i].reason
              /\ trail'[i].rotated <=> \/ trail[i].rotated
                                       \/ i = attempt /\ perKey /\ trail[i].key # k
<1>1. /\ trail \in Seq(Records) /\ Len(trail) = attempt /\ attempt \in Nat
      /\ Record(k) \in Records
  BY ChainAssumption DEF IInv, TypeOK, LoopInv, Recorded, InLoop, Calling, Record,
     Records, Reasons
<1> DEFINE M == MarkRotation(k)
           marks == attempt > 0 /\ perKey /\ trail[attempt].key # k
<1>2. /\ M \in Seq(Records) /\ Len(M) = attempt
      /\ \A i \in 1..attempt :
            /\ M[i].key = trail[i].key /\ M[i].reason = trail[i].reason
            /\ M[i].rotated <=> trail[i].rotated \/ (i = attempt /\ marks)
  <2>1. CASE attempt = 0
    BY <1>1, <2>1 DEF MarkRotation
  <2>2. CASE attempt > 0 /\ marks
    <3>1. pending = attempt /\ attempt \in 1..Len(trail) /\ pending # 0
      BY <1>1, <2>2 DEF IInv, LoopInv, Selecting
    <3>2. trail[attempt] \in Records
      BY <1>1, <3>1
    <3> DEFINE r == [trail[attempt] EXCEPT !.rotated = TRUE]
    <3>3. /\ r \in Records /\ r.key = trail[attempt].key
          /\ r.reason = trail[attempt].reason /\ r.rotated
      BY <3>2 DEF Records
    <3>4. M = [trail EXCEPT ![attempt] = r]
      BY <1>1, <2>2, <3>1 DEF MarkRotation
    <3> HIDE DEF r, M
    <3>5. /\ M \in Seq(Records) /\ Len(M) = Len(trail)
          /\ \A j \in 1..Len(trail) : M[j] = IF j = attempt THEN r ELSE trail[j]
      BY <1>1, <3>1, <3>3, <3>4, ExceptSeq
    <3> QED
      BY <1>1, <2>2, <3>3, <3>5
  <2>3. CASE attempt > 0 /\ ~marks
    <3>1. pending = IF perKey THEN attempt ELSE 0
      BY <1>1, <2>3 DEF IInv, LoopInv, Selecting
    <3>2. M = trail
      BY <1>1, <2>3, <3>1 DEF MarkRotation
    <3> QED
      BY <1>1, <2>3, <3>2
  <2> QED
    BY <1>1, <2>1, <2>2, <2>3
<1> HIDE DEF M, marks
<1>3. /\ trail' \in Seq(Records) /\ Len(trail') = attempt + 1
      /\ \A i \in 1..attempt : trail'[i] = M[i]
      /\ trail'[attempt + 1] = Record(k)
  BY <1>1, <1>2, AppendProperties DEF M
<1> QED
  BY <1>1, <1>2, <1>3 DEF marks

LEMMA Failing ==
  ASSUME IInv, pc = "classify", err \in Reasons, trail' = FailReason
  PROVE  /\ trail' \in Seq(Records) /\ Len(trail') = Len(trail)
         /\ pool = {} => trail' = <<>>
         /\ pool # {} => trail'[Len(trail)].reason = err
         /\ \A i \in 1..Len(trail) :
              /\ trail'[i].key = trail[i].key /\ trail'[i].rotated = trail[i].rotated
              /\ i < Len(trail) => trail'[i].reason = trail[i].reason
<1>1. /\ trail \in Seq(Records) /\ Len(trail) \in Nat
      /\ pool = {} => trail = <<>>
      /\ pool # {} => Len(trail) = attempt + 1 /\ attempt \in Nat
  BY ChainAssumption DEF IInv, TypeOK, LoopInv, Recorded, InLoop, Calling
<1>2. CASE trail = <<>>
  BY <1>1, <1>2 DEF FailReason
<1>3. CASE trail # <<>>
  <2> DEFINE n == Len(trail)
             r == [trail[n] EXCEPT !.reason = err]
  <2>1. n \in 1..Len(trail) /\ trail[n] \in Records
    BY <1>1, <1>3
  <2>2. r \in Records /\ r.key = trail[n].key /\ r.rotated = trail[n].rotated /\ r.reason = err
    BY <2>1 DEF Records
  <2>3. trail' = [trail EXCEPT ![n] = r]
    BY <1>3 DEF FailReason
  <2> HIDE DEF r
  <2>4. /\ trail' \in Seq(Records) /\ Len(trail') = Len(trail)
        /\ \A j \in 1..Len(trail) : trail'[j] = IF j = n THEN r ELSE trail[j]
    BY <1>1, <2>1, <2>2, <2>3, ExceptSeq
  <2> QED
    BY <1>1, <1>3, <2>1, <2>2, <2>4
<1> QED
  BY <1>2, <1>3

-----------------------------------------------------------------------------
LEMMA TypeStep == IInv /\ [Next]_vars => TypeOK'
<1> SUFFICES ASSUME IInv, [Next]_vars PROVE TypeOK'
  OBVIOUS
<1> USE ChainAssumption, SwitchAssumption DEF TypeOK
<1>0. /\ TypeOK /\ Len(Chain) \in Nat
      /\ \A i \in 1..Len(Chain) : Chain[i] \subseteq Keys
      /\ InLoop => attempt <= MaxRetries
      /\ Failures \subseteq Errors /\ Failures \subseteq Reasons
      /\ PerKey \cup Transient \subseteq Failures
  BY DEF IInv, LoopInv, Recorded, Failures, Errors, Reasons
<1> USE <1>0 DEF ctxVars, poolVars, loopVars, netVars, tryVars
<1>1. CASE Refused \/ ShortCircuited \/ PinUnknown
  BY <1>1 DEF Refused, ShortCircuited, PinUnknown, Errors, Reasons
<1>2. CASE BuildPool
  <2>1. pool' \subseteq Keys /\ rotate' \in BOOLEAN
    BY <1>2 DEF BuildPool
  <2>2. /\ attempt' = 0 /\ key' = NoKey /\ used' = {} /\ dead' = {}
        /\ perKey' = FALSE /\ permanent' = FALSE /\ previous' = NoKey
        /\ pending' = 0 /\ slept' = FALSE /\ pc' = "select"
        /\ UNCHANGED <<ctxVars, netVars, tryVars, trail, selected, err, allow>>
    BY <1>2 DEF BuildPool
  <2>3. {perKey, permanent, slept, teardown, streamClosed, allow}' \subseteq BOOLEAN
    BY <2>2
  <2>4. {key, previous, selected}' \subseteq Keys \cup {NoKey}
    BY <2>2
  <2> QED
    BY <2>1, <2>2, <2>3, <2>4
<1>3. CASE SelectKey
  <2>1. PICK k \in pool, u \in {used, {}} :
          /\ key' = k /\ selected' = k /\ used' = u /\ slept' = SleepsBefore(k)
          /\ trail' = Append(MarkRotation(k), Record(k))
    BY <1>3 DEF SelectKey
  <2>2. trail' \in Seq(Records)
    BY <1>3, <2>1, Attempted DEF SelectKey
  <2>3. disturbed' \in {disturbed, disturbed \cup {"filter"}}
    BY <1>3 DEF SelectKey
  <2>4. disturbed' \subseteq {"filter", "hook"}
    BY <2>3
  <2>5. /\ pending' = 0 /\ pc' = "call"
        /\ UNCHANGED <<pin, session, stream, poolVars, netVars, tryVars, attempt, dead,
                       perKey, permanent, previous, err, allow>>
    BY <1>3 DEF SelectKey
  <2> QED
    BY <2>1, <2>2, <2>4, <2>5 DEF SleepsBefore
<1>4. CASE KeepKey
  <2>1. CASE pool = {}
    BY <1>4, <2>1 DEF KeepKey, SleepsBefore
  <2>2. CASE pool # {}
    <3>1. key \in Keys /\ pc = "select" /\ MarkRotation(key) = trail
      BY <1>4, <2>2 DEF KeepKey, SelectsKey, MarkRotation, IInv, LoopInv, Selecting
    <3>2. trail' \in Seq(Records)
      BY <1>4, <2>2, <3>1, Attempted DEF KeepKey
    <3> QED
      BY <1>4, <3>2 DEF KeepKey, SleepsBefore
  <2> QED
    BY <2>1, <2>2
<1>5. CASE SelectionFails
  BY <1>5 DEF SelectionFails, NoneLeft, Errors
<1>6. CASE Succeed \/ Fail \/ FirstChunkFails \/ TearDown \/ Drained
  BY <1>6 DEF Succeed, Fail, FirstChunkFails, TearDown, Drained, Errors, Reasons
<1>7. CASE GiveUp
  <2>1. trail' \in Seq(Records)
    BY <1>7, Failing DEF GiveUp, Reasons, Failures
  <2> QED
    BY <1>7, <2>1 DEF GiveUp, LeaveLoop
<1>8. CASE Retry
  <2>1. trail' \in Seq(Records)
    BY <1>8, Failing DEF Retry
  <2>2. attempt' \in 0..(MaxRetries + 1) /\ attempt \in 0..MaxRetries
    BY <1>8 DEF Retry, NextAttempt, InLoop
  <2>3. pending' \in 0..(MaxRetries + 1)
    BY <1>8, <2>2 DEF Retry, IInv, LoopInv, Recorded, InLoop, Calling
  <2>4. dead' \subseteq Keys /\ used' \subseteq Keys /\ permanent' \in BOOLEAN
        /\ perKey' \in BOOLEAN
    <3>1. pool # {} => key \in Keys
      BY <1>8 DEF Retry, IInv, LoopInv, Called, Calling
    <3> QED
      BY <1>8, <3>1 DEF Retry, Exclude
  <2> QED
    BY <1>8, <2>1, <2>2, <2>3, <2>4 DEF Retry, NextAttempt, LeaveLoop
<1>9. CASE PostHooks
  <2>1. err' \in Errors /\ allow' \in BOOLEAN /\ pc' = "tried"
    BY <1>9 DEF PostHooks, Errors, Reasons
  <2>2. disturbed' \in {disturbed, disturbed \cup {"hook"}}
    BY <1>9 DEF PostHooks
  <2>3. disturbed' \subseteq {"filter", "hook"}
    BY <2>2
  <2> QED
    BY <1>9, <2>1, <2>3 DEF PostHooks
<1>10. CASE Return
  BY <1>10 DEF Return
<1>11. CASE NextFallback
  <2>1. /\ index' \in 1..Len(Chain) /\ pc' \in {"try", "skipped"}
        /\ primaryErr' \in Errors /\ trail' = <<>> /\ pin' = NoKey
        /\ UNCHANGED <<session, stream, disturbed, poolVars, loopVars, teardown,
                       selected, err, allow>>
        /\ streamClosed' = FALSE
    BY <1>11 DEF NextFallback
  <2>2. trail' \in Seq(Records)
    BY <2>1
  <2> QED
    BY <2>1, <2>2
<1>12. CASE AllFailed
  BY <1>12 DEF AllFailed
<1>13. CASE UNCHANGED vars
  BY <1>13 DEF vars
<1> QED
  BY <1>1, <1>2, <1>3, <1>4, <1>5, <1>6, <1>7, <1>8, <1>9, <1>10, <1>11, <1>12, <1>13
     DEF Next

-----------------------------------------------------------------------------
(* What holds of the trail holds as long as it does not change.             *)
LEMMA TrailKept ==
  ASSUME IInv, UNCHANGED trail
  PROVE  /\ DeadKeyStaysDead' /\ RotationIsTrue' /\ TransientKeepsKey'
         /\ \A R, k : Tried(R, k)' = Tried(R, k)
  BY DEF IInv, LoopInv, DeadKeyStaysDead, RotationIsTrue, TransientKeepsKey, Tried

(* Steps that leave the loop, or stay outside, and do not touch the trail.  *)
LEMMA OutsideStep ==
  ASSUME IInv, Refused \/ ShortCircuited \/ PinUnknown \/ SelectionFails \/ Succeed
               \/ PostHooks \/ Return \/ AllFailed
  PROVE  LoopInv'
<1>1. /\ UNCHANGED <<trail, pool, dead, pin, index, teardown, streamClosed, attempt>>
      /\ pc' \in {"tried", "hooks", "done"} /\ pc # "drain"
  BY DEF Refused, ShortCircuited, PinUnknown, SelectionFails, Succeed, PostHooks,
     Return, AllFailed, ctxVars, poolVars, loopVars, netVars, tryVars
<1>2. Connected' /\ Recorded' /\ Called' /\ Selecting' /\ DeadAreTried'
  BY <1>1 DEF IInv, LoopInv, Connected, Recorded, Called, Selecting, DeadAreTried,
     InLoop, Calling
<1>3. Unnarrowed'
  <2>1. pc' = "hooks" /\ err' = "no_key" => PinUnknown /\ index = 1
    BY <1>1, ChainAssumption DEF Refused, ShortCircuited, PinUnknown, SelectionFails,
       NoneLeft, Succeed, PostHooks, Return, AllFailed, IInv, TypeOK, LoopInv, Unnarrowed
  <2> QED
    BY <1>1, <2>1 DEF IInv, LoopInv, Unnarrowed, InLoop
<1>4. BackoffUnlessReplaced'
  BY <1>1 DEF BackoffUnlessReplaced
<1>5. ExhaustedMeansDead'
  <2> SUFFICES ASSUME pc' = "hooks", err' = "exhausted", NEW k \in pool
               PROVE  Tried(Permanent, k)' # {}
    BY <1>1 DEF ExhaustedMeansDead
  <2>1. pc = "select" /\ pool \subseteq dead
    BY DEF Refused, ShortCircuited, PinUnknown, SelectionFails, NoneLeft, Succeed,
       PostHooks, Return, AllFailed
  <2>2. k \in Keys /\ Tried(Permanent, k) # {}
    BY <2>1 DEF IInv, TypeOK, LoopInv, DeadAreTried, InLoop
  <2> QED
    BY <1>1, <2>2, TrailKept
<1> QED
  BY <1>1, <1>2, <1>3, <1>4, <1>5, TrailKept DEF LoopInv

(* Steps of a call and of a stream that is torn down.                       *)
LEMMA CallStep ==
  ASSUME IInv, Fail \/ FirstChunkFails \/ TearDown \/ Drained
  PROVE  LoopInv'
<1>1. /\ UNCHANGED <<trail, poolVars, loopVars, pin, index, primaryErr>>
      /\ \/ pc \in {"call", "drain"} /\ pc' \in {"drain", "classify"}
         \/ pc = "drain" /\ pc' = pc
  BY DEF Fail, FirstChunkFails, TearDown, Drained, IInv, LoopInv, Connected, ctxVars,
     netVars, tryVars
<1>2. Connected'
  BY DEF Fail, FirstChunkFails, TearDown, Drained, IInv, LoopInv, Connected, netVars
<1>3. Unnarrowed' /\ Recorded' /\ Called' /\ Selecting'
  BY <1>1 DEF IInv, LoopInv, Unnarrowed, Recorded, Called,
     Selecting, InLoop, Calling, poolVars, loopVars
<1>4. DeadAreTried'
  BY <1>1, TrailKept DEF IInv, LoopInv, DeadAreTried, InLoop, loopVars
<1>5. BackoffUnlessReplaced' /\ ExhaustedMeansDead'
  BY <1>1 DEF BackoffUnlessReplaced, ExhaustedMeansDead
<1> QED
  BY <1>1, <1>2, <1>3, <1>4, <1>5, TrailKept DEF LoopInv

LEMMA BuildPoolStep == ASSUME IInv, BuildPool PROVE LoopInv'
<1>1. /\ trail = <<>> /\ trail' = trail /\ attempt' = 0 /\ dead' = {} /\ pending' = 0
      /\ pc' = "select" /\ pc = "try"
      /\ UNCHANGED <<pin, index, teardown, streamClosed>>
      /\ PoolIs(pool', rotate')
  BY DEF BuildPool, IInv, LoopInv, Recorded, ctxVars, netVars, tryVars
<1>2. Connected' /\ Recorded' /\ Called' /\ Selecting'
  BY <1>1, ChainAssumption DEF IInv, LoopInv, Connected, Recorded, Called, Selecting,
     InLoop, Calling
<1>3. DeadAreTried' /\ BackoffUnlessReplaced' /\ ExhaustedMeansDead'
  BY <1>1 DEF DeadAreTried, BackoffUnlessReplaced, ExhaustedMeansDead, Tried
<1>4. Unnarrowed'
  <2>1. ASSUME index > 1 PROVE pool' = Chain[index]
    <3>1. pin = NoKey /\ index # 1 /\ IsFiniteSet(Chain[index])
      <4>1. Chain[index] \subseteq Keys /\ IsFiniteSet(Keys)
        BY ChainAssumption DEF IInv, TypeOK
      <4> QED
        BY <2>1, <4>1, FS_Subset DEF IInv, TypeOK, LoopInv, Unnarrowed
    <3>2. Cardinality(Chain[index]) = 1 => \E x : Chain[index] = {x}
      BY <3>1, FS_Singleton
    <3> QED
      BY <1>1, <3>1, <3>2 DEF PoolIs
  <2> QED
    BY <1>1, <2>1 DEF IInv, LoopInv, Unnarrowed, InLoop
<1> QED
  BY <1>1, <1>2, <1>3, <1>4, TrailKept DEF LoopInv

LEMMA NextFallbackStep == ASSUME IInv, NextFallback PROVE LoopInv'
<1>1. /\ trail' = <<>> /\ pc' \in {"try", "skipped"} /\ pc # "drain"
      /\ pin' = NoKey /\ streamClosed' = FALSE /\ teardown' = teardown
  BY DEF NextFallback
<1> QED
  BY <1>1 DEF IInv, LoopInv, Connected, Unnarrowed, Recorded, Called,
     Selecting, DeadAreTried, InLoop, Calling, DeadKeyStaysDead, RotationIsTrue,
     TransientKeepsKey, BackoffUnlessReplaced, ExhaustedMeansDead

(* An attempt with a key: selected or kept.                                 *)
LEMMA KeyedAttempt ==
  ASSUME IInv, pc = "select", pc' = "call", pool # {}, NEW k \in pool \ dead, key' = k,
         attempt = 0 \/ perKey \/ k = key,
         trail' = Append(MarkRotation(k), Record(k)), slept' = SleepsBefore(k),
         pending' = 0,
         UNCHANGED <<pool, rotate, attempt, dead, pin, index, teardown, streamClosed>>
  PROVE  LoopInv'
<1> DEFINE n == attempt
<1>1. /\ trail' \in Seq(Records) /\ Len(trail') = n + 1
      /\ trail'[n + 1] = Record(k)
      /\ \A i \in 1..n :
           /\ trail'[i].key = trail[i].key /\ trail'[i].reason = trail[i].reason
           /\ trail'[i].rotated <=> \/ trail[i].rotated
                                    \/ i = n /\ perKey /\ trail[i].key # k
  BY Attempted DEF IInv, TypeOK
<1>2. /\ n \in 0..MaxRetries /\ MaxRetries \in Nat /\ k \in Keys
      /\ Len(trail) = n /\ k \notin dead
  BY ChainAssumption DEF IInv, TypeOK, LoopInv, Recorded, InLoop, Calling
<1>3. /\ Record(k).key = k /\ Record(k).reason = "none" /\ Record(k).rotated = FALSE
  BY DEF Record
<1>4. n > 0 => /\ trail[n].key = key /\ previous = key
               /\ trail[n].reason \in IF perKey THEN PerKey ELSE Transient
               /\ permanent => trail[n].reason \in Permanent
  BY <1>2 DEF IInv, LoopInv, Selecting
<1>5. Connected' /\ Recorded' /\ Called' /\ Selecting'
  BY <1>1, <1>2, <1>3 DEF IInv, LoopInv, Connected, Recorded, Called, Selecting,
     InLoop, Calling
<1>6. Unnarrowed' /\ ExhaustedMeansDead'
  BY DEF IInv, LoopInv, Unnarrowed, InLoop, ExhaustedMeansDead
<1>7. ASSUME NEW x PROVE Tried(Permanent, x)' = Tried(Permanent, x)
  <2>1. "none" \notin Permanent /\ 1..(n + 1) = 1..n \cup {n + 1}
    BY <1>2 DEF Permanent
  <2> QED
    BY <1>1, <1>2, <1>3, <2>1 DEF Tried
<1>8. DeadAreTried'
  BY <1>7 DEF IInv, LoopInv, DeadAreTried, InLoop
<1>9. DeadKeyStaysDead'
  <2> SUFFICES ASSUME NEW i \in 1..(n + 1), NEW j \in 1..(n + 1), i < j,
                      trail'[i].reason \in Permanent
               PROVE  trail'[j].key # trail'[i].key
    BY <1>1 DEF DeadKeyStaysDead
  <2>1. i \in 1..n
    BY <1>2
  <2>2. CASE j = n + 1
    <3>1. trail[i] \in Records /\ i \in Tried(Permanent, trail[i].key)
      BY <1>1, <1>2, <2>1 DEF Tried, IInv, TypeOK
    <3>2. trail[i].key \in Keys => trail[i].key \in dead
      BY <3>1 DEF IInv, LoopInv, DeadAreTried, InLoop
    <3> QED
      BY <1>1, <1>2, <1>3, <2>1, <2>2, <3>2
  <2>3. CASE j # n + 1
    <3>1. j \in 1..n
      BY <1>2, <2>3
    <3> QED
      BY <1>1, <1>2, <2>1, <3>1 DEF IInv, LoopInv, DeadKeyStaysDead
  <2> QED
    BY <2>2, <2>3
<1>10. PerKey \cap Transient = {}
  BY DEF PerKey, Transient
<1>11. ASSUME NEW i \in 1..(n + 1)
       PROVE  /\ trail'[i].rotated <=> /\ i < n + 1 /\ trail'[i].reason \in PerKey
                                       /\ trail'[i + 1].key # trail'[i].key
              /\ i < n + 1 /\ trail'[i].reason \in Transient =>
                    trail'[i + 1].key = trail'[i].key
  <2>1. CASE i = n + 1
    BY <1>1, <1>2, <1>3, <2>1
  <2>2. CASE i = n
    <3>1. n > 0 /\ ~trail[n].rotated
      BY <1>2, <2>2 DEF IInv, LoopInv, RotationIsTrue
    <3>2. trail'[i + 1].key = k /\ trail'[i].key = key
          /\ trail'[i].reason = trail[n].reason /\ i < n + 1
          /\ (trail'[i].rotated <=> perKey /\ key # k)
      BY <1>1, <1>2, <1>3, <1>4, <2>2, <3>1
    <3>3. CASE perKey
      BY <1>4, <1>10, <3>1, <3>2, <3>3
    <3>4. CASE ~perKey
      <4>1. k = key
        BY <1>2, <3>1, <3>4
      <4> QED
        BY <3>2, <3>4, <4>1
    <3> QED
      BY <3>3, <3>4
  <2>3. CASE i < n
    <3>1. i \in 1..n /\ i + 1 \in 1..n /\ i # n
      BY <1>2, <2>3
    <3> QED
      <4>1. /\ trail'[i].key = trail[i].key /\ trail'[i].reason = trail[i].reason
            /\ trail'[i].rotated <=> trail[i].rotated
            /\ trail'[i + 1].key = trail[i + 1].key
        BY <1>1, <3>1
      <4>2. /\ trail[i].rotated <=> /\ trail[i].reason \in PerKey
                                    /\ trail[i + 1].key # trail[i].key
            /\ trail[i].reason \in Transient => trail[i + 1].key = trail[i].key
        BY <1>2, <2>3, <3>1 DEF IInv, LoopInv, RotationIsTrue, TransientKeepsKey
      <4>3. i < n + 1
        BY <1>2, <2>3
      <4> QED
        BY <4>1, <4>2, <4>3, Zenon
  <2>4. i = n + 1 \/ i = n \/ i < n
    BY <1>2
  <2> QED
    BY <2>1, <2>2, <2>3, <2>4, Zenon
<1>12. RotationIsTrue' /\ TransientKeepsKey'
  BY <1>1, <1>11 DEF RotationIsTrue, TransientKeepsKey
<1>13. BackoffUnlessReplaced'
  <2> SUFFICES ASSUME n > 0, ~slept'
               PROVE  trail'[n].reason \in Permanent /\ trail'[n].key # k
    BY <1>1, <1>2 DEF BackoffUnlessReplaced
  <2>1. permanent /\ k # previous
    BY DEF SleepsBefore
  <2> QED
    BY <1>1, <1>2, <1>4, <2>1
<1> QED
  BY <1>5, <1>6, <1>8, <1>9, <1>12, <1>13 DEF LoopInv

LEMMA AttemptStep == ASSUME IInv, SelectKey \/ KeepKey PROVE LoopInv'
<1>1. CASE SelectKey
  <2>1. PICK k \in pool, u \in {used, {}} :
          /\ Offered(k, u) /\ key' = k /\ slept' = SleepsBefore(k)
          /\ trail' = Append(MarkRotation(k), Record(k))
    BY <1>1 DEF SelectKey
  <2>2. k \notin dead
    BY <2>1 DEF Offered, Suppressed
  <2>3. /\ pc = "select" /\ pc' = "call" /\ pool # {} /\ pending' = 0
        /\ attempt = 0 \/ perKey
        /\ UNCHANGED <<pool, rotate, attempt, dead, pin, index, teardown, streamClosed>>
    BY <1>1 DEF SelectKey, SelectsKey, ctxVars, poolVars, netVars, tryVars
  <2> QED
    BY <2>1, <2>2, <2>3, KeyedAttempt
<1>2. CASE KeepKey
  <2>1. /\ pc = "select" /\ pc' = "call" /\ key' = key /\ pending' = pending
        /\ slept' = SleepsBefore(key)
        /\ UNCHANGED <<pool, rotate, attempt, dead, pin, index, teardown, streamClosed>>
    BY <1>2 DEF KeepKey, ctxVars, poolVars, netVars, tryVars
  <2>2. CASE pool # {}
    <3>1. attempt # 0 /\ ~perKey /\ key \in pool \ dead /\ pending = 0
      BY <1>2, <2>2 DEF KeepKey, SelectsKey, IInv, LoopInv, Selecting
    <3>2. trail' = Append(MarkRotation(key), Record(key))
      BY <1>2, <2>2, <3>1 DEF KeepKey, MarkRotation
    <3> QED
      BY <2>1, <2>2, <3>1, <3>2, KeyedAttempt
  <2>3. CASE pool = {}
    <3>1. trail = <<>> /\ trail' = trail /\ (attempt > 0 => slept')
      BY <1>2, <2>1, <2>3 DEF KeepKey, IInv, LoopInv, Recorded, InLoop, SleepsBefore
    <3>2. Connected' /\ Recorded' /\ Called' /\ Selecting'
      BY <2>1, <2>3, <3>1 DEF IInv, LoopInv, Connected, Recorded, Called, Selecting,
         InLoop, Calling
    <3>3. Unnarrowed' /\ BackoffUnlessReplaced' /\ ExhaustedMeansDead'
      BY <2>1, <3>1 DEF IInv, LoopInv, Unnarrowed, InLoop, BackoffUnlessReplaced,
         ExhaustedMeansDead
    <3>4. DeadAreTried'
      BY <2>1, <3>1, TrailKept DEF IInv, LoopInv, DeadAreTried, InLoop
    <3> QED
      BY <3>1, <3>2, <3>3, <3>4, TrailKept DEF LoopInv
  <2> QED
    BY <2>2, <2>3
<1> QED
  BY <1>1, <1>2

(* A failed attempt: the loop ends or goes on.                              *)
LEMMA FailedAttempt ==
  ASSUME IInv, pc = "classify", err \in PerKey \cup Transient \cup {"request"},
         trail' = FailReason,
         UNCHANGED <<pool, key, index, pin, teardown, streamClosed>>
  PROVE  /\ Connected' /\ DeadKeyStaysDead' /\ RotationIsTrue' /\ TransientKeepsKey'
         /\ \A k : pool # {} => (Tried(Permanent, k)' # {} <=>
                      Tried(Permanent, k) # {} \/ (err \in Permanent /\ k = key))
<1> DEFINE n == Len(trail)
<1>1. err \in Reasons /\ "none" \notin Permanent \cup PerKey \cup Transient
  BY DEF Reasons, Failures, PerKey, Transient, Permanent
<1>2. /\ trail' \in Seq(Records) /\ Len(trail') = n
      /\ pool = {} => trail' = <<>>
      /\ pool # {} => trail'[n].reason = err
      /\ \A i \in 1..n :
           /\ trail'[i].key = trail[i].key /\ trail'[i].rotated = trail[i].rotated
           /\ i < n => trail'[i].reason = trail[i].reason
  BY <1>1, Failing
<1>3. /\ trail \in Seq(Records) /\ n \in Nat
      /\ pool # {} => /\ n > 0 /\ trail[n].key = key /\ trail[n].reason = "none"
                      /\ key \notin dead
  BY ChainAssumption DEF IInv, TypeOK, LoopInv, Recorded, Called, InLoop, Calling
<1>4. Connected'
  BY DEF IInv, LoopInv, Connected
<1>5. CASE pool = {}
  <2>1. trail' = <<>> /\ Len(trail') = 0
    BY <1>2, <1>5
  <2> QED
    BY <1>4, <1>5, <2>1 DEF DeadKeyStaysDead, RotationIsTrue, TransientKeepsKey
<1>6. CASE pool # {}
  <2>1. DeadKeyStaysDead' /\ TransientKeepsKey'
    BY <1>2, <1>3, <1>6 DEF IInv, LoopInv, DeadKeyStaysDead, TransientKeepsKey
  <2>2. ASSUME NEW i \in 1..n
        PROVE  trail'[i].rotated <=> /\ i < n /\ trail'[i].reason \in PerKey
                                     /\ trail'[i + 1].key # trail'[i].key
    <3>1. trail[i].rotated <=> /\ i < n /\ trail[i].reason \in PerKey
                               /\ trail[i + 1].key # trail[i].key
      BY DEF IInv, LoopInv, RotationIsTrue
    <3>2. trail'[i].rotated = trail[i].rotated
      BY <1>2
    <3>3. i < n => /\ trail'[i].reason = trail[i].reason
                   /\ trail'[i + 1].key = trail[i + 1].key
                   /\ trail'[i].key = trail[i].key
      BY <1>2, <1>3
    <3> QED
      BY <3>1, <3>2, <3>3, Zenon
  <2>3. RotationIsTrue'
    BY <1>2, <2>2 DEF RotationIsTrue
  <2>4. ASSUME NEW k
        PROVE  Tried(Permanent, k)' # {} <=>
                  Tried(Permanent, k) # {} \/ (err \in Permanent /\ k = key)
    <3>1. ASSUME NEW i \in Tried(Permanent, k)' PROVE
             Tried(Permanent, k) # {} \/ (err \in Permanent /\ k = key)
      <4>1. i \in 1..n /\ trail'[i].key = k /\ trail'[i].reason \in Permanent
        BY <1>2, <3>1 DEF Tried
      <4>2. CASE i = n
        BY <1>2, <1>3, <1>6, <4>1, <4>2
      <4>3. CASE i < n
        BY <1>2, <4>1, <4>3 DEF Tried
      <4> QED
        BY <1>3, <4>1, <4>2, <4>3
    <3>2. ASSUME NEW i \in Tried(Permanent, k) PROVE i \in Tried(Permanent, k)'
      <4>1. i \in 1..n /\ trail[i].key = k /\ trail[i].reason \in Permanent /\ i # n
        BY <1>1, <1>3, <1>6, <3>2 DEF Tried
      <4>2. i < n
        BY <1>3, <4>1
      <4> QED
        BY <1>2, <4>1, <4>2 DEF Tried
    <3>3. err \in Permanent /\ k = key => n \in Tried(Permanent, k)'
      BY <1>2, <1>3, <1>6 DEF Tried
    <3> QED
      BY <3>1, <3>2, <3>3
  <2> QED
    BY <1>4, <2>1, <2>3, <2>4
<1> QED
  BY <1>5, <1>6

LEMMA GiveUpStep == ASSUME IInv, GiveUp PROVE LoopInv'
<1>1. /\ pc = "classify" /\ pc' = "hooks" /\ err' = err
      /\ err \in {"internal", "cancelled", "request"}
      /\ UNCHANGED <<pool, key, dead, index, pin, teardown, streamClosed>>
  BY DEF GiveUp, LeaveLoop, ctxVars, poolVars, loopVars, netVars, tryVars
<1>2. /\ Connected' /\ DeadKeyStaysDead' /\ RotationIsTrue' /\ TransientKeepsKey'
  <2>1. CASE err = "request"
    BY <1>1, <2>1, FailedAttempt DEF GiveUp
  <2>2. CASE err # "request"
    BY <1>1, <2>2, TrailKept DEF GiveUp, IInv, LoopInv, Connected
  <2> QED
    BY <2>1, <2>2
<1> QED
  BY <1>1, <1>2 DEF IInv, LoopInv, Unnarrowed, Recorded, Called,
     Selecting, DeadAreTried, InLoop, Calling, BackoffUnlessReplaced, ExhaustedMeansDead

LEMMA RetryStep == ASSUME IInv, Retry PROVE LoopInv'
<1> DEFINE n == Len(trail)
<1>1. /\ pc = "classify" /\ err' = err /\ err \in PerKey \cup Transient
      /\ trail' = FailReason /\ attempt' = attempt + 1 /\ previous' = key
      /\ dead' = IF pool # {} /\ err \in Permanent THEN dead \cup {key} ELSE dead
      /\ perKey' = (err \in PerKey) /\ permanent' = (pool # {} /\ err \in Permanent)
      /\ pending' = IF pool # {} /\ err \in PerKey /\ attempt < MaxRetries
                    THEN n ELSE pending
      /\ pc' = IF attempt < MaxRetries THEN "select" ELSE "hooks"
      /\ UNCHANGED <<pool, key, index, pin, teardown, streamClosed>>
  BY DEF Retry, Exclude, NextAttempt, LeaveLoop, ctxVars, poolVars, netVars, tryVars
<1>2. /\ Connected' /\ DeadKeyStaysDead' /\ RotationIsTrue' /\ TransientKeepsKey'
      /\ \A k : pool # {} => (Tried(Permanent, k)' # {} <=>
                   Tried(Permanent, k) # {} \/ (err \in Permanent /\ k = key))
  BY <1>1, FailedAttempt
<1>3. /\ trail' \in Seq(Records) /\ Len(trail') = n
      /\ pool = {} => trail' = <<>>
      /\ pool # {} => trail'[n].reason = err
      /\ \A i \in 1..n : trail'[i].key = trail[i].key
  BY <1>1, Failing DEF Reasons, Failures
<1>4. /\ trail \in Seq(Records) /\ n \in Nat /\ attempt \in Nat /\ MaxRetries \in Nat
      /\ pool # {} => /\ n = attempt + 1 /\ trail[n].key = key /\ pending = 0
                      /\ key \in pool \ dead
      /\ pool = {} => trail = <<>>
  BY <1>1, ChainAssumption DEF IInv, TypeOK, LoopInv, Recorded, Called, InLoop, Calling
<1>5. Recorded' /\ Called'
  BY <1>1, <1>3, <1>4 DEF Recorded, Called, InLoop, Calling
<1>6. Selecting'
  <2> SUFFICES ASSUME pool # {}, pc' = "select"
               PROVE  /\ attempt' # 0 /\ trail'[n].key = key /\ previous' = key
                      /\ trail'[n].reason \in IF perKey' THEN PerKey ELSE Transient
                      /\ key \in pool /\ (perKey' \/ key \notin dead')
                      /\ permanent' => trail'[n].reason \in Permanent
                      /\ pending' = IF perKey' THEN n ELSE 0
    BY <1>1, <1>3 DEF Selecting
  <2>1. attempt < MaxRetries /\ Permanent \subseteq PerKey
    BY <1>1 DEF Permanent, PerKey
  <2>2. attempt' # 0 /\ n \in 1..n
    BY <1>1, <1>4
  <2> QED
    BY <1>1, <1>3, <1>4, <2>1, <2>2
<1>7. DeadAreTried'
  <2> SUFFICES ASSUME pc' = "select", NEW k \in Keys
               PROVE  k \in dead' <=> Tried(Permanent, k)' # {}
    BY <1>1 DEF DeadAreTried, InLoop
  <2>1. k \in dead <=> Tried(Permanent, k) # {}
    BY <1>1 DEF IInv, LoopInv, DeadAreTried, InLoop
  <2>2. CASE pool # {}
    BY <1>1, <1>2, <2>1, <2>2
  <2>3. CASE pool = {}
    <3>1. UNCHANGED <<trail, dead>>
      BY <1>1, <1>3, <1>4, <2>3
    <3> QED
      BY <2>1, <3>1, TrailKept
  <2> QED
    BY <2>2, <2>3
<1>8. Unnarrowed' /\ BackoffUnlessReplaced' /\ ExhaustedMeansDead'
  <2>1. err \notin {"exhausted", "no_key"} /\ pc' \in {"select", "hooks"}
    BY <1>1 DEF PerKey, Transient
  <2> QED
    BY <1>1, <2>1 DEF IInv, LoopInv, Unnarrowed, InLoop, BackoffUnlessReplaced,
       ExhaustedMeansDead
<1> QED
  BY <1>2, <1>5, <1>6, <1>7, <1>8 DEF LoopInv

LEMMA LoopInit == Init => IInv
<1> SUFFICES ASSUME Init PROVE IInv
  OBVIOUS
<1>1. TypeOK
  <2>1. /\ Len(Chain) \in Nat /\ 1 \in 1..Len(Chain) /\ pin \in Keys \cup {NoKey}
        /\ {session, stream} \subseteq BOOLEAN /\ <<>> \in Seq(Records)
    BY ChainAssumption, SwitchAssumption DEF Init
  <2>2. {perKey, permanent, slept, teardown, streamClosed, allow} \subseteq BOOLEAN
    BY DEF Init
  <2>3. {key, previous, selected} \subseteq Keys \cup {NoKey} /\ {err, primaryErr} \subseteq Errors
    BY DEF Init, Errors, Reasons
  <2>4. /\ attempt \in 0..(MaxRetries + 1) /\ pending \in 0..(MaxRetries + 1)
        /\ trail = <<>> /\ index = 1 /\ pool = {} /\ rotate = FALSE /\ pc = "try"
        /\ used = {} /\ dead = {} /\ disturbed = {}
    BY ChainAssumption DEF Init
  <2> QED
    BY <2>1, <2>2, <2>3, <2>4 DEF TypeOK
<1>2. LoopInv
  BY DEF Init, LoopInv, Connected, Unnarrowed, Recorded, Called,
     Selecting, DeadAreTried, InLoop, Calling, DeadKeyStaysDead, RotationIsTrue,
     TransientKeepsKey, BackoffUnlessReplaced, ExhaustedMeansDead
<1> QED
  BY <1>1, <1>2 DEF IInv

LEMMA LoopNext == IInv /\ [Next]_vars => IInv'
<1> SUFFICES ASSUME IInv, [Next]_vars PROVE IInv'
  OBVIOUS
<1>1. TypeOK'
  BY TypeStep
<1>2. CASE UNCHANGED vars
  <2> USE <1>2 DEF vars, ctxVars, poolVars, loopVars, netVars, tryVars, IInv, LoopInv
  <2>1. DeadAreTried' /\ ExhaustedMeansDead'
    BY DEF DeadAreTried, ExhaustedMeansDead, InLoop, Tried
  <2>2. BackoffUnlessReplaced'
    BY DEF BackoffUnlessReplaced
  <2> QED
    BY <1>1, <2>1, <2>2, TrailKept DEF Connected, Unnarrowed, Recorded, Called,
       Selecting, InLoop, Calling
<1>3. CASE Next
  <2>1. LoopInv'
    BY <1>3, OutsideStep, CallStep, BuildPoolStep, NextFallbackStep, AttemptStep,
       GiveUpStep, RetryStep DEF Next
  <2> QED
    BY <1>1, <2>1 DEF IInv
<1> QED
  BY <1>2, <1>3

LEMMA LoopInvariant == Spec => []IInv
  BY LoopInit, LoopNext, PTL DEF Spec

-----------------------------------------------------------------------------
(* The state of the retry loop keeps its types; the attempt counter stays   *)
(* within MaxRetries + 1.                                                   *)
THEOREM TypeCorrect == Spec => []TypeOK
<1>1. IInv => TypeOK
  BY DEF IInv
<1> QED
  BY <1>1, LoopInvariant, PTL

(* No key is used again in a request after it failed for good, and a       *)
(* request is told that its keys are exhausted only if each of them failed  *)
(* for good.                                                                *)
THEOREM DeadStaysDead == Spec => []DeadKeys
<1>1. IInv => DeadKeys
  BY DEF IInv, LoopInv, DeadKeys
<1> QED
  BY <1>1, LoopInvariant, PTL

(* The attempt trail tells the rotations that took place, and no others; a  *)
(* server or network failure keeps the key; only the replacement of a       *)
(* permanently failed credential is not waited for.                         *)
THEOREM TrailIsTrue == Spec => []TruthfulTrail
<1>1. IInv => TruthfulTrail
  BY DEF IInv, LoopInv, TruthfulTrail
<1> QED
  BY <1>1, LoopInvariant, PTL

(* Every call starts with no stream of an earlier attempt open and with the *)
(* closed flag cleared, and a fallback chooses among all the keys of its    *)
(* provider.                                                                *)
THEOREM FallbackIsFresh == Spec => []FreshStart
<1>1. IInv => FreshConnection
  BY DEF IInv, LoopInv, Connected, FreshConnection
<1>2. IInv => FallbackUsesAllKeys
  BY DEF IInv, LoopInv, Unnarrowed, InLoop, FallbackUsesAllKeys
<1> QED
  BY <1>1, <1>2, LoopInvariant, PTL DEF FreshStart

-----------------------------------------------------------------------------
(* Whom the answer is attributed to, as long as no post-hook turned it      *)
(* around: nobody until a key is selected, then the current key, and nobody *)
(* again once the provider has failed.                                      *)
Attributed ==
    /\ pc \in {"try", "skipped"} => selected = NoKey
    /\ InLoop => selected = IF pool = {} \/ (pc = "select" /\ attempt = 0) THEN NoKey ELSE key
    /\ pc \in {"hooks", "tried", "done"} /\ err # "none" => selected = NoKey
    /\ pc \in {"hooks", "tried", "done"} /\ selected # NoKey =>
          trail # <<>> /\ selected = trail[Len(trail)].key
AttributionInv == "hook" \notin disturbed => Attributed

LEMMA AttributedNext ==
  ASSUME IInv, IInv', AttributionInv, [Next]_vars
  PROVE  AttributionInv'
<1> SUFFICES ASSUME "hook" \notin disturbed' PROVE Attributed'
  BY DEF AttributionInv
<1> USE DEF ctxVars, poolVars, loopVars, netVars, tryVars
<1>1. "hook" \notin disturbed
  BY DEF Next, Refused, ShortCircuited, BuildPool, PinUnknown, SelectKey, KeepKey,
     SelectionFails, Succeed, Fail, FirstChunkFails, TearDown, Drained, GiveUp, Retry,
     PostHooks, Return, NextFallback, AllFailed, vars
<1>2. Attributed
  BY <1>1 DEF AttributionInv
<1>3. CASE Refused \/ ShortCircuited \/ PinUnknown \/ BuildPool
  BY <1>2, <1>3 DEF Attributed, InLoop, Refused, ShortCircuited, PinUnknown, BuildPool
<1>4. CASE SelectKey
  BY <1>4 DEF Attributed, InLoop, SelectKey
<1>5. CASE KeepKey
  <2>1. pool = {} \/ attempt # 0
    BY <1>5 DEF KeepKey, SelectsKey
  <2> QED
    BY <1>2, <1>5, <2>1 DEF Attributed, InLoop, KeepKey
<1>6. CASE SelectionFails
  BY <1>6 DEF Attributed, InLoop, SelectionFails
<1>7. CASE Succeed
  <2>1. pool # {} => trail # <<>> /\ trail[Len(trail)].key = key
    BY <1>7, ChainAssumption DEF Succeed, IInv, TypeOK, LoopInv, Recorded, Called, InLoop, Calling
  <2> QED
    BY <1>2, <1>7, <2>1 DEF Attributed, InLoop, Succeed
<1>8. CASE Fail \/ FirstChunkFails \/ TearDown \/ Drained
  BY <1>2, <1>8 DEF Attributed, InLoop, Fail, FirstChunkFails, TearDown, Drained
<1>9. CASE GiveUp
  BY <1>2, <1>9 DEF Attributed, InLoop, GiveUp, LeaveLoop
<1>10. CASE Retry
  <2>1. attempt' # 0
    BY <1>10, ChainAssumption DEF Retry, NextAttempt, IInv, TypeOK
  <2> QED
    BY <1>2, <1>10, <2>1 DEF Attributed, InLoop, Retry, NextAttempt, LeaveLoop
<1>11. CASE PostHooks
  <2>1. err' = err /\ pc' = "tried" /\ pc = "hooks" /\ UNCHANGED <<selected, trail>>
    BY <1>11 DEF PostHooks
  <2> QED
    BY <1>2, <2>1 DEF Attributed, InLoop
<1>12. CASE Return
  BY <1>2, <1>12 DEF Attributed, InLoop, Return
<1>13. CASE NextFallback
  BY <1>2, <1>13 DEF Attributed, InLoop, NextFallback, FallbackAllowed
<1>14. CASE AllFailed
  BY <1>2, <1>14 DEF Attributed, InLoop, AllFailed, FallbackAllowed
<1>15. CASE UNCHANGED vars
  BY <1>2, <1>15 DEF Attributed, InLoop, vars
<1> QED
  BY <1>3, <1>4, <1>5, <1>6, <1>7, <1>8, <1>9, <1>10, <1>11, <1>12, <1>13, <1>14, <1>15
     DEF Next

(* An answer names the key of the attempt that served it, and no failure    *)
(* names any: the selected key is cleared wherever executeRequestWithRetries*)
(* leaves its loop with an error.                                           *)
THEOREM AttributionIsTrue == Spec => []Attribution
<1>1. Init => AttributionInv
  BY DEF Init, AttributionInv, Attributed, InLoop
<1>2. IInv /\ IInv' /\ AttributionInv /\ [Next]_vars => AttributionInv'
  BY AttributedNext
<1>3. AttributionInv => Attribution
  BY DEF AttributionInv, Attributed, Attribution, SelectedServed, FailedUnattributed
<1> QED
  BY <1>1, <1>2, <1>3, LoopInvariant, PTL DEF Spec

-----------------------------------------------------------------------------
(* The rate-limit failures of a key in this loop.                           *)
Limited(k) == Cardinality(Tried({"quota"}, k))

(* In round r + 1 the live keys that were rate limited in it are used, the  *)
(* others have been rate limited r times; the current key is not used yet.  *)
InRound(r) == \A k \in pool \ dead : Limited(k) = IF k \in used THEN r + 1 ELSE r
Rounds ==
    rotate /\ "filter" \notin disturbed /\ trail # <<>> => \E r \in Nat : InRound(r)
Unused ==
    /\ rotate => pool # {}
    /\ pc = "select" /\ attempt = 0 => used = {}
    /\ rotate /\ (Calling \/ (pc = "select" /\ attempt > 0 /\ ~perKey)) => key \notin used
RotationInv == Rounds /\ Unused

(* Without a trail no key has been rate limited.                            *)
LEMMA NoneLimited == ASSUME trail = <<>>, NEW k PROVE Limited(k) = 0
<1>1. Tried({"quota"}, k) = {}
  BY DEF Tried
<1> QED
  BY <1>1, FS_EmptySet DEF Limited

(* A new attempt does not change the counts.                                *)
LEMMA AttemptCounts ==
  ASSUME IInv, pc = "select", pool # {}, NEW k \in Keys,
         trail' = Append(MarkRotation(k), Record(k))
  PROVE  trail' # <<>> /\ (trail = <<>> <=> attempt = 0)
         /\ \A l : Limited(l)' = Limited(l)
<1>1. /\ Len(trail) = attempt /\ attempt \in Nat /\ trail \in Seq(Records)
  BY ChainAssumption DEF IInv, TypeOK, LoopInv, Recorded, InLoop, Calling
<1>2. /\ trail' \in Seq(Records) /\ Len(trail') = attempt + 1
      /\ trail'[attempt + 1] = Record(k)
      /\ \A i \in 1..attempt : /\ trail'[i].key = trail[i].key
                               /\ trail'[i].reason = trail[i].reason
  BY Attempted
<1>3. ASSUME NEW l PROVE Limited(l)' = Limited(l)
  <2>1. Tried({"quota"}, l)' = Tried({"quota"}, l)
    BY <1>1, <1>2 DEF Tried, Record
  <2> QED
    BY <2>1 DEF Limited
<1> QED
  BY <1>1, <1>2, <1>3

(* A failure counts against the current key, and only a rate limit does.    *)
LEMMA FailureCounts ==
  ASSUME IInv, pc = "classify", pool # {}, err \in PerKey \cup Transient \cup {"request"},
         trail' = FailReason, UNCHANGED key
  PROVE  /\ trail # <<>>
         /\ \A l : l # key \/ err # "quota" => Limited(l)' = Limited(l)
         /\ err = "quota" => Limited(key)' = Limited(key) + 1
<1> DEFINE n == Len(trail)
<1>1. /\ n \in Nat /\ n > 0 /\ trail[n].key = key /\ trail[n].reason = "none"
      /\ trail \in Seq(Records)
  BY ChainAssumption DEF IInv, TypeOK, LoopInv, Recorded, Called, InLoop, Calling
<1>2. err \in Reasons
  BY DEF Reasons, Failures, PerKey, Transient
<1>3. /\ Len(trail') = n /\ trail'[n].reason = err
      /\ \A i \in 1..n : /\ trail'[i].key = trail[i].key
                         /\ i < n => trail'[i].reason = trail[i].reason
  BY <1>2, Failing
<1>4. ASSUME NEW l, l # key \/ err # "quota" PROVE Limited(l)' = Limited(l)
  <2>1. ASSUME NEW i \in 1..n
        PROVE  trail'[i].key = l /\ trail'[i].reason \in {"quota"}
                 <=> trail[i].key = l /\ trail[i].reason \in {"quota"}
    <3>1. CASE i = n
      BY <1>1, <1>3, <1>4, <3>1
    <3>2. CASE i < n
      BY <1>3, <3>2
    <3> QED
      BY <1>1, <3>1, <3>2
  <2>2. Tried({"quota"}, l)' = Tried({"quota"}, l)
    BY <1>3, <2>1 DEF Tried
  <2> QED
    BY <2>2 DEF Limited
<1>5. ASSUME err = "quota" PROVE Limited(key)' = Limited(key) + 1
  <2> DEFINE T == Tried({"quota"}, key)
             U == {i \in 1..Len(trail') : trail'[i].key = key /\ trail'[i].reason \in {"quota"}}
  <2>1. U = T \cup {n} /\ n \notin T
    <3>1. n \in U /\ n \notin T
      BY <1>1, <1>3, <1>5 DEF Tried
    <3>2. ASSUME NEW i \in 1..n, i # n PROVE i \in U <=> i \in T
      <4>1. i < n
        BY <1>1, <3>2
      <4> QED
        BY <1>3, <3>2, <4>1 DEF Tried
    <3>3. U \subseteq 1..n /\ T \subseteq 1..n
      BY <1>3 DEF Tried
    <3> HIDE DEF U, T
    <3> QED
      BY <3>1, <3>2, <3>3
  <2>2. IsFiniteSet(T)
    <3>1. T \subseteq 1..n /\ IsFiniteSet(1..n)
      BY <1>1, FS_Interval DEF Tried
    <3> QED
      BY <3>1, FS_Subset
  <2> HIDE DEF T, U
  <2>3. Cardinality(U) = Cardinality(T) + 1
    BY <2>1, <2>2, FS_AddElement
  <2> QED
    BY <2>3, <1>1 DEF U, T, Limited, Tried
<1> QED
  BY <1>1, <1>4, <1>5

(* Steps that end the loop or run outside it leave the counts alone.        *)
LEMMA RotationKept ==
  ASSUME RotationInv, UNCHANGED <<rotate, pool, dead, used, key, trail>>,
         disturbed \subseteq disturbed',
         pc' = "select" => pc = "select" /\ UNCHANGED <<attempt, perKey>>,
         pc' \in {"call", "drain", "classify"} => pc \in {"call", "drain", "classify"}
  PROVE  RotationInv'
<1>1. Rounds'
  BY DEF RotationInv, Rounds, InRound, Limited, Tried
<1>2. Unused'
  BY DEF RotationInv, Unused, Calling
<1> QED
  BY <1>1, <1>2 DEF RotationInv

LEMMA BuildPoolRotation == ASSUME IInv, BuildPool PROVE RotationInv'
<1>1. /\ trail' = <<>> /\ used' = {} /\ attempt' = 0 /\ pc' = "select"
      /\ PoolIs(pool', rotate')
  BY DEF BuildPool, IInv, LoopInv, Recorded
<1>2. rotate' => pool' # {}
  BY <1>1 DEF PoolIs
<1> QED
  BY <1>1, <1>2 DEF RotationInv, Rounds, Unused, Calling

(* A selection may begin a new round only when every live key is used.      *)
LEMMA SelectKeyRotation == ASSUME IInv, RotationInv, SelectKey PROVE RotationInv'
<1>1. PICK k \in pool, u \in {used, {}} :
          /\ Offered(k, u) /\ key' = k /\ used' = u
          /\ trail' = Append(MarkRotation(k), Record(k))
  BY DEF SelectKey
<1>2. /\ pc = "select" /\ pc' = "call" /\ pool # {}
      /\ UNCHANGED <<pool, rotate, attempt, dead, perKey>>
      /\ k \in Keys /\ used \subseteq Keys
      /\ disturbed \subseteq disturbed'
      /\ "filter" \notin disturbed' /\ u # used => pool \subseteq dead \cup used
  BY <1>1 DEF SelectKey, SelectsKey, poolVars, IInv, TypeOK
<1>3. /\ trail' # <<>> /\ (trail = <<>> <=> attempt = 0)
      /\ \A l : Limited(l)' = Limited(l)
  BY <1>1, <1>2, AttemptCounts
<1>4. rotate => k \notin u
  BY <1>1 DEF Offered, Suppressed
<1>5. Unused'
  BY <1>1, <1>2, <1>4 DEF Unused, RotationInv, Calling
<1>6. ASSUME rotate, "filter" \notin disturbed'
      PROVE  \E r \in Nat : \A l \in pool \ dead : Limited(l) = IF l \in u THEN r + 1 ELSE r
  <2>1. CASE trail = <<>>
    <3>1. used = {} /\ u = {}
      BY <1>1, <1>2, <1>3, <2>1 DEF RotationInv, Unused
    <3>2. \A l \in pool \ dead : Limited(l) = IF l \in u THEN 0 + 1 ELSE 0
      BY <2>1, <3>1, NoneLimited
    <3> QED
      BY <3>2
  <2>2. CASE trail # <<>>
    <3>1. PICK r \in Nat : \A l \in pool \ dead : Limited(l) = IF l \in used THEN r + 1 ELSE r
      BY <1>2, <1>6, <2>2 DEF RotationInv, Rounds, InRound
    <3>2. CASE u = used
      BY <3>1, <3>2
    <3>3. CASE u # used
      <4>1. u = {} /\ pool \ dead \subseteq used
        BY <1>2, <1>6, <3>3
      <4>2. \A l \in pool \ dead : Limited(l) = IF l \in u THEN (r + 1) + 1 ELSE r + 1
        BY <3>1, <4>1
      <4> QED
        BY <4>2
    <3> QED
      BY <3>2, <3>3
  <2> QED
    BY <2>1, <2>2
<1>7. Rounds'
  <2> SUFFICES ASSUME rotate, "filter" \notin disturbed' PROVE \E r \in Nat : InRound(r)'
    BY <1>2 DEF Rounds
  <2>1. PICK r \in Nat : \A l \in pool \ dead : Limited(l) = IF l \in u THEN r + 1 ELSE r
    BY <1>6
  <2>2. \A l \in pool' \ dead' : Limited(l)' = IF l \in used' THEN r + 1 ELSE r
    BY <1>1, <1>2, <1>3, <2>1
  <2> QED
    BY <2>2 DEF InRound
<1> QED
  BY <1>5, <1>7 DEF RotationInv

LEMMA KeepKeyRotation == ASSUME IInv, RotationInv, KeepKey PROVE RotationInv'
<1>1. /\ pc = "select" /\ pc' = "call" /\ ~SelectsKey
      /\ UNCHANGED <<pool, rotate, attempt, dead, used, perKey, key, disturbed>>
  BY DEF KeepKey, ctxVars, poolVars
<1>2. CASE pool = {}
  <2>1. ~rotate
    BY <1>2 DEF RotationInv, Unused
  <2> QED
    BY <1>1, <2>1 DEF RotationInv, Rounds, Unused
<1>3. CASE pool # {}
  <2>1. /\ attempt # 0 /\ attempt \in Nat /\ ~perKey /\ key \in Keys
        /\ trail' = Append(MarkRotation(key), Record(key))
    <3>1. attempt # 0 /\ attempt \in Nat /\ ~perKey
      BY <1>1, <1>3, ChainAssumption DEF SelectsKey, IInv, TypeOK
    <3>2. pending = 0 /\ key \in pool /\ pool \subseteq Keys
      BY <1>1, <1>3, <3>1 DEF IInv, TypeOK, LoopInv, Selecting
    <3> QED
      BY <1>3, <3>1, <3>2 DEF KeepKey, MarkRotation
  <2>2. /\ trail' # <<>> /\ (trail = <<>> <=> attempt = 0)
        /\ \A l : Limited(l)' = Limited(l)
    BY <1>1, <1>3, <2>1, AttemptCounts
  <2>3. Unused'
    BY <1>1, <1>3, <2>1 DEF Unused, RotationInv, Calling
  <2>4. Rounds'
    <3> SUFFICES ASSUME rotate, "filter" \notin disturbed PROVE \E r \in Nat : InRound(r)'
      BY <1>1 DEF Rounds
    <3>1. PICK r \in Nat : InRound(r)
      BY <2>1, <2>2 DEF RotationInv, Rounds
    <3>2. InRound(r)'
      BY <1>1, <2>2, <3>1 DEF InRound
    <3> QED
      BY <3>2
  <2> QED
    BY <2>3, <2>4 DEF RotationInv
<1> QED
  BY <1>2, <1>3

(* A rate limit is counted and uses the key up, any other failure is not    *)
(* counted and does not.                                                    *)
LEMMA FailureRotation ==
  ASSUME IInv, RotationInv, pc = "classify", trail' = FailReason,
         err \in PerKey \cup Transient \cup {"request"},
         UNCHANGED <<pool, rotate, key, disturbed>>,
         dead \subseteq dead', used \subseteq used',
         pool # {} => used' = IF err = "quota" THEN used \cup {key} ELSE used
  PROVE  Rounds'
<1> SUFFICES ASSUME rotate, "filter" \notin disturbed PROVE \E r \in Nat : InRound(r)'
  BY DEF Rounds
<1>1. pool # {} /\ key \notin used
  BY DEF RotationInv, Unused, Calling
<1>2. /\ trail # <<>>
      /\ \A l : l # key \/ err # "quota" => Limited(l)' = Limited(l)
      /\ err = "quota" => Limited(key)' = Limited(key) + 1
  BY <1>1, FailureCounts
<1>3. PICK r \in Nat : InRound(r)
  BY <1>2 DEF RotationInv, Rounds
<1>4. used' = IF err = "quota" THEN used \cup {key} ELSE used
  BY <1>1
<1>5. ASSUME NEW l \in pool \ dead' PROVE Limited(l)' = IF l \in used' THEN r + 1 ELSE r
  <2>1. Limited(l) = IF l \in used THEN r + 1 ELSE r
    BY <1>3 DEF InRound
  <2>2. CASE err # "quota" \/ l # key
    <3>1. Limited(l)' = Limited(l) /\ (l \in used' <=> l \in used)
      BY <1>2, <1>4, <2>2
    <3> QED
      BY <2>1, <3>1
  <2>3. CASE err = "quota" /\ l = key
    <3>1. Limited(l)' = Limited(l) + 1 /\ l \in used' /\ l \notin used
      BY <1>1, <1>2, <1>4, <2>3
    <3> QED
      BY <2>1, <3>1
  <2> QED
    BY <2>2, <2>3
<1>6. InRound(r)'
  BY <1>5 DEF InRound
<1> QED
  BY <1>6

LEMMA RetryRotation == ASSUME IInv, RotationInv, Retry PROVE RotationInv'
<1>1. /\ pc = "classify" /\ trail' = FailReason /\ err \in PerKey \cup Transient
      /\ UNCHANGED <<pool, rotate, key, disturbed>>
      /\ dead' = IF pool # {} /\ err \in Permanent THEN dead \cup {key} ELSE dead
      /\ used' = IF pool # {} /\ err = "quota" THEN used \cup {key} ELSE used
      /\ perKey' = (err \in PerKey) /\ attempt' = attempt + 1
      /\ pc' = IF attempt < MaxRetries THEN "select" ELSE "hooks"
  BY DEF Retry, Exclude, NextAttempt, LeaveLoop, ctxVars, poolVars, PerKey, Permanent
<1>2. Rounds'
  BY <1>1, FailureRotation
<1>3. Unused'
  <2>1. attempt' # 0 /\ ("quota" \in PerKey)
    BY <1>1, ChainAssumption DEF IInv, TypeOK, PerKey
  <2>2. rotate => pool # {} /\ key \notin used
    BY <1>1 DEF RotationInv, Unused, Calling
  <2> QED
    BY <1>1, <2>1, <2>2 DEF Unused, Calling
<1> QED
  BY <1>2, <1>3 DEF RotationInv

LEMMA GiveUpRotation == ASSUME IInv, RotationInv, GiveUp PROVE RotationInv'
<1>1. /\ pc = "classify" /\ pc' = "hooks" /\ err \in {"internal", "cancelled", "request"}
      /\ UNCHANGED <<pool, rotate, key, disturbed, dead, used>>
  BY DEF GiveUp, LeaveLoop, ctxVars, poolVars, loopVars
<1>2. CASE err = "request"
  <2>1. Rounds'
    BY <1>1, <1>2, FailureRotation DEF GiveUp
  <2>2. Unused'
    BY <1>1 DEF RotationInv, Unused, Calling
  <2> QED
    BY <2>1, <2>2 DEF RotationInv
<1>3. CASE err # "request"
  BY <1>1, <1>3, RotationKept DEF GiveUp
<1> QED
  BY <1>2, <1>3

LEMMA RotationNext ==
  ASSUME IInv, RotationInv, [Next]_vars
  PROVE  RotationInv'
<1> USE DEF ctxVars, poolVars, loopVars
<1>1. CASE Refused \/ ShortCircuited \/ PinUnknown \/ SelectionFails \/ Succeed \/ Fail
           \/ FirstChunkFails \/ TearDown \/ Drained \/ PostHooks \/ Return \/ AllFailed
  <2>1. /\ UNCHANGED <<rotate, pool, dead, used, key, trail, attempt, perKey>>
        /\ disturbed \subseteq disturbed'
        /\ pc' = "select" => pc = "select"
        /\ pc' \in {"call", "drain", "classify"} => pc \in {"call", "drain", "classify"}
    BY <1>1 DEF Refused, ShortCircuited, PinUnknown, SelectionFails, Succeed, Fail,
       FirstChunkFails, TearDown, Drained, PostHooks, Return, AllFailed
  <2> QED
    BY <2>1, RotationKept
<1>2. CASE NextFallback
  BY <1>2 DEF NextFallback, RotationInv, Rounds, Unused, Calling
<1>3. CASE UNCHANGED vars
  BY <1>3, RotationKept DEF vars
<1> QED
  BY <1>1, <1>2, <1>3, BuildPoolRotation, SelectKeyRotation, KeepKeyRotation,
     RetryRotation, GiveUpRotation DEF Next

(* While no filter has ended a round early, no live key of a rotating pool  *)
(* is rate limited twice more than another: usedKeyIDs is emptied only when *)
(* every live key is in it.                                                 *)
THEOREM RotationIsBalanced == Spec => []BalancedRotation
<1>1. Init => RotationInv
  BY DEF Init, RotationInv, Rounds, Unused, Calling
<1>2. IInv /\ RotationInv /\ [Next]_vars => RotationInv'
  BY RotationNext
<1>3. RotationInv => BalancedRotation
  <2> SUFFICES ASSUME RotationInv, rotate, "filter" \notin disturbed,
                      NEW k \in pool \ dead, NEW l \in pool \ dead
               PROVE  Limited(k) <= Limited(l) + 1
    BY DEF BalancedRotation, Limited
  <2>1. CASE trail = <<>>
    BY <2>1, NoneLimited
  <2>2. CASE trail # <<>>
    <3>1. PICK r \in Nat : InRound(r)
      BY <2>2 DEF RotationInv, Rounds
    <3>2. Limited(k) \in {r, r + 1} /\ Limited(l) \in {r, r + 1}
      BY <3>1 DEF InRound
    <3> QED
      BY <3>2
  <2> QED
    BY <2>1, <2>2
<1> QED
  BY <1>1, <1>2, <1>3, LoopInvariant, PTL DEF Spec

-----------------------------------------------------------------------------
(* A request whose attempt was cancelled is on its way out: a post-hook may *)
(* recover from the error, which ends the request too.                      *)
Leaving ==
    \/ err = "cancelled" /\ pc \in {"drain", "classify", "hooks", "tried", "done"}
    \/ err = "none" /\ pc \in {"tried", "done"}

(* The inductive part: no step towards an attempt has a cancelled error.    *)
CancelledLeaves == err = "cancelled" => Leaving

LEMMA LeavingStays == ASSUME Leaving, [Next]_vars PROVE Leaving'
<1> USE DEF ctxVars, poolVars, loopVars, netVars, tryVars, Leaving
<1>1. CASE Refused \/ ShortCircuited \/ BuildPool \/ PinUnknown
  BY <1>1 DEF Refused, ShortCircuited, BuildPool, PinUnknown
<1>2. CASE SelectKey \/ KeepKey \/ SelectionFails \/ Succeed \/ Fail \/ FirstChunkFails
  BY <1>2 DEF SelectKey, KeepKey, SelectionFails, Succeed, Fail, FirstChunkFails
<1>3. CASE TearDown \/ Drained \/ GiveUp
  BY <1>3 DEF TearDown, Drained, GiveUp, LeaveLoop
<1>4. CASE Retry
  BY <1>4 DEF Retry, PerKey, Permanent, Transient
<1>5. CASE PostHooks
  BY <1>5 DEF PostHooks
<1>6. CASE Return \/ NextFallback \/ AllFailed
  BY <1>6 DEF Return, NextFallback, AllFailed, FallbackAllowed
<1>7. CASE UNCHANGED vars
  BY <1>7 DEF vars
<1> QED
  BY <1>1, <1>2, <1>3, <1>4, <1>5, <1>6, <1>7 DEF Next

LEMMA CancelledNext == ASSUME CancelledLeaves, [Next]_vars PROVE CancelledLeaves'
<1> USE DEF ctxVars, poolVars, loopVars, netVars, tryVars, CancelledLeaves, Leaving
<1>1. CASE Refused \/ ShortCircuited \/ BuildPool \/ PinUnknown
  BY <1>1 DEF Refused, ShortCircuited, BuildPool, PinUnknown
<1>2. CASE SelectKey \/ KeepKey \/ SelectionFails \/ Succeed \/ Fail \/ FirstChunkFails
  BY <1>2 DEF SelectKey, KeepKey, SelectionFails, NoneLeft, Succeed, Fail,
     FirstChunkFails
<1>3. CASE TearDown \/ Drained \/ GiveUp
  BY <1>3 DEF TearDown, Drained, GiveUp, LeaveLoop
<1>4. CASE Retry
  BY <1>4 DEF Retry, PerKey, Permanent, Transient
<1>5. CASE PostHooks
  BY <1>5 DEF PostHooks
<1>6. CASE Return \/ NextFallback \/ AllFailed
  BY <1>6 DEF Return, NextFallback, AllFailed, FallbackAllowed
<1>7. CASE UNCHANGED vars
  BY <1>7 DEF vars
<1> QED
  BY <1>1, <1>2, <1>3, <1>4, <1>5, <1>6, <1>7 DEF Next

(* A cancelled request makes no further call: neither the retry loop nor    *)
(* the fallbacks go on after request_cancelled, whatever the hooks make of  *)
(* the error.                                                               *)
THEOREM CancelEndsIt == Spec => CancelIsFinal
<1>1. Init => CancelledLeaves
  BY DEF Init, CancelledLeaves
<1>2. CancelledLeaves /\ [Next]_vars => CancelledLeaves'
  BY CancelledNext
<1>3. Leaving /\ [Next]_vars => Leaving'
  BY LeavingStays
<1>4. CancelledLeaves => (err = "cancelled" => Leaving)
  BY DEF CancelledLeaves
<1>5. Leaving => pc # "call"
  BY DEF Leaving
<1> QED
  BY <1>1, <1>2, <1>3, <1>4, <1>5, PTL DEF Spec, CancelIsFinal

-----------------------------------------------------------------------------
(* How far a request has come: the member of the chain, the part of its     *)
(* attempt, the number of the retry and the step of the retry.              *)
Part == CASE pc \in {"try", "skipped"} -> 0
          [] pc \in {"select", "call", "drain", "classify"} -> 1
          [] pc = "hooks" -> 2
          [] pc = "tried" -> 3
          [] OTHER -> 4
Step == CASE pc = "select" -> 0 [] pc = "call" -> 1 [] pc = "drain" -> 2 [] OTHER -> 3

(* A step takes the request further in this order or, last in it, ends the  *)
(* goroutine of a dead stream.                                              *)
Further ==
    \/ index' > index
    \/ index' = index /\ Part' > Part
    \/ index' = index /\ Part' = Part /\ attempt' > attempt
    \/ index' = index /\ Part' = Part /\ attempt' = attempt /\ Step' > Step
    \/ UNCHANGED <<index, pc, attempt>> /\ teardown /\ ~teardown'

(* No step takes a request back: retries, rounds of keys, drains and        *)
(* fallbacks come to an end, since TypeOK bounds every number in the order. *)
(* What Terminates needs beyond it is that the goroutines are scheduled.    *)
THEOREM NeverBack == Spec => [][Further]_vars
<1>1. ASSUME TypeOK, [Next]_vars PROVE [Further]_vars
  <2>0. index \in Nat /\ attempt \in Nat
    BY <1>1, ChainAssumption DEF TypeOK
  <2> USE DEF ctxVars, poolVars, loopVars, netVars, tryVars, Part, Step, Further
  <2>1. CASE Refused \/ ShortCircuited \/ BuildPool \/ PinUnknown
    BY <2>0, <2>1 DEF Refused, ShortCircuited, BuildPool, PinUnknown
  <2>2. CASE SelectKey \/ KeepKey \/ SelectionFails \/ Succeed
    BY <2>0, <2>2 DEF SelectKey, KeepKey, SelectionFails, Succeed
  <2>3. CASE Fail \/ FirstChunkFails \/ Drained
    BY <2>0, <2>3 DEF Fail, FirstChunkFails, Drained
  <2>4. CASE TearDown
    BY <2>0, <2>4 DEF TearDown
  <2>5. CASE GiveUp
    BY <2>0, <2>5 DEF GiveUp, LeaveLoop
  <2>6. CASE Retry
    <3>1. index' = index /\ attempt' = attempt + 1 /\ pc = "classify"
          /\ pc' \in {"select", "hooks"}
      BY <2>6 DEF Retry, NextAttempt, LeaveLoop
    <3> QED
      BY <2>0, <3>1
  <2>7. CASE PostHooks
    BY <2>0, <2>7 DEF PostHooks
  <2>8. CASE Return \/ NextFallback \/ AllFailed
    BY <2>0, <2>8 DEF Return, NextFallback, AllFailed
  <2> QED
    BY <1>1, <2>1, <2>2, <2>3, <2>4, <2>5, <2>6, <2>7, <2>8 DEF Next
<1> QED
  BY <1>1, TypeCorrect, PTL DEF Spec
=============================================================================
