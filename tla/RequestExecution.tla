--------------------------- MODULE RequestExecution ---------------------------
(***************************************************************************)
(* One call of handleRequest / handleStreamRequest in core/unifai.go: the  *)
(* primary provider, then the fallbacks in order, and for each provider    *)
(* the retry loop of executeRequestWithRetries with the key selection and  *)
(* rotation of the worker's keyProvider closure.                           *)
(*                                                                         *)
(* The request goroutine, the worker and the goroutine that tears a failed *)
(* stream down share one context: trail, selected, pin and streamClosed.   *)
(***************************************************************************)
EXTENDS Naturals, Sequences, FiniteSets

CONSTANTS
    Keys,          \* API keys
    NoKey,         \* the zero Key
    Chain,         \* keys eligible at the primary and at each fallback ({}: keyless)
    MaxRetries,    \* NetworkConfig.MaxRetries
    Pins,          \* the key a caller may pin (NoKey: none)
    Sticky,        \* whether session stickiness may be active
    Filters,       \* whether a KeyPoolFilter may suppress keys
    Streams,       \* whether the request may be, and may not be, a streaming one
    HooksRewrite   \* whether a post-hook may turn errors and results around

ASSUME ChainAssumption ==
    /\ Len(Chain) > 0 /\ Chain \in Seq(SUBSET Keys)
    /\ NoKey \notin Keys
    /\ IsFiniteSet(Keys)
    /\ Pins \subseteq Keys \cup {NoKey}
    /\ MaxRetries \in Nat
ASSUME SwitchAssumption ==
    /\ Sticky \subseteq BOOLEAN /\ Streams \subseteq BOOLEAN
    /\ {Filters, HooksRewrite} \subseteq BOOLEAN

VARIABLES
    index,      \* which member of Chain is being tried
    pc,         \* step of the goroutine that works on the request
    pin,        \* UnifAIContextKeyAPIKeyID / APIKeyName
    session,    \* a session ID and a key-value store are present
    stream,     \* the request is a streaming one
    pool,       \* the keys the keyProvider selects from ({}: nil keyProvider)
    rotate,     \* canRotate
    attempt,    \* attempts
    key,        \* currentKey
    used, dead, \* usedKeyIDs, deadKeyIDs
    perKey,     \* lastWasPerKeyFailure
    permanent,  \* lastWasPermanentKeyFailure
    previous,   \* previousKeyID
    pending,    \* pendingRotationAttemptIdx (0: none)
    slept,      \* the worker slept before this attempt
    trail,      \* UnifAIContextKeyAttemptTrail
    selected,   \* UnifAIContextKeySelectedKeyID
    teardown,   \* a dead stream's provider goroutine has not ended
    streamClosed, \* UnifAIContextKeyConnectionClosed
    err,        \* the error of the current provider ("none": it answered)
    allow,      \* its AllowFallbacks
    primaryErr, \* the primary's error
    disturbed   \* history: what plugins did to this request: a filter ended a
                \* round before its keys were used, a post-hook turned it around

ctxVars  == <<pin, session, stream, disturbed>>
poolVars == <<pool, rotate>>
loopVars == <<attempt, key, used, dead, perKey, permanent, previous, pending,
              slept>>
netVars  == <<teardown, streamClosed>>
tryVars  == <<index, primaryErr>>
vars == <<ctxVars, poolVars, loopVars, netVars, tryVars, pc, trail, selected,
          err, allow>>

(* What a provider call may fail with: 401/402/403, 429 or a rate-limit    *)
(* text, 500/502/503/504, a network error, another status, an error of     *)
(* the gateway itself, and the end of the caller's context.                *)
Permanent == {"auth"}
PerKey    == {"auth", "quota"}
Transient == {"server", "network"}
Failures  == PerKey \cup Transient \cup {"request", "internal", "cancelled"}
Reasons   == Failures \cup {"none"}
Errors    == Reasons \cup {"no_key", "filtered", "exhausted", "refused", "hook"}

Records == [key : Keys \cup {NoKey}, reason : Reasons, rotated : BOOLEAN]

TypeOK ==
    /\ index \in 1..Len(Chain)
    /\ pc \in {"try", "select", "call", "drain", "classify", "hooks", "tried",
               "skipped", "done"}
    /\ pin \in Keys \cup {NoKey} /\ {session, stream} \subseteq BOOLEAN
    /\ pool \subseteq Keys /\ rotate \in BOOLEAN
    /\ attempt \in 0..(MaxRetries + 1)
    /\ {key, previous, selected} \subseteq Keys \cup {NoKey}
    /\ used \subseteq Keys /\ dead \subseteq Keys
    /\ {perKey, permanent, slept, teardown, streamClosed, allow} \subseteq BOOLEAN
    /\ pending \in 0..(MaxRetries + 1)
    /\ trail \in Seq(Records)
    /\ {err, primaryErr} \subseteq Errors
    /\ disturbed \subseteq {"filter", "hook"}

Init ==
    /\ index = 1 /\ pc = "try"
    /\ pin \in Pins /\ session \in Sticky /\ stream \in Streams
    /\ pool = {} /\ rotate = FALSE
    /\ attempt = 0 /\ key = NoKey /\ used = {} /\ dead = {}
    /\ perKey = FALSE /\ permanent = FALSE /\ previous = NoKey /\ pending = 0
    /\ slept = FALSE
    /\ trail = <<>> /\ selected = NoKey
    /\ teardown = FALSE /\ streamClosed = FALSE
    /\ err = "none" /\ allow = TRUE /\ primaryErr = "none"
    /\ disturbed = {}

-----------------------------------------------------------------------------
(* tryRequest up to the worker.                                            *)

(* An error before the worker sees the request: no queue, a full or        *)
(* closing queue, or a pre-hook's short-circuit, which may forbid          *)
(* fallbacks.                                                              *)
Refused ==
    /\ pc = "try"
    /\ err' = "refused" /\ allow' \in BOOLEAN
    /\ pc' = "tried"
    /\ UNCHANGED <<ctxVars, poolVars, loopVars, netVars, tryVars, trail, selected>>

(* A pre-hook answers in place of the provider.                            *)
ShortCircuited ==
    /\ pc = "try"
    /\ err' = "none" /\ pc' = "tried"
    /\ UNCHANGED <<ctxVars, poolVars, loopVars, netVars, tryVars, trail, selected,
                   allow>>

(* selectKeyFromProviderForModelWithPool: a pinned key, the only key and a *)
(* session's key are fixed, otherwise the keys rotate.                     *)
PoolIs(p, r) ==
    LET eligible == Chain[index]
        sticky   == session /\ index = 1
    IN  IF eligible = {} THEN p = {} /\ r = FALSE
        ELSE IF pin # NoKey THEN pin \in eligible /\ p = {pin} /\ r = FALSE
        ELSE IF sticky \/ Cardinality(eligible) = 1
        THEN r = FALSE /\ \E k \in eligible : p = {k}
        ELSE p = eligible /\ r = TRUE

BuildPool ==
    /\ pc = "try"
    /\ \E p \in SUBSET Keys, r \in BOOLEAN :
          PoolIs(p, r) /\ pool' = p /\ rotate' = r
    /\ attempt' = 0 /\ key' = NoKey /\ used' = {} /\ dead' = {}
    /\ perKey' = FALSE /\ permanent' = FALSE /\ previous' = NoKey
    /\ pending' = 0 /\ slept' = FALSE
    /\ pc' = "select"
    /\ UNCHANGED <<ctxVars, netVars, tryVars, trail, selected, err, allow>>

(* The pinned key is not one of this provider's.                           *)
PinUnknown ==
    /\ pc = "try" /\ Chain[index] # {} /\ pin \notin Chain[index] \cup {NoKey}
    /\ err' = "no_key" /\ pc' = "hooks"
    /\ UNCHANGED <<ctxVars, poolVars, loopVars, netVars, tryVars, trail, selected,
                   allow>>

-----------------------------------------------------------------------------
(* executeRequestWithRetries.                                              *)

Record(k) == [key |-> k, reason |-> "none", rotated |-> FALSE]

(* Variant: every retry selects a key. *)
SelectsAlways == pool # {}

(* The first attempt selects a key, and so does one after a failure that   *)
(* was the key's.                                                          *)
SelectsKey == pool # {} /\ (attempt = 0 \/ perKey)

(* What the key pool filter may leave of a set of keys.                    *)
Suppressed(keys) == IF Filters THEN SUBSET keys ELSE {keys}

(* The keyProvider may return k and leave usedKeyIDs as u: a key not used  *)
(* in this round, or any live key in a new round.                          *)
Offered(k, u) ==
    IF ~rotate THEN k \in pool \ dead /\ u = used
    ELSE \E fresh \in Suppressed(pool \ (dead \cup used)) :
            \/ k \in fresh /\ u = used
            \/ /\ fresh = {} /\ u = {}
               /\ \E live \in Suppressed(pool \ dead) : k \in live

(* Variant: every selection after a per-key failure is marked a rotation. *)
MarkUnchecked(k) ==
    IF attempt = 0 THEN <<>>
    ELSE IF pending # 0
    THEN [trail EXCEPT ![pending].rotated = TRUE]
    ELSE trail

(* The trail before this attempt's record: reset by the first attempt, and *)
(* the failed attempt marked if another key was found for it.              *)
MarkRotation(k) ==
    IF attempt = 0 THEN <<>>
    ELSE IF pending # 0 /\ trail[pending].key # k
    THEN [trail EXCEPT ![pending].rotated = TRUE]
    ELSE trail

(* Variant: a rotation never waits. *)
SleepsUnlessRotated(k) ==
    attempt > 0 /\ ~(perKey /\ pool # {} /\ k # previous)

(* Backoff, except after moving away from a key that failed for good.      *)
SleepsBefore(k) ==
    attempt > 0 /\ ~(permanent /\ pool # {} /\ k # previous)

SelectKey ==
    /\ pc = "select" /\ SelectsKey
    /\ \E k \in pool, u \in {used, {}} :
          /\ Offered(k, u)
          /\ key' = k /\ selected' = k /\ used' = u
          /\ trail' = Append(MarkRotation(k), Record(k))
          /\ slept' = SleepsBefore(k)
    /\ pending' = 0
    /\ disturbed' = IF used' # used /\ ~(pool \subseteq dead \cup used)
                    THEN disturbed \cup {"filter"} ELSE disturbed
    /\ pc' = "call"
    /\ UNCHANGED <<pin, session, stream, poolVars, netVars, tryVars, attempt, dead,
                   perKey, permanent, previous, err, allow>>

KeepKey ==
    /\ pc = "select" /\ ~SelectsKey
    /\ trail' = IF pool = {} THEN trail ELSE Append(trail, Record(key))
    /\ slept' = SleepsBefore(key)
    /\ pc' = "call"
    /\ UNCHANGED <<ctxVars, poolVars, netVars, tryVars, attempt, key, used, dead,
                   perKey, permanent, previous, pending, selected, err, allow>>

(* Variant: gives up when the round is over. *)
NoneLeftThisRound ==
    \/ err' = "exhausted" /\ pool \subseteq dead \cup used
    \/ err' = "filtered" /\ rotate /\ Filters /\ ~(pool \subseteq dead)

(* errAllKeysDead, or errAllKeysFiltered while live keys exist.            *)
NoneLeft ==
    \/ err' = "exhausted" /\ pool \subseteq dead
    \/ err' = "filtered" /\ rotate /\ Filters /\ ~(pool \subseteq dead)

(* Variant: the early return leaves the last attempt's key selected. *)
SelectionFailsSelected ==
    /\ pc = "select" /\ SelectsKey
    /\ NoneLeft /\ pc' = "hooks"
    /\ UNCHANGED <<ctxVars, poolVars, loopVars, netVars, tryVars, trail, allow,
                   selected>>

SelectionFails ==
    /\ pc = "select" /\ SelectsKey
    /\ NoneLeft /\ pc' = "hooks"
    /\ selected' = NoKey
    /\ UNCHANGED <<ctxVars, poolVars, loopVars, netVars, tryVars, trail, allow>>

Succeed ==
    /\ pc = "call"
    /\ err' = "none" /\ pc' = "hooks"
    /\ UNCHANGED <<ctxVars, poolVars, loopVars, netVars, tryVars, trail, selected,
                   allow>>

Fail ==
    /\ pc = "call"
    /\ err' \in Failures /\ pc' = "classify"
    /\ UNCHANGED <<ctxVars, poolVars, loopVars, netVars, tryVars, trail, selected,
                   allow>>

(* Variant: goes on without waiting for the dead stream's drain. *)
FirstChunkFailsUnwaited ==
    /\ pc = "call" /\ stream
    /\ err' \in Failures /\ teardown' = TRUE /\ pc' = "classify"
    /\ UNCHANGED <<ctxVars, poolVars, loopVars, streamClosed, tryVars, trail,
                   selected, allow>>

(* CheckFirstStreamChunkForError finds an error in an open stream.         *)
FirstChunkFails ==
    /\ pc = "call" /\ stream
    /\ err' \in Failures /\ teardown' = TRUE /\ pc' = "drain"
    /\ UNCHANGED <<ctxVars, poolVars, loopVars, streamClosed, tryVars, trail,
                   selected, allow>>

(* The provider goroutine ends: ReleaseStreamingResponse claims the flag,  *)
(* then the channel is closed.                                             *)
TearDown ==
    /\ teardown
    /\ teardown' = FALSE /\ streamClosed' = TRUE
    /\ UNCHANGED <<ctxVars, poolVars, loopVars, tryVars, pc, trail, selected, err,
                   allow>>

(* <-drainDone, then the flag is cleared for the next attempt.             *)
Drained ==
    /\ pc = "drain" /\ ~teardown
    /\ streamClosed' = FALSE /\ pc' = "classify"
    /\ UNCHANGED <<ctxVars, poolVars, loopVars, teardown, tryVars, trail, selected,
                   err, allow>>

(* Variant: the last attempt's key stays selected. *)
LeaveLoopSelected == pc' = "hooks" /\ UNCHANGED selected

(* The loop ends with an error: the selected key is cleared, unless there  *)
(* is no keyProvider.                                                      *)
LeaveLoop ==
    /\ pc' = "hooks"
    /\ selected' = IF pool = {} THEN selected ELSE NoKey

FailReason == IF trail = <<>> THEN trail
              ELSE [trail EXCEPT ![Len(trail)].reason = err]

GiveUp ==
    /\ pc = "classify" /\ err \in {"internal", "cancelled", "request"}
    /\ trail' = IF err = "request" THEN FailReason ELSE trail
    /\ LeaveLoop
    /\ UNCHANGED <<ctxVars, poolVars, loopVars, netVars, tryVars, err, allow>>

(* Variant: a key that failed for good is only excluded from this round. *)
ExcludeUsedOnly ==
    /\ used' = IF pool # {} /\ err \in PerKey THEN used \cup {key} ELSE used
    /\ UNCHANGED dead

(* Variant: a rate-limited key is not excluded. *)
ExcludeDeadOnly ==
    /\ dead' = IF pool # {} /\ err \in Permanent THEN dead \cup {key} ELSE dead
    /\ UNCHANGED used

(* Variant: also without a keyProvider. *)
ExcludeAlways ==
    /\ dead' = IF err \in Permanent THEN dead \cup {key} ELSE dead
    /\ used' = IF err \in PerKey \ Permanent THEN used \cup {key} ELSE used

(* What the next selections must avoid.                                    *)
Exclude ==
    /\ dead' = IF pool # {} /\ err \in Permanent THEN dead \cup {key} ELSE dead
    /\ used' = IF pool # {} /\ err \in PerKey \ Permanent
               THEN used \cup {key} ELSE used

NextAttempt ==
    /\ attempt' = attempt + 1
    /\ IF attempt < MaxRetries
       THEN pc' = "select" /\ UNCHANGED selected ELSE LeaveLoop

(* A failure worth another attempt.                                        *)
Retry ==
    /\ pc = "classify" /\ err \in PerKey \cup Transient
    /\ trail' = FailReason
    /\ Exclude
    /\ perKey' = (err \in PerKey)
    /\ permanent' = (pool # {} /\ err \in Permanent)
    /\ previous' = key
    /\ pending' = IF pool # {} /\ err \in PerKey /\ attempt < MaxRetries
                  THEN Len(trail) ELSE pending
    /\ NextAttempt
    /\ UNCHANGED <<ctxVars, poolVars, netVars, tryVars, key, slept, err, allow>>

(* RunPostLLMHooks in tryRequest and tryStreamRequest: an error may be     *)
(* given AllowFallbacks or recovered from, a result may be invalidated (a  *)
(* stream's chunks go through the hooks after it has been returned).       *)
PostHooks ==
    /\ pc = "hooks"
    /\ err' \in IF ~HooksRewrite THEN {err}
                ELSE IF err # "none" THEN {err, "none"}
                ELSE IF stream THEN {"none"} ELSE {"none", "hook"}
    /\ allow' \in IF HooksRewrite THEN BOOLEAN ELSE {TRUE}
    /\ disturbed' = IF err' # err THEN disturbed \cup {"hook"} ELSE disturbed
    /\ pc' = "tried"
    /\ UNCHANGED <<pin, session, stream, poolVars, loopVars, netVars, tryVars, trail, selected>>

-----------------------------------------------------------------------------
(* handleRequest: shouldTryFallbacks and shouldContinueWithFallbacks.      *)

(* Variant: a cancelled request goes on with the fallbacks. *)
AllowedWhenCancelled == err # "none" /\ allow

FallbackAllowed == err \notin {"none", "cancelled"} /\ allow

Return ==
    /\ pc = "tried"
    /\ ~FallbackAllowed \/ Len(Chain) = 1
    /\ pc' = "done"
    /\ UNCHANGED <<ctxVars, poolVars, loopVars, netVars, tryVars, trail, selected,
                   err, allow>>

(* Variant: the context is not cleared for the fallback. *)
NextFallbackKeepsPin ==
    /\ (pc = "tried" /\ FallbackAllowed) \/ pc = "skipped"
    /\ index < Len(Chain)
    /\ index' = index + 1
    /\ primaryErr' = IF index = 1 THEN err ELSE primaryErr
    /\ trail' = <<>> /\ streamClosed' = FALSE
    /\ pc' \in {"try", "skipped"}
    /\ UNCHANGED <<ctxVars, poolVars, loopVars, teardown, selected, err, allow>>

(* clearCtxForFallback and prepareFallbackRequest, which skips a provider  *)
(* that is not configured.                                                 *)
NextFallback ==
    /\ (pc = "tried" /\ FallbackAllowed) \/ pc = "skipped"
    /\ index < Len(Chain)
    /\ index' = index + 1
    /\ primaryErr' = IF index = 1 THEN err ELSE primaryErr
    /\ pin' = NoKey /\ trail' = <<>> /\ streamClosed' = FALSE
    /\ pc' \in {"try", "skipped"}
    /\ UNCHANGED <<session, stream, disturbed, poolVars, loopVars, teardown, selected,
                   err, allow>>

AllFailed ==
    /\ (pc = "tried" /\ FallbackAllowed) \/ pc = "skipped"
    /\ index = Len(Chain) /\ index > 1
    /\ err' = primaryErr /\ pc' = "done"
    /\ UNCHANGED <<ctxVars, poolVars, loopVars, netVars, tryVars, trail, selected,
                   allow>>

Next == \/ Refused \/ ShortCircuited \/ BuildPool \/ PinUnknown
        \/ SelectKey \/ KeepKey \/ SelectionFails
        \/ Succeed \/ Fail \/ FirstChunkFails \/ TearDown \/ Drained
        \/ GiveUp \/ Retry \/ PostHooks
        \/ Return \/ NextFallback \/ AllFailed

Spec == Init /\ [][Next]_vars

(* Every step is one of a running goroutine; provider calls end because    *)
(* every adapter sets a request timeout.                                   *)
FairSpec == Spec /\ WF_vars(Next)

-----------------------------------------------------------------------------
Tried(reasons, k) == {i \in 1..Len(trail) :
                         trail[i].key = k /\ trail[i].reason \in reasons}

(* deadKeyIDs "is never reset within this request": whatever happens in    *)
(* between, no later attempt at this provider uses a key that was refused  *)
(* with 401, 402 or 403.                                                   *)
DeadKeyStaysDead ==
    \A i, j \in 1..Len(trail) :
        i < j /\ trail[i].reason \in Permanent => trail[j].key # trail[i].key

(* 502 upstream_credentials_exhausted is reported only when each key that  *)
(* could have been used was refused for good in this very loop.            *)
ExhaustedMeansDead ==
    pc = "hooks" /\ err = "exhausted" =>
        \A k \in pool : Tried(Permanent, k) # {}

(* A key that failed for good is out, and only all of them out are none.   *)
DeadKeys == DeadKeyStaysDead /\ ExhaustedMeansDead

(* The rounds of usedKeyIDs share rate-limit failures out: no live key of  *)
(* a rotating pool is rate limited twice more than another, unless a       *)
(* filter suppressed keys.                                                 *)
BalancedRotation ==
    rotate /\ "filter" \notin disturbed => \A k, l \in pool \ dead :
        Cardinality(Tried({"quota"}, k)) <= Cardinality(Tried({"quota"}, l)) + 1

(* TriggeredRotation is set on exactly the attempts after whose per-key    *)
(* failure a different key was used.                                       *)
RotationIsTrue ==
    \A i \in 1..Len(trail) :
        trail[i].rotated <=> /\ i < Len(trail)
                             /\ trail[i].reason \in PerKey
                             /\ trail[i + 1].key # trail[i].key

(* "Network/5xx errors reuse the same key".                                *)
TransientKeepsKey ==
    \A i \in 1..Len(trail) :
        i < Len(trail) /\ trail[i].reason \in Transient =>
            trail[i + 1].key = trail[i].key

(* Backoff is skipped only after a credential that cannot come back has    *)
(* really been replaced; a 429 and a 5xx are always waited for.            *)
BackoffUnlessReplaced ==
    pc = "call" /\ attempt > 0 /\ ~slept =>
        /\ Len(trail) > 1
        /\ trail[Len(trail) - 1].reason \in Permanent
        /\ trail[Len(trail) - 1].key # key

(* What the trail and the backoff tell is what happened.                   *)
TruthfulTrail == RotationIsTrue /\ TransientKeepsKey /\ BackoffUnlessReplaced

(* selected_key "only reflects a key that actually served a successful     *)
(* response": the answer the caller gets came from the attempt it names,   *)
(* as long as no post-hook turned an answer into an error or back.         *)
SelectedServed ==
    "hook" \notin disturbed /\ pc = "done" /\ err = "none" /\ selected # NoKey =>
        trail # <<>> /\ selected = trail[Len(trail)].key

(* "selected_key_id / selected_key_name are populated only on a successful *)
(* response": no error, be it of a fallback or of the primary, names one.  *)
FailedUnattributed ==
    "hook" \notin disturbed /\ pc = "done" /\ err # "none" => selected = NoKey

(* The selected key names who served the answer, or nobody.                *)
Attribution == SelectedServed /\ FailedUnattributed

(* A retry or fallback does not "see its own fresh stream as already       *)
(* closed": no earlier stream can claim the flag once a call is made.      *)
FreshConnection == pc = "call" => ~streamClosed /\ ~teardown

(* Neither the caller's pinned key nor the session's key, both of which    *)
(* belong to the primary provider, narrows what a fallback may try.        *)
FallbackUsesAllKeys ==
    /\ index > 1 /\ pc \in {"select", "call"} => pool = Chain[index]
    /\ index > 1 /\ pc = "hooks" => err # "no_key"

(* What an attempt leaves in the shared context does not harm the next.    *)
FreshStart == FreshConnection /\ FallbackUsesAllKeys

(* After an attempt that ended in request_cancelled no attempt follows, be *)
(* it a retry with another key or a fallback.                              *)
CancelIsFinal == [](err = "cancelled" => [](pc # "call"))

(* Retries, rounds and fallbacks end.                                      *)
Terminates == <>(pc = "done")

(* A request ends, and a cancelled one makes no further call before.       *)
EndsOnce == CancelIsFinal /\ Terminates
=============================================================================
