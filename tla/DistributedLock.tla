---------------------------- MODULE DistributedLock ----------------------------
(***************************************************************************)
(* The lease lock of framework/configstore/dlock.go over the table         *)
(* distributed_locks, for one lock key.  Several instances, each with its  *)
(* own clock, run Lock / LockWithRetry, Extend, IsHeld and Unlock; each is *)
(* a sequence of single SQL statements whose time parameters were read     *)
(* before the statement runs.                                              *)
(***************************************************************************)
EXTENDS Naturals

CONSTANTS
    Holders,     \* one member per DistributedLock object (a fresh UUID each)
    NoHolder,    \* the row does not exist
    TTL,         \* lease time
    MaxSkew,     \* how far apart the clocks of two instances may be
    MaxRetries,  \* maxRetries of Lock / LockWithRetry
    MaxTime      \* bound on the time a behaviour covers

ASSUME LockAssumption ==
    /\ NoHolder \notin Holders
    /\ TTL \in Nat /\ MaxSkew \in Nat /\ MaxRetries \in Nat /\ MaxTime \in Nat

VARIABLES
    now,       \* time since some epoch
    offset,    \* how much an instance's clock is ahead of now
    owner,     \* holder_id of the row
    expires,   \* expires_at of the row
    pc,        \* step of the operation each instance is in
    attempt,   \* i in the retry loop
    stamp,     \* the time.Now() the next statement was given
    acquired,  \* l.acquired
    lease      \* history: the expiry the instance was last told it has

clockVars == <<now, offset>>
rowVars   == <<owner, expires>>
vars == <<clockVars, rowVars, pc, attempt, stamp, acquired, lease>>

Clock(h) == now + offset[h]

TypeOK ==
    /\ now \in Nat /\ offset \in [Holders -> 0..MaxSkew]
    /\ owner \in Holders \cup {NoHolder} /\ expires \in Nat
    /\ pc \in [Holders -> {"idle", "clean", "insert", "sleep", "held",
                           "extend", "dead"}]
    /\ attempt \in [Holders -> 0..MaxRetries]
    /\ stamp \in [Holders -> Nat] /\ lease \in [Holders -> Nat]
    /\ acquired \in [Holders -> BOOLEAN]

Init ==
    /\ now = 0 /\ offset \in [Holders -> 0..MaxSkew]
    /\ owner = NoHolder /\ expires = 0
    /\ pc = [h \in Holders |-> "idle"]
    /\ attempt = [h \in Holders |-> 0]
    /\ stamp = [h \in Holders |-> 0]
    /\ acquired = [h \in Holders |-> FALSE]
    /\ lease = [h \in Holders |-> 0]

Tick ==
    /\ now < MaxTime
    /\ now' = now + 1
    /\ UNCHANGED <<offset, rowVars, pc, attempt, stamp, acquired, lease>>

-----------------------------------------------------------------------------
(* The row.  A statement that reports an error may have taken effect or    *)
(* not: Attempted(S) is a statement S whose outcome is not known.          *)

DeleteRow == owner' = NoHolder /\ expires' = 0

(* Variant: the comparison also removes a row in its last instant. *)
CleanupAtExpiry(s) ==
    IF owner # NoHolder /\ expires <= s THEN DeleteRow ELSE UNCHANGED rowVars

(* CleanupExpiredLockByKey: ... AND expires_at < s.                        *)
Cleanup(s) ==
    IF owner # NoHolder /\ expires < s THEN DeleteRow ELSE UNCHANGED rowVars

(* TryAcquireLock: INSERT ... ON CONFLICT DO NOTHING.                      *)
Insert(h) == owner = NoHolder /\ owner' = h /\ expires' = stamp[h] + TTL

(* UpdateLockExpiry: ... AND holder_id = h AND expires_at > s, where s is  *)
(* read after the new expiry was computed.                                 *)
Extendable(h) == owner = h /\ \E s \in stamp[h]..Clock(h) : expires > s
Refused(h)    == owner # h \/ \E s \in stamp[h]..Clock(h) : expires <= s
SetExpiry(h)  == owner' = owner /\ expires' = stamp[h] + TTL

(* Variant: deletes the row whoever holds it. *)
ReleaseAny(h) == IF owner # NoHolder THEN DeleteRow ELSE UNCHANGED rowVars

(* ReleaseLock: ... AND holder_id = h.                                     *)
Release(h) == IF owner = h THEN DeleteRow ELSE UNCHANGED rowVars

-----------------------------------------------------------------------------
(* Lock and LockWithRetry.                                                 *)

(* The operation goes on, with the time s for its next statement...        *)
Goto(h, step, s) ==
    /\ pc' = [pc EXCEPT ![h] = step]
    /\ stamp' = [stamp EXCEPT ![h] = s]

(* ...or ends, and its locals with it.                                     *)
Finish(h, step) ==
    /\ Goto(h, step, 0)
    /\ attempt' = [attempt EXCEPT ![h] = 0]
    /\ lease' = [lease EXCEPT ![h] = IF step = "held" THEN @ ELSE 0]

LockBegin(h) ==
    /\ pc[h] = "idle"
    /\ Goto(h, "clean", Clock(h))
    /\ UNCHANGED <<clockVars, rowVars, attempt, acquired, lease>>

(* The error of the cleanup is only logged; then ExpiresAt is computed.    *)
TryClean(h) ==
    /\ pc[h] = "clean"
    /\ Cleanup(stamp[h]) \/ UNCHANGED rowVars
    /\ Goto(h, "insert", Clock(h))
    /\ UNCHANGED <<clockVars, attempt, acquired, lease>>

TryAcquired(h) ==
    /\ pc[h] = "insert" /\ Insert(h)
    /\ Goto(h, "held", 0)
    /\ attempt' = [attempt EXCEPT ![h] = 0]
    /\ acquired' = [acquired EXCEPT ![h] = TRUE]
    /\ lease' = [lease EXCEPT ![h] = stamp[h] + TTL]
    /\ UNCHANGED clockVars

(* Variant: does not count the attempt. *)
TryRejectedUncounted(h) ==
    /\ pc[h] = "insert" /\ owner # NoHolder
    /\ Goto(h, "sleep", 0)
    /\ UNCHANGED <<clockVars, rowVars, attempt, acquired, lease>>

(* Variant: one retry more than configured. *)
TryRejectedOnceMore(h) ==
    /\ pc[h] = "insert" /\ owner # NoHolder /\ attempt[h] <= MaxRetries
    /\ Goto(h, "sleep", 0)
    /\ attempt' = [attempt EXCEPT ![h] = @ + 1]
    /\ UNCHANGED <<clockVars, rowVars, acquired, lease>>

TryRejected(h) ==
    /\ pc[h] = "insert" /\ owner # NoHolder /\ attempt[h] < MaxRetries
    /\ Goto(h, "sleep", 0)
    /\ attempt' = [attempt EXCEPT ![h] = @ + 1]
    /\ UNCHANGED <<clockVars, rowVars, acquired, lease>>

(* ErrLockNotAcquired after the last attempt, or the end of the context    *)
(* while waiting for the next.                                             *)
LockGivesUp(h) ==
    /\ \/ pc[h] = "insert" /\ owner # NoHolder /\ attempt[h] = MaxRetries
       \/ pc[h] = "sleep"
    /\ Finish(h, "idle")
    /\ UNCHANGED <<clockVars, rowVars, acquired>>

(* Lock returns the error: the row may have been inserted all the same.    *)
TryFailed(h) ==
    /\ pc[h] = "insert"
    /\ Insert(h) \/ UNCHANGED rowVars
    /\ Finish(h, "idle")
    /\ UNCHANGED <<clockVars, acquired>>

Wake(h) ==
    /\ pc[h] = "sleep"
    /\ Goto(h, "clean", Clock(h))
    /\ UNCHANGED <<clockVars, rowVars, attempt, acquired, lease>>

-----------------------------------------------------------------------------
(* The holder.                                                             *)

ExtendBegin(h) ==
    /\ pc[h] = "held"
    /\ Goto(h, "extend", Clock(h))
    /\ UNCHANGED <<clockVars, rowVars, attempt, acquired, lease>>

Extended(h) ==
    /\ pc[h] = "extend" /\ Extendable(h) /\ SetExpiry(h)
    /\ Goto(h, "held", 0)
    /\ lease' = [lease EXCEPT ![h] = stamp[h] + TTL]
    /\ UNCHANGED <<clockVars, attempt, acquired>>

(* ErrLockNotHeld: the local state is cleared.                             *)
NotExtended(h) ==
    /\ pc[h] = "extend" /\ Refused(h)
    /\ Finish(h, "idle")
    /\ acquired' = [acquired EXCEPT ![h] = FALSE]
    /\ UNCHANGED <<clockVars, rowVars>>

(* A transient error leaves the local state alone.                         *)
ExtendFailed(h) ==
    /\ pc[h] = "extend"
    /\ (Extendable(h) /\ SetExpiry(h)) \/ UNCHANGED rowVars
    /\ Finish(h, "held")
    /\ UNCHANGED <<clockVars, acquired>>

(* IsHeld finds the row gone, someone else's, or past its expiry.          *)
FoundLost(h) ==
    /\ pc[h] = "held" /\ (owner # h \/ Clock(h) > expires)
    /\ Finish(h, "idle")
    /\ acquired' = [acquired EXCEPT ![h] = FALSE]
    /\ UNCHANGED <<clockVars, rowVars>>

(* Unlock, at the end of the critical section or again after an error.     *)
Unlock(h) ==
    /\ pc[h] \in {"held", "idle"} /\ acquired[h]
    /\ Release(h)
    /\ Finish(h, "idle")
    /\ acquired' = [acquired EXCEPT ![h] = FALSE]
    /\ UNCHANGED clockVars

UnlockFailed(h) ==
    /\ pc[h] \in {"held", "idle"} /\ acquired[h]
    /\ Release(h) \/ UNCHANGED rowVars
    /\ Finish(h, "idle")
    /\ UNCHANGED <<clockVars, acquired>>

(* The instance dies; after a restart its locks have new holder IDs.       *)
Crash(h) ==
    /\ pc[h] # "dead"
    /\ Finish(h, "dead")
    /\ acquired' = [acquired EXCEPT ![h] = FALSE]
    /\ UNCHANGED <<clockVars, rowVars>>

TryLock(h) == \/ TryClean(h) \/ TryAcquired(h) \/ TryRejected(h)
              \/ LockGivesUp(h) \/ TryFailed(h) \/ Wake(h)
Hold(h) == \/ ExtendBegin(h) \/ Extended(h) \/ NotExtended(h) \/ ExtendFailed(h)
           \/ FoundLost(h) \/ Unlock(h) \/ UnlockFailed(h)

Next == \/ Tick
        \/ \E h \in Holders :
              LockBegin(h) \/ TryLock(h) \/ Hold(h) \/ Crash(h)

Spec == Init /\ [][Next]_vars

(* Statements return and waits end; nobody has to call anything.           *)
FairSpec == Spec /\ \A h \in Holders : WF_vars(TryLock(h))

-----------------------------------------------------------------------------
(* Between the return of Lock and the call of Unlock.                      *)
Holding(h) == pc[h] \in {"held", "extend"}

(* By its own clock, h is further from the expiry it was told than two     *)
(* clocks can be apart.                                                    *)
Safe(h) == Holding(h) /\ Clock(h) + MaxSkew <= lease[h]

(* A holder that stops MaxSkew before its lease runs out is protected: the *)
(* row is its own, and no other holder is in that state, whatever cleanups,*)
(* extensions and releases are on their way with stale times and errors.   *)
LeaseIsExclusive ==
    \A h \in Holders : Safe(h) => owner = h /\ expires >= lease[h]

MutualExclusion == \A h, k \in Holders : Safe(h) /\ Safe(k) => h = k

(* A row is removed, or passes to another, only by its holder's Unlock or  *)
(* after it has expired by the clock of the one who removes it: an Unlock  *)
(* that comes after the lease was lost leaves the next holder's row alone. *)
RowsEndOnce ==
    [][owner # NoHolder /\ owner' # owner =>
         \/ expires < now + MaxSkew
         \/ acquired[owner] /\ pc'[owner] = "idle"]_vars

(* Every Lock and LockWithRetry returns, however others hold the lock, as  *)
(* the number of attempts is bounded.                                      *)
LockReturns ==
    \A h \in Holders :
        pc[h] \in {"clean", "insert", "sleep"}
            ~> pc[h] \in {"idle", "held", "dead"}
=============================================================================
