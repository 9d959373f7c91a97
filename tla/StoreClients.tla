---------------------------- MODULE StoreClients ----------------------------
(***************************************************************************)
(* The two programs that share the key-value store.  A key of the store is *)
(* either the pin of a session (selectKeyFromProviderForModelWithPool      *)
(* keeps there the API key the session uses) or the record of a resumable  *)
(* upload (one request leaves it, the request with the data takes it).     *)
(* Each caller of KVCluster is one request, and between the calls it makes *)
(* to the store come other requests, key edits and replicated updates.     *)
(***************************************************************************)
EXTENDS KVCluster, FiniteSets

CONSTANT Initiator   \* the request that opens the upload

Keys == Values       \* a pin holds the ID of an API key

ASSUME LifetimeAssumption == TTL > 0   \* sessions and uploads always expire
ASSUME InitiatorAssumption == Initiator \in Callers
\* An error of the store is no value.
ASSUME ValueAssumption ==
  (Values \union {Blank}) \cap {"none", "closed", "missing", "ok", "exists"} = {}

VARIABLES
  usage,     \* what the key is: "session" or "upload"
  supported, \* the API keys each node's configuration offers for the model
  pc,        \* where each request is
  pool,      \* the API keys a request was offered when it began
  choice,    \* the API key, or the upload record, a request has got
  fresh      \* history: the request began after its node's last key edit

clientVars == <<usage, supported, pc, pool, choice, fresh>>
vars == <<clock, data, closed, enabled, net, call, result, upsets, seen, wrote,
          usage, supported, pc, pool, choice, fresh>>

None == "none"

ClientTypeOK ==
  /\ usage \in {"session", "upload"}
  /\ supported \in [Nodes -> SUBSET Keys]
  /\ pc \in [Callers -> {"start", "look", "renew", "drop", "pin", "reread", "dropLost",
                         "open", "take", "done"}]
  /\ pool \in [Callers -> SUBSET Keys]
  /\ choice \in [Callers -> Keys \union {None}]
  /\ fresh \in [Callers -> BOOLEAN]

\* Every variable is well formed; a request that has got something has got an
\* API key or a record, never an error of the store or bytes that are none.
TypeOK == KVTypeOK /\ ClientTypeOK

Init ==
  /\ KVInit
  /\ usage \in {"session", "upload"}
  /\ supported = [n \in Nodes |-> Keys]
  /\ pc = [r \in Callers |-> "start"]
  /\ pool = [r \in Callers |-> {}]
  /\ choice = [r \in Callers |-> None]
  /\ fresh = [r \in Callers |-> FALSE]

-----------------------------------------------------------------------------
At(r, here) == pc[r] = here /\ call[r] = Idle

To(r, there) == pc' = [pc EXCEPT ![r] = there]

Gets(r, k) == choice' = [choice EXCEPT ![r] = k]

\* The store is left alone.
NoCall == UNCHANGED kvVars

\* With a single key there is nothing to pin, with none the request fails.
Start(r) ==
  /\ usage = "session" /\ At(r, "start")
  /\ Cardinality(supported[Home[r]]) > 1
  /\ pool' = [pool EXCEPT ![r] = supported[Home[r]]]
  /\ fresh' = [fresh EXCEPT ![r] = TRUE]
  /\ Begin(r, "get", Blank)
  /\ To(r, "look")
  /\ UNCHANGED <<usage, supported, choice>>

\* getCachedKeyFromStore: the pin names a key of the pool, or one that is gone.
Found(r) == result[r] \in pool[r]
Stale(r) == result[r] \in Keys \ pool[r]

\* The key selector draws a key, and SetNX tries to pin it.
DrawAndPin(r) ==
  /\ \E k \in pool[r] : Gets(r, k) /\ Begin(r, "setnx", k)
  /\ To(r, "pin")

\* The pin in use is renewed, one that is gone is deleted, and where there is
\* none the request draws its own key.
Look(r) ==
  /\ At(r, "look")
  /\ \/ Found(r) /\ Gets(r, result[r]) /\ Begin(r, "set", result[r]) /\ To(r, "renew")
     \/ Stale(r) /\ Begin(r, "delete", Blank) /\ To(r, "drop") /\ UNCHANGED choice
     \/ ~Found(r) /\ ~Stale(r) /\ DrawAndPin(r)
  /\ UNCHANGED <<usage, supported, pool, fresh>>

Dropped(r) ==
  /\ At(r, "drop")
  /\ DrawAndPin(r)
  /\ UNCHANGED <<usage, supported, pool, fresh>>

\* The renewal, a pin that was set, one that could not be, and the removal of a
\* pin found stale after a lost race: the request goes with the key it has.
Settle(r) ==
  /\ \/ At(r, "renew")
     \/ At(r, "pin") /\ result[r] # "exists"
     \/ At(r, "dropLost")
  /\ To(r, "done")
  /\ NoCall
  /\ UNCHANGED <<usage, supported, pool, choice, fresh>>

\* Variant: as if a request that lost the race went with the key it had drawn.
PinLostKeepsOwn(r) ==
  /\ At(r, "pin") /\ result[r] = "exists"
  /\ To(r, "done")
  /\ NoCall
  /\ UNCHANGED <<usage, supported, pool, choice, fresh>>

\* Another request was faster: its pin is read.
PinLost(r) ==
  /\ At(r, "pin") /\ result[r] = "exists"
  /\ Begin(r, "get", Blank)
  /\ To(r, "reread")
  /\ UNCHANGED <<usage, supported, pool, choice, fresh>>

Reread(r) ==
  /\ At(r, "reread")
  /\ \/ Found(r) /\ Gets(r, result[r]) /\ To(r, "done") /\ NoCall
     \/ Stale(r) /\ Begin(r, "delete", Blank) /\ To(r, "dropLost") /\ UNCHANGED choice
     \/ ~Found(r) /\ ~Stale(r) /\ To(r, "done") /\ NoCall /\ UNCHANGED choice
  /\ UNCHANGED <<usage, supported, pool, fresh>>

\* The configuration of the provider's keys changes.
EditKeys(n) ==
  /\ usage = "session" /\ Elsewhere
  /\ \E keys \in SUBSET Keys : keys # supported[n] /\ supported' = [supported EXCEPT ![n] = keys]
  /\ fresh' = [r \in Callers |-> fresh[r] /\ Home[r] # n]
  /\ UNCHANGED <<usage, pc, pool, choice>>

-----------------------------------------------------------------------------
\* The first request of an upload leaves its record, the others, which carry the
\* data, take it.
Open(r) ==
  /\ usage = "upload" /\ r = Initiator /\ At(r, "start")
  /\ \E v \in Values : Begin(r, "set", v)
  /\ To(r, "open")
  /\ UNCHANGED <<usage, supported, pool, choice, fresh>>

Take(r) ==
  /\ usage = "upload" /\ r # Initiator /\ At(r, "start")
  /\ Begin(r, "take", Blank)
  /\ To(r, "take")
  /\ UNCHANGED <<usage, supported, pool, choice, fresh>>

\* Variant: as if neither the error of GetAndDelete nor the type were looked at.
EndUploadUnchecked(r) ==
  /\ At(r, "open") \/ At(r, "take")
  /\ Gets(r, result[r])
  /\ To(r, "done")
  /\ NoCall
  /\ UNCHANGED <<usage, supported, pool, fresh>>

\* What was taken must be a record.  A replicated one is: the decoder registered for
\* the prefix of the upload IDs makes it one again; but a message without a value
\* stays bytes, and is refused after it has been taken.
EndUpload(r) ==
  /\ At(r, "open") \/ At(r, "take")
  /\ IF result[r] \in Values THEN Gets(r, result[r]) ELSE UNCHANGED choice
  /\ To(r, "done")
  /\ NoCall
  /\ UNCHANGED <<usage, supported, pool, fresh>>

RequestSteps(r) ==
  \/ Start(r) \/ Look(r) \/ Dropped(r) \/ Settle(r) \/ PinLost(r) \/ Reread(r)
  \/ Open(r) \/ Take(r) \/ EndUpload(r)

Next ==
  \/ \E r \in Callers : RequestSteps(r)
  \/ \E n \in Nodes : EditKeys(n)
  \/ /\ (\E r \in Callers : CallSteps(r)) \/ Background
     /\ UNCHANGED clientVars

Spec == Init /\ [][Next]_vars

-----------------------------------------------------------------------------
SessionDone(r) == usage = "session" /\ pc[r] = "done"

\* Nothing but the session's own requests has touched the pin on node n: no key
\* edit since the first of them began, no replicated update, no expiry, no close.
Undisturbed(n) ==
  /\ \A r \in Callers : Home[r] = n /\ pc[r] # "start" => fresh[r]
  /\ seen[n] = {} /\ clock[n] < TTL /\ ~closed[n]

\* However the requests of a session race for the first pin, on an undisturbed
\* node they all end up with one key.
\* (unifai.go:8311-8313: the key is persisted on the first request and reused)
SessionsStick ==
  \A r, s \in Callers :
    SessionDone(r) /\ SessionDone(s) /\ Home[r] = Home[s] /\ Undisturbed(Home[r])
      => choice[r] = choice[s]

\* An upload's record is handed to one request of a node at most, however many
\* ask for it, on the initiator's node and on the others, and however late the
\* replicated record arrives.  (genai.go:410-418, GetAndDelete)
RecordTakenOnce ==
  \A r, s \in Callers :
    /\ usage = "upload" /\ Home[r] = Home[s] /\ r # s
    /\ choice[r] # None /\ choice[s] # None
    => FALSE
=============================================================================
