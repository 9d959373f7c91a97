----------------------------- MODULE KVCluster -----------------------------
(***************************************************************************)
(* The in-memory key-value store (framework/kvstore) of several gateway    *)
(* processes and the replication between them (framework/cluster).  Every  *)
(* operation of the store touches one key, so the module follows one key.  *)
(* A call takes its time stamp first and the lock afterwards, and tells    *)
(* the peers after it has let the lock go: those are three steps, and      *)
(* other calls, messages and clock ticks come between them.  A message is  *)
(* sent once; it may be late, overtaken or lost.                           *)
(***************************************************************************)
EXTENDS Naturals

CONSTANTS Nodes,     \* gateway processes, peers of each other
          Callers,   \* goroutines that call the store
          Home,      \* the process each caller runs in
          Values,    \* what may be stored under the key
          Blank,     \* what a peer decodes from a message without a value
          NoEntry,   \* the key is not in the map
          TTL,       \* the time to live callers ask for (0: entries do not expire)
          MaxClock,  \* bound: the last time stamp
          MaxUpsets  \* bound: how often somebody closes or reconfigures something

ASSUME HomeAssumption == Home \in [Callers -> Nodes]
ASSUME ClockAssumption == TTL \in Nat /\ MaxClock \in Nat /\ MaxUpsets \in Nat
VARIABLES
  clock,    \* each node's wall clock
  data,     \* each node's entry for the key
  closed,   \* Store.closed
  enabled,  \* whether the store has the cluster delegate
  net,      \* replication messages on their way
  call,     \* what each caller has under way
  result,   \* what each caller's last call returned
  upsets,   \* how often somebody has closed or reconfigured something
  seen,     \* history: the messages each node has applied
  wrote     \* history: whether the node has had a local write or delete

kvVars == <<clock, data, closed, enabled, net, call, result, upsets, seen, wrote>>

Stamps == 0 .. MaxClock + TTL
Entries == [value : Values \union {Blank}, at : Stamps, expires : Stamps]
ASSUME EntryAssumption == NoEntry \notin Entries
Ops == {"get", "set", "setnx", "delete", "take"}
Idle == [op |-> "get", phase |-> "idle", value |-> Blank, stamp |-> 0, json |-> FALSE]
Calls == [op : Ops, phase : {"idle", "stamped", "purge", "notify"}, value : Values \union {Blank},
          stamp : 0 .. MaxClock, json : BOOLEAN]
Updates == [op : {"set"}, value : Values \union {Blank}, at : Stamps, expires : Stamps]
           \union [op : {"delete"}, at : Stamps]
Outcomes == {"none", "closed", "missing", "ok", "exists"} \union Values \union {Blank}

KVTypeOK ==
  /\ clock \in [Nodes -> 0 .. MaxClock]
  /\ data \in [Nodes -> Entries \union {NoEntry}]
  /\ closed \in [Nodes -> BOOLEAN]
  /\ enabled \in [Nodes -> BOOLEAN]
  /\ net \subseteq Nodes \X Updates
  /\ call \in [Callers -> Calls]
  /\ result \in [Callers -> Outcomes]
  /\ upsets \in 0 .. MaxUpsets
  /\ seen \in [Nodes -> SUBSET Updates]
  /\ wrote \in [Nodes -> BOOLEAN]

-----------------------------------------------------------------------------
\* isExpired: 0 stands for "no expiration".
Expired(e, now) == e.expires # 0 /\ now >= e.expires

ExpiryOf(stamp) == IF TTL > 0 THEN stamp + TTL ELSE 0

KVInit ==
  /\ clock = [n \in Nodes |-> 0]
  /\ data = [n \in Nodes |-> NoEntry]
  /\ closed = [n \in Nodes |-> FALSE]
  /\ \E on \in BOOLEAN : enabled = [n \in Nodes |-> on]
  /\ net = {}
  /\ call = [c \in Callers |-> Idle]
  /\ result = [c \in Callers |-> "none"]
  /\ upsets = 0
  /\ seen = [n \in Nodes |-> {}]
  /\ wrote = [n \in Nodes |-> FALSE]

Return(c, r) ==
  /\ call' = [call EXCEPT ![c] = Idle]
  /\ result' = [result EXCEPT ![c] = r]

Goes(c, phase) == call' = [call EXCEPT ![c].phase = phase]

Here(c, op, phase) == call[c].op = op /\ call[c].phase = phase

\* The beginning of every call: a closed store refuses it; otherwise the time
\* is read, and a set marshals its value if the store has a delegate.
Begin(c, op, v) ==
  LET n == Home[c] IN
  /\ call[c] = Idle
  /\ IF closed[n]
       THEN Return(c, "closed")
       ELSE /\ call' = [call EXCEPT ![c] = [op |-> op, phase |-> "stamped", value |-> v,
                                            stamp |-> clock[n], json |-> enabled[n]]]
            /\ UNCHANGED result
  /\ UNCHANGED <<clock, data, closed, enabled, net, upsets, seen, wrote>>

\* Get under the read lock.
GetReads(c) ==
  LET e == data[Home[c]] IN
  /\ Here(c, "get", "stamped")
  /\ \/ e = NoEntry /\ Return(c, "missing")
     \/ e # NoEntry /\ ~Expired(e, call[c].stamp) /\ Return(c, e.value)
     \/ e # NoEntry /\ Expired(e, call[c].stamp) /\ Goes(c, "purge") /\ UNCHANGED result
  /\ UNCHANGED <<clock, data, closed, enabled, net, upsets, seen, wrote>>

\* What a Get of an expired entry, and the cleanup, may remove from node n.
Purged(n) == IF data[n] # NoEntry /\ Expired(data[n], clock[n]) THEN NoEntry ELSE data[n]

\* Get takes the write lock to remove the expired entry, and looks again.
GetPurges(c) ==
  /\ Here(c, "get", "purge")
  /\ data' = [data EXCEPT ![Home[c]] = Purged(Home[c])]
  /\ Return(c, "missing")
  /\ UNCHANGED <<clock, closed, enabled, net, upsets, seen, wrote>>

Written(c) == [value |-> call[c].value, at |-> call[c].stamp, expires |-> ExpiryOf(call[c].stamp)]

Stores(c, e) ==
  /\ data' = [data EXCEPT ![Home[c]] = e]
  /\ wrote' = [wrote EXCEPT ![Home[c]] = TRUE]
  /\ Goes(c, "notify")
  /\ UNCHANGED <<clock, closed, enabled, net, upsets, seen, result>>

Refuses(c, r) ==
  /\ Return(c, r)
  /\ UNCHANGED <<clock, data, closed, enabled, net, upsets, seen, wrote>>

\* SetWithTTL under the lock: whatever is there is replaced.
SetStores(c) == Here(c, "set", "stamped") /\ Stores(c, Written(c))

\* SetNXWithTTL under the lock: only over nothing, or over what has expired.
SetNXStores(c) ==
  LET e == data[Home[c]] IN
  /\ Here(c, "setnx", "stamped")
  /\ IF e # NoEntry /\ ~Expired(e, call[c].stamp)
       THEN Refuses(c, "exists")
       ELSE Stores(c, Written(c))

DeleteStores(c) ==
  /\ Here(c, "delete", "stamped")
  /\ IF data[Home[c]] = NoEntry THEN Refuses(c, "missing") ELSE Stores(c, NoEntry)

\* Variant: as if the record were read under the lock and deleted later, by nobody.
TakeReads(c) ==
  LET e == data[Home[c]] IN
  /\ Here(c, "take", "stamped")
  /\ IF e = NoEntry \/ Expired(e, call[c].stamp) THEN Return(c, "missing") ELSE Return(c, e.value)
  /\ UNCHANGED <<clock, data, closed, enabled, net, upsets, seen, wrote>>

\* GetAndDelete: an expired entry is removed too, but the peers are not told.
TakeStores(c) ==
  LET e == data[Home[c]] IN
  /\ Here(c, "take", "stamped")
  /\ \/ e = NoEntry /\ Refuses(c, "missing")
     \/ /\ e # NoEntry /\ Expired(e, call[c].stamp)
        /\ data' = [data EXCEPT ![Home[c]] = NoEntry]
        /\ wrote' = [wrote EXCEPT ![Home[c]] = TRUE]
        /\ Return(c, "missing")
        /\ UNCHANGED <<clock, closed, enabled, net, upsets, seen>>
     \/ /\ e # NoEntry /\ ~Expired(e, call[c].stamp)
        /\ data' = [data EXCEPT ![Home[c]] = NoEntry]
        /\ wrote' = [wrote EXCEPT ![Home[c]] = TRUE]
        /\ call' = [call EXCEPT ![c].phase = "notify", ![c].value = e.value]
        /\ UNCHANGED <<clock, closed, enabled, net, upsets, seen, result>>

\* The update as the peers will read it.  The delegate is looked at again: when
\* it was installed after the value should have been marshalled, the message
\* carries no value.
Update(c) ==
  IF call[c].op \in {"set", "setnx"}
    THEN [op |-> "set", value |-> IF call[c].json THEN call[c].value ELSE Blank,
          at |-> call[c].stamp, expires |-> ExpiryOf(call[c].stamp)]
    ELSE [op |-> "delete", at |-> call[c].stamp]

Peers(n) == Nodes \ {n}

\* OnSet, OnDelete and fanOut: one attempt at each peer.  fanOut waits for the
\* attempts, but gives up after its timeout, so a message may outlive the call.
Notify(c) ==
  LET n == Home[c] IN
  /\ call[c].phase = "notify"
  /\ net' = IF enabled[n] THEN net \union (Peers(n) \X {Update(c)}) ELSE net
  /\ Return(c, IF call[c].op = "take" THEN call[c].value ELSE "ok")
  /\ UNCHANGED <<clock, data, closed, enabled, upsets, seen, wrote>>

-----------------------------------------------------------------------------
(* The receiving side: ApplyReplication. *)

\* SetRemote and DeleteRemote keep a local entry that is newer than the update.
Newer(n, u) == data[n] # NoEntry /\ data[n].at > u.at

\* Variant: as if only a set were compared with what is there.
AppliedBlindly(n, u) ==
  IF u.op = "delete" THEN NoEntry
  ELSE IF Newer(n, u) THEN data[n]
  ELSE [value |-> u.value, at |-> u.at, expires |-> u.expires]

Applied(n, u) ==
  IF Newer(n, u) THEN data[n]
  ELSE IF u.op = "set" THEN [value |-> u.value, at |-> u.at, expires |-> u.expires]
  ELSE NoEntry

\* A message whose request failed, or whose receiver is closed, is never delivered:
\* nobody retries.
Deliver(n, u) ==
  /\ <<n, u>> \in net /\ ~closed[n]
  /\ net' = net \ {<<n, u>>}
  /\ data' = [data EXCEPT ![n] = Applied(n, u)]
  /\ seen' = [seen EXCEPT ![n] = @ \union {u}]
  /\ UNCHANGED <<clock, closed, enabled, call, result, wrote, upsets>>

-----------------------------------------------------------------------------
\* An administrator's action; MaxUpsets bounds them.
Upset == upsets < MaxUpsets /\ upsets' = upsets + 1

\* The cleanup loop's tick.
Cleanup(n) ==
  /\ ~closed[n]
  /\ Purged(n) # data[n]
  /\ data' = [data EXCEPT ![n] = Purged(n)]
  /\ UNCHANGED <<clock, closed, enabled, net, call, result, upsets, seen, wrote>>

\* Close: calls that have passed the check go on.
Close(n) ==
  /\ ~closed[n] /\ Upset
  /\ closed' = [closed EXCEPT ![n] = TRUE]
  /\ UNCHANGED <<clock, data, enabled, net, call, result, seen, wrote>>

\* SyncDelegate.Configure, on a configuration reload.
Configure(n) ==
  /\ Upset
  /\ enabled' = [enabled EXCEPT ![n] = ~@]
  /\ UNCHANGED <<clock, data, closed, net, call, result, seen, wrote>>

Tick(n) ==
  /\ clock[n] < MaxClock
  /\ clock' = [clock EXCEPT ![n] = @ + 1]
  /\ UNCHANGED <<data, closed, enabled, net, call, result, upsets, seen, wrote>>

BeginAny(c) ==
  \/ \E op \in {"get", "delete", "take"} : Begin(c, op, Blank)
  \/ \E op \in {"set", "setnx"}, v \in Values : Begin(c, op, v)

CallSteps(c) ==
  \/ GetReads(c)    \/ GetPurges(c)
  \/ SetStores(c)   \/ SetNXStores(c)
  \/ DeleteStores(c) \/ TakeStores(c)
  \/ Notify(c)

\* What happens whether or not anybody calls the store.
Background ==
  \/ \E m \in net : Deliver(m[1], m[2])
  \/ \E n \in Nodes : Cleanup(n) \/ Close(n) \/ Configure(n) \/ Tick(n)

\* Somebody reconfigures something the store does not know of.
Elsewhere == Upset /\ UNCHANGED <<clock, data, closed, enabled, net, call, result, seen, wrote>>

KVNext ==
  \/ \E c \in Callers : BeginAny(c) \/ CallSteps(c)
  \/ Background
  \/ Elsewhere

KVSpec == KVInit /\ [][KVNext]_kvVars

-----------------------------------------------------------------------------
\* Updates that came strictly after every other one the node has applied.
Newest(n, u) == u \in seen[n] /\ \A w \in seen[n] \ {u} : w.at < u.at

\* The last writer wins on every node that only listens: whatever the order in
\* which the updates arrived, and whatever was late or deleted, the newest write
\* it has applied is what it holds, until that write's own expiry.
\* (kvstore.go:59-62, the guards of SetRemote and DeleteRemote)
NewestWriteWins ==
  \A n \in Nodes : \A u \in seen[n] :
    ~wrote[n] /\ Newest(n, u) /\ u.op = "set" /\ ~Expired(u, clock[n])
      => data[n] = [value |-> u.value, at |-> u.at, expires |-> u.expires]
=============================================================================
