--------------------------- MODULE KVClusterProofs ---------------------------
(***************************************************************************)
(* The last writer wins on every listening node, for any set of nodes and  *)
(* callers, any time to live and any bounds; and the two programs of       *)
(* StoreClients use the store by its operations only, so that the same     *)
(* holds under them.  An upload's record is handed out once on each node,  *)
(* and the requests of a session get one key.                              *)
(***************************************************************************)
EXTENDS StoreClients, TLAPS

AsEntry(u) == [value |-> u.value, at |-> u.at, expires |-> u.expires]

\* What a listening node holds came with an update it has applied.
EntryWasSent ==
  \A n \in Nodes : ~wrote[n] /\ data[n] # NoEntry =>
    \E u \in seen[n] : u.op = "set" /\ data[n] = AsEntry(u)

\* An applied write that has not expired is still held, unless another applied
\* update is as new: an entry is only ever replaced by what is not older.
WriteHeldUnlessSuperseded ==
  \A n \in Nodes : \A u \in seen[n] :
    ~wrote[n] /\ u.op = "set" /\ ~Expired(u, clock[n]) =>
      \/ data[n] = AsEntry(u)
      \/ \E w \in seen[n] \ {u} : w.at >= u.at

KVInv == KVTypeOK /\ EntryWasSent /\ WriteHeldUnlessSuperseded

-----------------------------------------------------------------------------
\* Every state of the store is well formed.
LEMMA KVTypeInit == KVInit => KVTypeOK
  BY HomeAssumption, ClockAssumption
  DEF KVInit, KVTypeOK, Idle, Calls, Ops, Stamps, Outcomes

LEMMA ReturnType ==
  ASSUME NEW c \in Callers, NEW r \in Outcomes, Return(c, r),
         call \in [Callers -> Calls], result \in [Callers -> Outcomes]
  PROVE  call' \in [Callers -> Calls] /\ result' \in [Callers -> Outcomes]
<1>1. Idle \in Calls
  BY ClockAssumption DEF Idle, Calls, Ops
<1>. QED
  BY <1>1 DEF Return

LEMMA GoesType ==
  ASSUME NEW c \in Callers, NEW phase \in {"idle", "stamped", "purge", "notify"}, Goes(c, phase),
         call \in [Callers -> Calls]
  PROVE  call' \in [Callers -> Calls]
<1>1. [call[c] EXCEPT !.phase = phase] \in Calls
  BY DEF Calls
<1>. QED
  BY <1>1 DEF Goes

LEMMA WrittenType ==
  ASSUME NEW c \in Callers, call[c] \in Calls
  PROVE  Written(c) \in Entries /\ Update(c) \in Updates
  BY ClockAssumption DEF Written, Update, Updates, Entries, Stamps, Calls, ExpiryOf

LEMMA StoresType ==
  ASSUME NEW c \in Callers, NEW e \in Entries \union {NoEntry}, Stores(c, e), KVTypeOK
  PROVE  KVTypeOK'
<1>1. call' \in [Callers -> Calls]
  BY GoesType DEF Stores, KVTypeOK
<1>. QED
  BY <1>1, HomeAssumption DEF Stores, KVTypeOK

LEMMA BeginType ==
  ASSUME NEW c \in Callers, NEW op \in Ops, NEW v \in Values \union {Blank}, Begin(c, op, v),
         KVTypeOK
  PROVE  KVTypeOK'
<1>. DEFINE n == Home[c]
            new == [op |-> op, phase |-> "stamped", value |-> v, stamp |-> clock[n], json |-> enabled[n]]
<1>1. call' \in [Callers -> Calls] /\ result' \in [Callers -> Outcomes]
  <2>1. CASE closed[n]
    BY <2>1, ReturnType DEF Begin, KVTypeOK, Outcomes
  <2>2. CASE ~closed[n]
    <3>1. new \in Calls
      <4>1. clock[n] \in 0 .. MaxClock /\ enabled[n] \in BOOLEAN
        BY HomeAssumption DEF KVTypeOK
      <4>. QED
        BY <4>1 DEF Calls
    <3>. QED
      BY <2>2, <3>1 DEF Begin, KVTypeOK
  <2>. QED
    BY <2>1, <2>2
<1>. QED
  BY <1>1 DEF Begin, KVTypeOK

LEMMA KVTypeNext == KVTypeOK /\ [KVNext]_kvVars => KVTypeOK'
<1>. SUFFICES ASSUME KVTypeOK, [KVNext]_kvVars PROVE KVTypeOK'
  OBVIOUS
<1>1. ASSUME NEW c \in Callers, BeginAny(c) PROVE KVTypeOK'
  BY <1>1, BeginType DEF BeginAny, Ops
<1>2. ASSUME NEW c \in Callers, CallSteps(c) PROVE KVTypeOK'
  <2>. /\ call[c] \in Calls /\ Home[c] \in Nodes
       /\ data[Home[c]] \in Entries \union {NoEntry}
    BY HomeAssumption DEF KVTypeOK
  <2>1. CASE GetReads(c)
    <3>1. CASE Return(c, "missing")
      BY <2>1, <3>1, ReturnType DEF GetReads, KVTypeOK, Outcomes
    <3>2. CASE data[Home[c]] # NoEntry /\ Return(c, data[Home[c]].value)
      <4>1. data[Home[c]].value \in Outcomes
        BY <3>2 DEF Entries, Outcomes
      <4>. QED
        BY <2>1, <3>2, <4>1, ReturnType DEF GetReads, KVTypeOK
    <3>3. CASE Goes(c, "purge") /\ UNCHANGED result
      BY <2>1, <3>3, GoesType DEF GetReads, KVTypeOK
    <3>. QED
      BY <2>1, <3>1, <3>2, <3>3 DEF GetReads
  <2>2. CASE GetPurges(c)
    BY <2>2, ReturnType DEF GetPurges, Purged, KVTypeOK, Outcomes
  <2>3. CASE SetStores(c)
    BY <2>3, WrittenType, StoresType DEF SetStores
  <2>4. CASE SetNXStores(c)
    <3>1. CASE Refuses(c, "exists")
      BY <3>1, ReturnType DEF Refuses, KVTypeOK, Outcomes
    <3>2. CASE Stores(c, Written(c))
      BY <3>2, WrittenType, StoresType
    <3>. QED
      BY <2>4, <3>1, <3>2 DEF SetNXStores
  <2>5. CASE DeleteStores(c)
    <3>1. CASE Refuses(c, "missing")
      BY <3>1, ReturnType DEF Refuses, KVTypeOK, Outcomes
    <3>2. CASE Stores(c, NoEntry)
      BY <3>2, StoresType
    <3>. QED
      BY <2>5, <3>1, <3>2 DEF DeleteStores
  <2>6. CASE TakeStores(c)
    <3>. DEFINE e == data[Home[c]]
    <3>1. CASE Refuses(c, "missing")
      BY <3>1, ReturnType DEF Refuses, KVTypeOK, Outcomes
    <3>2. CASE e # NoEntry /\ Expired(e, call[c].stamp)
      BY <2>6, <3>2, ReturnType DEF TakeStores, Refuses, KVTypeOK, Outcomes
    <3>3. CASE e # NoEntry /\ ~Expired(e, call[c].stamp)
      <4>1. [call[c] EXCEPT !.phase = "notify", !.value = e.value] \in Calls
        BY <3>3 DEF Calls, Entries
      <4>2. call' = [call EXCEPT ![c] = [call[c] EXCEPT !.phase = "notify", !.value = e.value]]
        BY <2>6, <3>3 DEF TakeStores
      <4>3. call' \in [Callers -> Calls]
        BY <4>1, <4>2 DEF KVTypeOK
      <4>. QED
        BY <2>6, <3>3, <4>3 DEF TakeStores, KVTypeOK
    <3>. QED
      BY <2>6, <3>1, <3>2, <3>3 DEF TakeStores
  <2>7. CASE Notify(c)
    <3>1. (Peers(Home[c]) \X {Update(c)}) \subseteq Nodes \X Updates
      BY WrittenType DEF Peers
    <3>2. net' \subseteq Nodes \X Updates
      BY <2>7, <3>1 DEF Notify, KVTypeOK
    <3>3. (IF call[c].op = "take" THEN call[c].value ELSE "ok") \in Outcomes
      BY DEF Calls, Outcomes
    <3>4. call' \in [Callers -> Calls] /\ result' \in [Callers -> Outcomes]
      BY <2>7, <3>3, ReturnType DEF Notify, KVTypeOK
    <3>. QED
      BY <2>7, <3>2, <3>4 DEF Notify, KVTypeOK
  <2>. QED
    BY <1>2, <2>1, <2>2, <2>3, <2>4, <2>5, <2>6, <2>7 DEF CallSteps
<1>3. ASSUME NEW m \in net, Deliver(m[1], m[2]) PROVE KVTypeOK'
  <2>. /\ m[1] \in Nodes /\ m[2] \in Updates
    BY DEF KVTypeOK
  <2>1. Applied(m[1], m[2]) \in Entries \union {NoEntry}
    BY DEF Applied, Updates, Entries, KVTypeOK
  <2>. QED
    BY <1>3, <2>1 DEF Deliver, KVTypeOK
<1>4. ASSUME NEW n \in Nodes, Cleanup(n) \/ Close(n) \/ Configure(n) \/ Tick(n) PROVE KVTypeOK'
  <2>1. CASE Cleanup(n)
    BY <2>1 DEF Cleanup, Purged, KVTypeOK
  <2>2. CASE Close(n)
    BY <2>2, ClockAssumption DEF Close, Upset, KVTypeOK
  <2>3. CASE Configure(n)
    <3>1. enabled' \in [Nodes -> BOOLEAN]
      BY <2>3 DEF Configure, KVTypeOK
    <3>2. upsets' \in 0 .. MaxUpsets
      BY <2>3, ClockAssumption DEF Configure, Upset, KVTypeOK
    <3>. QED
      BY <2>3, <3>1, <3>2 DEF Configure, KVTypeOK
  <2>4. CASE Tick(n)
    BY <2>4, ClockAssumption DEF Tick, KVTypeOK
  <2>. QED
    BY <1>4, <2>1, <2>2, <2>3, <2>4
<1>5. CASE UNCHANGED kvVars
  BY <1>5 DEF kvVars, KVTypeOK
<1>6. CASE Elsewhere
  BY <1>6, ClockAssumption DEF Elsewhere, Upset, KVTypeOK
<1>. QED
  BY <1>1, <1>2, <1>3, <1>4, <1>5, <1>6 DEF KVNext, Background

THEOREM KVTypeCorrect == KVSpec => []KVTypeOK
  BY KVTypeInit, KVTypeNext, PTL DEF KVSpec

-----------------------------------------------------------------------------
\* Where a node's entry is left alone and its clock stands still, or its node
\* writes, the invariant is kept.
LEMMA UntouchedKeeps ==
  ASSUME EntryWasSent, WriteHeldUnlessSuperseded,
         seen' = seen, clock' = clock,
         \A n \in Nodes : wrote'[n] \/ (data'[n] = data[n] /\ wrote'[n] = wrote[n])
  PROVE  EntryWasSent' /\ WriteHeldUnlessSuperseded'
<1>1. EntryWasSent'
  BY DEF EntryWasSent, AsEntry
<1>2. WriteHeldUnlessSuperseded'
  BY DEF WriteHeldUnlessSuperseded, AsEntry, Expired
<1>. QED
  BY <1>1, <1>2

\* What has expired may go: it was no unexpired write.
LEMMA PurgeKeeps ==
  ASSUME KVTypeOK, EntryWasSent, WriteHeldUnlessSuperseded, NEW n \in Nodes,
         data' = [data EXCEPT ![n] = Purged(n)], seen' = seen, clock' = clock, wrote' = wrote
  PROVE  EntryWasSent' /\ WriteHeldUnlessSuperseded'
<1>0. \A m \in Nodes : data'[m] = data[m] \/ (data'[m] = NoEntry /\ Expired(data[m], clock[m]))
  BY DEF KVTypeOK, Purged
<1>1. EntryWasSent'
  BY <1>0 DEF EntryWasSent, AsEntry
<1>2. WriteHeldUnlessSuperseded'
  <2>. SUFFICES ASSUME NEW m \in Nodes, NEW u \in seen[m],
                       ~wrote[m], u.op = "set", ~Expired(u, clock[m]), data[m] = AsEntry(u)
                PROVE  data'[m] = AsEntry(u)
    BY DEF WriteHeldUnlessSuperseded, AsEntry, Expired
  <2>1. ~Expired(data[m], clock[m])
    BY DEF Expired, AsEntry
  <2>. QED
    BY <1>0, <2>1
<1>. QED
  BY <1>1, <1>2

LEMMA DeliverKeeps ==
  ASSUME KVTypeOK, EntryWasSent, WriteHeldUnlessSuperseded,
         NEW n \in Nodes, NEW u \in Updates, Deliver(n, u)
  PROVE  EntryWasSent' /\ WriteHeldUnlessSuperseded'
<1>. /\ clock' = clock /\ wrote' = wrote
     /\ \A m \in Nodes \ {n} : data'[m] = data[m] /\ seen'[m] = seen[m]
     /\ data'[n] = Applied(n, u) /\ seen'[n] = seen[n] \union {u}
  BY DEF Deliver, KVTypeOK
<1>1. EntryWasSent'
  <2>. SUFFICES ASSUME NEW m \in Nodes, ~wrote[m], data'[m] # NoEntry
                PROVE  \E w \in seen'[m] : w.op = "set" /\ data'[m] = AsEntry(w)
    BY DEF EntryWasSent, AsEntry
  <2>1. CASE m # n
    BY <2>1 DEF EntryWasSent
  <2>2. CASE m = n
    BY <2>2 DEF EntryWasSent, Applied, AsEntry, Newer
  <2>. QED
    BY <2>1, <2>2
<1>2. WriteHeldUnlessSuperseded'
  <2>. SUFFICES ASSUME NEW m \in Nodes, NEW w \in seen'[m],
                       ~wrote[m], w.op = "set", ~Expired(w, clock[m])
                PROVE  data'[m] = AsEntry(w) \/ \E x \in seen'[m] \ {w} : x.at >= w.at
    BY DEF WriteHeldUnlessSuperseded, AsEntry, Expired
  <2>1. CASE m # n
    BY <2>1 DEF WriteHeldUnlessSuperseded
  <2>2. CASE m = n /\ w = u
    <3>1. CASE Newer(n, u)
      <4>1. PICK x \in seen[n] : x.op = "set" /\ data[n] = AsEntry(x)
        BY <2>2, <3>1 DEF EntryWasSent, Newer
      <4>2. x.at > u.at
        BY <3>1, <4>1 DEF Newer, AsEntry
      <4>3. x \in Updates /\ x.at \in Nat /\ u.at \in Nat
        BY ClockAssumption DEF KVTypeOK, Updates, Stamps
      <4>. QED
        BY <2>2, <4>1, <4>2, <4>3
    <3>2. CASE ~Newer(n, u)
      BY <2>2, <3>2 DEF Applied, AsEntry
    <3>. QED
      BY <3>1, <3>2
  <2>3. CASE m = n /\ w # u
    <3>0. w \in seen[n]
      BY <2>3
    <3>1. CASE \E x \in seen[n] \ {w} : x.at >= w.at
      BY <2>3, <3>1
    <3>2. CASE data[n] = AsEntry(w) /\ ~Newer(n, u)
      <4>1. data[n] # NoEntry
        BY <3>0, <3>2, <2>3, EntryAssumption DEF KVTypeOK, Updates, Entries, AsEntry
      <4>2. u.at >= w.at
        BY <3>0, <3>2, <4>1, ClockAssumption DEF Newer, AsEntry, KVTypeOK, Updates, Stamps
      <4>. QED
        BY <2>3, <4>2
    <3>3. CASE data[n] = AsEntry(w) /\ Newer(n, u)
      BY <2>3, <3>3 DEF Applied
    <3>. QED
      BY <2>3, <3>0, <3>1, <3>2, <3>3 DEF WriteHeldUnlessSuperseded
  <2>. QED
    BY <2>1, <2>2, <2>3
<1>. QED
  BY <1>1, <1>2

LEMMA TickKeeps ==
  ASSUME KVTypeOK, EntryWasSent, WriteHeldUnlessSuperseded, NEW n \in Nodes, Tick(n)
  PROVE  EntryWasSent' /\ WriteHeldUnlessSuperseded'
<1>. UNCHANGED <<data, seen, wrote>>
  BY DEF Tick
<1>1. EntryWasSent'
  BY DEF EntryWasSent, AsEntry
<1>2. ASSUME NEW m \in Nodes, NEW u \in seen[m], u.op = "set", Expired(u, clock[m])
      PROVE  Expired(u, clock'[m])
  <2>1. u.expires \in Nat /\ clock[m] \in Nat
    BY <1>2, ClockAssumption DEF KVTypeOK, Updates, Stamps
  <2>2. clock'[m] \in Nat /\ clock'[m] >= clock[m]
    BY ClockAssumption DEF Tick, KVTypeOK
  <2>. QED
    BY <1>2, <2>1, <2>2 DEF Expired
<1>3. WriteHeldUnlessSuperseded'
  <2>. SUFFICES ASSUME NEW m \in Nodes, NEW u \in seen[m],
                       ~wrote[m], u.op = "set", ~Expired(u, clock'[m])
                PROVE  data[m] = AsEntry(u) \/ \E w \in seen[m] \ {u} : w.at >= u.at
    BY DEF WriteHeldUnlessSuperseded, AsEntry, Expired
  <2>. QED
    BY <1>2 DEF WriteHeldUnlessSuperseded
<1>. QED
  BY <1>1, <1>3

\* The calls of the node's own goroutines: those that change the entry make the
\* node a writer, a Get only removes what has expired.
LEMMA CallsKeep ==
  ASSUME KVTypeOK, EntryWasSent, WriteHeldUnlessSuperseded, NEW c \in Callers,
         BeginAny(c) \/ CallSteps(c)
  PROVE  EntryWasSent' /\ WriteHeldUnlessSuperseded'
<1>. Home[c] \in Nodes
  BY HomeAssumption
<1>1. CASE GetPurges(c)
  BY <1>1, PurgeKeeps DEF GetPurges
<1>2. ASSUME NEW e, Stores(c, e)
      PROVE  /\ seen' = seen /\ clock' = clock
             /\ \A n \in Nodes : wrote'[n] \/ (data'[n] = data[n] /\ wrote'[n] = wrote[n])
  BY <1>2 DEF Stores, KVTypeOK
<1>3. ASSUME ~GetPurges(c)
      PROVE  /\ seen' = seen /\ clock' = clock
             /\ \A n \in Nodes : wrote'[n] \/ (data'[n] = data[n] /\ wrote'[n] = wrote[n])
  <2>1. CASE BeginAny(c)
    BY <2>1 DEF BeginAny, Begin
  <2>2. CASE GetReads(c) \/ Notify(c)
    BY <2>2 DEF GetReads, Notify
  <2>3. CASE SetStores(c) \/ SetNXStores(c) \/ DeleteStores(c)
    BY <2>3, <1>2 DEF SetStores, SetNXStores, DeleteStores, Refuses
  <2>4. CASE TakeStores(c)
    BY <2>4 DEF TakeStores, Refuses, KVTypeOK
  <2>. QED
    BY <1>3, <2>1, <2>2, <2>3, <2>4 DEF CallSteps
<1>. QED
  BY <1>1, <1>3, UntouchedKeeps

LEMMA KVInvInit == KVInit => KVInv
  BY KVTypeInit DEF KVInit, KVInv, EntryWasSent, WriteHeldUnlessSuperseded

LEMMA KVInvNext == KVInv /\ [KVNext]_kvVars => KVInv'
<1>. SUFFICES ASSUME KVInv, [KVNext]_kvVars PROVE EntryWasSent' /\ WriteHeldUnlessSuperseded'
  BY KVTypeNext DEF KVInv
<1>. KVTypeOK /\ EntryWasSent /\ WriteHeldUnlessSuperseded
  BY DEF KVInv
<1>1. CASE \E c \in Callers : BeginAny(c) \/ CallSteps(c)
  BY <1>1, CallsKeep
<1>2. ASSUME NEW m \in net, Deliver(m[1], m[2]) PROVE EntryWasSent' /\ WriteHeldUnlessSuperseded'
  <2>. m[1] \in Nodes /\ m[2] \in Updates
    BY DEF KVTypeOK
  <2>. QED
    BY <1>2, DeliverKeeps
<1>3. ASSUME NEW n \in Nodes, Cleanup(n) \/ Close(n) \/ Configure(n) \/ Tick(n)
      PROVE  EntryWasSent' /\ WriteHeldUnlessSuperseded'
  <2>1. CASE Cleanup(n)
    BY <2>1, PurgeKeeps DEF Cleanup
  <2>2. CASE Close(n) \/ Configure(n)
    BY <2>2, UntouchedKeeps DEF Close, Configure
  <2>3. CASE Tick(n)
    BY <2>3, TickKeeps
  <2>. QED
    BY <1>3, <2>1, <2>2, <2>3
<1>4. CASE UNCHANGED kvVars
  BY <1>4, UntouchedKeeps DEF kvVars
<1>5. CASE Elsewhere
  BY <1>5, UntouchedKeeps DEF Elsewhere
<1>. QED
  BY <1>1, <1>2, <1>3, <1>4, <1>5 DEF KVNext, Background

LEMMA KVInvSuffices == KVInv => NewestWriteWins
<1>. SUFFICES ASSUME KVInv, NEW n \in Nodes, NEW u \in seen[n], ~wrote[n], Newest(n, u),
                     u.op = "set", ~Expired(u, clock[n])
              PROVE  data[n] = AsEntry(u)
  BY DEF NewestWriteWins, AsEntry
<1>1. ASSUME NEW w \in seen[n] \ {u} PROVE ~(w.at >= u.at)
  <2>1. w.at \in Nat /\ u.at \in Nat
    BY ClockAssumption DEF KVInv, KVTypeOK, Updates, Stamps
  <2>. QED
    BY <2>1 DEF Newest
<1>. QED
  BY <1>1 DEF KVInv, WriteHeldUnlessSuperseded

\* On a node that only listens, the newest write it has applied is what it holds
\* until that write expires, in whatever order updates came. (SetRemote,
\* DeleteRemote; kvstore.go:59-62)
THEOREM LastWriterWins == KVSpec => []NewestWriteWins
  BY KVInvInit, KVInvNext, KVInvSuffices, PTL DEF KVSpec

-----------------------------------------------------------------------------
\* Every step of a session or an upload is a step of the store, or leaves it alone.
LEMMA StoreStep ==
  ASSUME ClientTypeOK, [Next]_vars
  PROVE  [KVNext]_kvVars
<1>1. ASSUME NEW r \in Callers, RequestSteps(r) PROVE [KVNext]_kvVars
  <2>. pool[r] \subseteq Values
    BY DEF ClientTypeOK, Keys
  <2>. SUFFICES BeginAny(r) \/ NoCall
    BY DEF KVNext, NoCall
  <2>1. CASE Settle(r) \/ EndUpload(r)
    BY <2>1 DEF Settle, EndUpload
  <2>2. CASE Start(r) \/ PinLost(r) \/ Open(r) \/ Take(r)
    BY <2>2 DEF Start, PinLost, Open, Take, BeginAny
  <2>3. CASE Dropped(r)
    BY <2>3 DEF Dropped, DrawAndPin, BeginAny
  <2>4. CASE Look(r)
    BY <2>4 DEF Look, DrawAndPin, BeginAny, Found
  <2>5. CASE Reread(r)
    BY <2>5 DEF Reread, BeginAny
  <2>. QED
    BY <1>1, <2>1, <2>2, <2>3, <2>4, <2>5 DEF RequestSteps
<1>2. ASSUME NEW n \in Nodes, EditKeys(n) PROVE [KVNext]_kvVars
  BY <1>2 DEF EditKeys, KVNext
<1>3. CASE (\E r \in Callers : CallSteps(r)) \/ Background
  BY <1>3 DEF KVNext
<1>4. CASE UNCHANGED vars
  BY <1>4 DEF vars, kvVars
<1>. QED
  BY <1>1, <1>2, <1>3, <1>4 DEF Next

LEMMA ClientTypeInit == Init => ClientTypeOK
  BY DEF Init, ClientTypeOK, None

LEMMA ClientTypeNext == ClientTypeOK /\ [Next]_vars => ClientTypeOK'
<1>. SUFFICES ASSUME ClientTypeOK, [Next]_vars PROVE ClientTypeOK'
  OBVIOUS
<1>. USE DEF ClientTypeOK
<1>1. ASSUME NEW r \in Callers, RequestSteps(r) PROVE ClientTypeOK'
  <2>. pool[r] \subseteq Keys /\ Home[r] \in Nodes
    BY HomeAssumption
  <2>1. CASE Start(r)
    BY <2>1 DEF Start, To
  <2>2. CASE Look(r)
    BY <2>2 DEF Look, To, Gets, DrawAndPin, Found
  <2>3. CASE Dropped(r)
    BY <2>3 DEF Dropped, DrawAndPin, To, Gets
  <2>4. CASE Settle(r)
    BY <2>4 DEF Settle, To
  <2>5. CASE PinLost(r)
    BY <2>5 DEF PinLost, To
  <2>6. CASE Reread(r)
    BY <2>6 DEF Reread, To, Gets, Found
  <2>7. CASE Open(r) \/ Take(r)
    BY <2>7 DEF Open, Take, To
  <2>8. CASE EndUpload(r)
    BY <2>8 DEF EndUpload, To, Gets, Keys
  <2>. QED
    BY <1>1, <2>1, <2>2, <2>3, <2>4, <2>5, <2>6, <2>7, <2>8 DEF RequestSteps
<1>2. ASSUME NEW n \in Nodes, EditKeys(n) PROVE ClientTypeOK'
  <2>1. fresh' \in [Callers -> BOOLEAN]
    BY <1>2 DEF EditKeys
  <2>2. supported' \in [Nodes -> SUBSET Keys]
    BY <1>2 DEF EditKeys
  <2>. QED
    BY <1>2, <2>1, <2>2 DEF EditKeys
<1>3. CASE UNCHANGED clientVars
  BY <1>3 DEF clientVars
<1>4. CASE UNCHANGED vars
  BY <1>4 DEF vars
<1>. QED
  BY <1>1, <1>2, <1>3, <1>4 DEF Next

\* Sessions and uploads use the store by its operations only: a behaviour of the
\* two programs is a behaviour of the store. (unifai.go:8311-8373, genai.go:364-410)
THEOREM ClientsUseTheStore == Spec => KVSpec
<1>1. Init => KVInit
  BY DEF Init
<1>. QED
  BY <1>1, ClientTypeInit, ClientTypeNext, StoreStep, PTL DEF Spec, KVSpec

\* Every reachable state of the store and its clients is well formed.
THEOREM ClientsTypeCorrect == Spec => []TypeOK
  BY ClientTypeInit, ClientTypeNext, ClientsUseTheStore, KVTypeCorrect, PTL DEF Spec, TypeOK

\* Hence the pins and upload records obey the last writer too.
THEOREM ClientsLastWriterWins == Spec => []NewestWriteWins
  BY ClientsUseTheStore, LastWriterWins, PTL
-----------------------------------------------------------------------------
(***************************************************************************)
(* The upload.  A node's copy of the record is at one place at most: still *)
(* to come from the request that opens the upload, on its way in a         *)
(* message, in the store, or with one of the requests that took it.        *)
(***************************************************************************)
Record(v) == v \in Values \union {Blank}

\* The request has taken the record.
Has(c) ==
  \/ Here(c, "take", "notify")
  \/ pc[c] = "take" /\ call[c] = Idle /\ Record(result[c])
  \/ choice[c] # None

\* The node's copy is still to come.
Coming(n) ==
  \/ pc[Initiator] = "start"
  \/ Here(Initiator, "set", "stamped")
  \/ Here(Initiator, "set", "notify") /\ n # Home[Initiator]

Sent(n, u) == <<n, u>> \in net /\ u.op = "set"

\* What a request of an upload may have under way.
UploadShape ==
  \A c \in Callers :
    /\ pc[c] = "start" => call[c] = Idle /\ choice[c] = None
    /\ choice[c] # None => pc[c] = "done"
    /\ call[c] # Idle =>
         /\ pc[c] = IF c = Initiator THEN "open" ELSE "take"
         /\ call[c].op = IF c = Initiator THEN "set" ELSE "take"
         /\ call[c].phase \in {"stamped", "notify"}
    /\ IF c = Initiator
         THEN pc[c] \in {"start", "open", "done"} /\ choice[c] = None /\ ~Record(result[c])
         ELSE pc[c] \in {"start", "take", "done"}

RecordOnce ==
  \A n \in Nodes :
    /\ Coming(n) => data[n] = NoEntry
    /\ \A u \in Updates : Sent(n, u) =>
         /\ ~Coming(n) /\ n # Home[Initiator] /\ data[n] = NoEntry
         /\ \A w \in Updates : Sent(n, w) => w = u
    /\ \A c \in Callers : Has(c) /\ Home[c] = n =>
         /\ ~Coming(n) /\ data[n] = NoEntry
         /\ \A u \in Updates : ~Sent(n, u)
         /\ \A d \in Callers : Has(d) /\ Home[d] = n => d = c

UploadInv == usage = "upload" => UploadShape /\ RecordOnce

-----------------------------------------------------------------------------
(***************************************************************************)
(* The session.  On an undisturbed node the first pin stays, and whoever   *)
(* has got a key has got the pinned one.                                   *)
(***************************************************************************)
\* A pin that is there names a key on offer, has not expired, and was set by
\* a request that has begun.
PinIsGood(n) ==
  data[n] # NoEntry =>
    /\ data[n].value \in supported[n] /\ data[n].expires >= TTL
    /\ \E r \in Callers : Home[r] = n /\ pc[r] # "start"

\* What a request calls the store for, where it is.
SessionCall(r) ==
  \/ call[r] = Idle
  \/ pc[r] \in {"look", "reread"} /\ Here(r, "get", "stamped")
  \/ /\ \/ pc[r] = "renew" /\ call[r].op = "set"
        \/ pc[r] = "pin" /\ call[r].op = "setnx"
     /\ call[r].phase \in {"stamped", "notify"} /\ call[r].value = choice[r]

\* The request has got its key.
Served(r) ==
  \/ pc[r] \in {"renew", "done"}
  \/ pc[r] = "pin" /\ (call[r].phase = "notify" \/ (call[r] = Idle /\ result[r] = "ok"))

FollowsPin(r) ==
  LET pin == data[Home[r]] IN
  /\ pc[r] \in {"start", "look", "renew", "pin", "reread", "done"}
  /\ pc[r] \in {"start", "done"} => call[r] = Idle
  /\ pc[r] # "start" => pool[r] = supported[Home[r]]
  /\ SessionCall(r) /\ call[r].stamp <= clock[Home[r]]
  /\ Served(r) => pin # NoEntry /\ choice[r] = pin.value
  /\ pc[r] = "look" /\ call[r] = Idle =>
       result[r] = "missing" \/ (pin # NoEntry /\ result[r] = pin.value)
  /\ pc[r] = "pin" =>
       /\ choice[r] \in pool[r]
       /\ call[r] = Idle => result[r] = "ok" \/ (result[r] = "exists" /\ pin # NoEntry)
  /\ pc[r] = "reread" => pin # NoEntry /\ (call[r] = Idle => result[r] = pin.value)

PinHolds(n) == PinIsGood(n) /\ \A r \in Callers : Home[r] = n => FollowsPin(r)

SessionInv == usage = "session" => \A n \in Nodes : Undisturbed(n) => PinHolds(n)

-----------------------------------------------------------------------------
\* What a call that begins, returns or goes on changes: the caller's own record.
LEMMA BeginEffect ==
  ASSUME KVTypeOK, NEW c \in Callers, NEW op, NEW v, Begin(c, op, v)
  PROVE  /\ call[c] = Idle
         /\ UNCHANGED <<clock, data, closed, enabled, net, seen, wrote, upsets>>
         /\ \A d \in Callers : d # c => call'[d] = call[d] /\ result'[d] = result[d]
         /\ \/ closed[Home[c]] /\ call'[c] = Idle /\ result'[c] = "closed"
            \/ /\ ~closed[Home[c]] /\ call'[c] # Idle /\ result'[c] = result[c]
               /\ call'[c].op = op /\ call'[c].phase = "stamped" /\ call'[c].value = v
               /\ call'[c].stamp = clock[Home[c]]
<1>. DEFINE new == [op |-> op, phase |-> "stamped", value |-> v, stamp |-> clock[Home[c]],
                    json |-> enabled[Home[c]]]
<1>1. new.phase = "stamped" /\ new.op = op /\ new.value = v /\ new.stamp = clock[Home[c]]
  OBVIOUS
<1>2. new # Idle
  BY <1>1 DEF Idle
<1>. HIDE DEF new
<1>3. CASE closed[Home[c]]
  BY <1>3 DEF Begin, Return, KVTypeOK
<1>4. CASE ~closed[Home[c]]
  <2>1. call' = [call EXCEPT ![c] = new] /\ result' = result
    BY <1>4 DEF Begin, new
  <2>2. call'[c] = new /\ \A d \in Callers : d # c => call'[d] = call[d]
    BY <2>1 DEF KVTypeOK
  <2>. QED
    BY <1>1, <1>2, <1>4, <2>1, <2>2 DEF Begin
<1>. QED
  BY <1>3, <1>4

LEMMA ReturnEffect ==
  ASSUME KVTypeOK, NEW c \in Callers, NEW r, Return(c, r)
  PROVE  /\ call'[c] = Idle /\ result'[c] = r
         /\ \A d \in Callers : d # c => call'[d] = call[d] /\ result'[d] = result[d]
BY DEF Return, KVTypeOK

LEMMA GoesEffect ==
  ASSUME KVTypeOK, NEW c \in Callers, NEW phase, phase # "idle", Goes(c, phase)
  PROVE  /\ call'[c] # Idle /\ call'[c].phase = phase /\ call'[c].op = call[c].op
         /\ call'[c].value = call[c].value /\ call'[c].stamp = call[c].stamp
         /\ \A d \in Callers : d # c => call'[d] = call[d]
<1>1. call[c] \in Calls
  BY DEF KVTypeOK
<1>2. call'[c] = [call[c] EXCEPT !.phase = phase]
      /\ \A d \in Callers : d # c => call'[d] = call[d]
  BY DEF Goes, KVTypeOK
<1>. QED
  BY <1>1, <1>2 DEF Calls, Idle

LEMMA TakesEffect ==
  ASSUME KVTypeOK, NEW c \in Callers, NEW v,
         call' = [call EXCEPT ![c].phase = "notify", ![c].value = v]
  PROVE  /\ call'[c] # Idle /\ call'[c].phase = "notify" /\ call'[c].op = call[c].op
         /\ call'[c].value = v /\ call'[c].stamp = call[c].stamp
         /\ \A d \in Callers : d # c => call'[d] = call[d]
<1>. DEFINE new == [call[c] EXCEPT !.phase = "notify", !.value = v]
<1>1. call[c] \in Calls
  BY DEF KVTypeOK
<1>2. new.phase = "notify" /\ new.value = v /\ new.op = call[c].op /\ new.stamp = call[c].stamp
  BY <1>1 DEF Calls
<1>3. call' = [call EXCEPT ![c] = new]
  OBVIOUS
<1>. HIDE DEF new
<1>4. call'[c] = new /\ \A d \in Callers : d # c => call'[d] = call[d]
  BY <1>3 DEF KVTypeOK
<1>5. new # Idle
  BY <1>2 DEF Idle
<1>. QED
  BY <1>2, <1>4, <1>5

LEMMA IdlePhase == Idle.op = "get" /\ Idle.phase = "idle" /\ Idle.stamp = 0
BY DEF Idle

\* Errors are no record, and nobody has a record who has not got one.
LEMMA ErrorsAreNoRecords ==
  \A e \in {"none", "closed", "missing", "ok", "exists"} : ~Record(e)
BY ValueAssumption DEF Record

\* Where nothing new comes, goes out or is taken, the record stays alone.
LEMMA RecordKept ==
  ASSUME RecordOnce,
         \A n \in Nodes : data'[n] = data[n] \/ data'[n] = NoEntry,
         \A n \in Nodes : Coming(n)' => Coming(n),
         \A n \in Nodes, u \in Updates : Sent(n, u)' => Sent(n, u),
         \A c \in Callers : Has(c)' => Has(c)
  PROVE  RecordOnce'
BY DEF RecordOnce

\* The first request leaves the record, or finds the store closed.
LEMMA OpenKeeps ==
  ASSUME KVTypeOK, ClientTypeOK, UploadShape, RecordOnce, NEW r \in Callers, Open(r)
  PROVE  UploadShape' /\ RecordOnce'
<1>1. PICK v \in Values : Begin(r, "set", v)
  BY DEF Open
<1>2. /\ r = Initiator /\ pc[r] = "start" /\ pc'[r] = "open" /\ choice' = choice
      /\ \A d \in Callers : d # r => pc'[d] = pc[d]
  BY DEF Open, At, To, ClientTypeOK
<1>3. UploadShape'
  BY <1>1, <1>2, BeginEffect, ErrorsAreNoRecords DEF UploadShape
<1>4. \A n \in Nodes : Coming(n) /\ data'[n] = data[n]
  BY <1>1, <1>2, BeginEffect DEF Coming
<1>5. \A n \in Nodes, u \in Updates : ~Sent(n, u) /\ Sent(n, u)' = Sent(n, u)
  BY <1>1, <1>4, BeginEffect DEF RecordOnce, Sent
<1>6. ASSUME NEW c \in Callers PROVE ~Has(c)'
  <2>1. ~Has(c)
    BY <1>4, HomeAssumption DEF RecordOnce
  <2>2. CASE c # r
    BY <1>1, <1>2, <2>1, <2>2, BeginEffect DEF Has, Here, Record
  <2>3. CASE c = r
    BY <1>1, <1>2, <2>1, <2>3, BeginEffect DEF Has, Here, Idle
  <2>. QED
    BY <2>2, <2>3
<1>7. RecordOnce'
  BY <1>4, <1>5, <1>6 DEF RecordOnce
<1>. QED
  BY <1>3, <1>7

LEMMA TakeKeeps ==
  ASSUME KVTypeOK, ClientTypeOK, UploadShape, RecordOnce, NEW r \in Callers, Take(r)
  PROVE  UploadShape' /\ RecordOnce'
<1>1. Begin(r, "take", Blank)
  BY DEF Take
<1>2. /\ r # Initiator /\ pc[r] = "start" /\ pc'[r] = "take" /\ choice' = choice
      /\ \A d \in Callers : d # r => pc'[d] = pc[d]
  BY DEF Take, At, To, ClientTypeOK
<1>3. UploadShape'
  BY <1>1, <1>2, BeginEffect DEF UploadShape
<1>4. ASSUME NEW c \in Callers, Has(c)' PROVE Has(c)
  <2>1. CASE c # r
    BY <1>1, <1>2, <1>4, <2>1, BeginEffect DEF Has, Here, Record
  <2>2. CASE c = r
    <3>1. ~Record("closed") /\ choice[r] = None
      BY <1>2, ErrorsAreNoRecords DEF UploadShape
    <3>. QED
      BY <1>1, <1>2, <1>4, <2>2, <3>1, BeginEffect DEF Has, Here, Record, Idle
  <2>. QED
    BY <2>1, <2>2
<1>5. \A n \in Nodes : Coming(n)' => Coming(n)
  BY <1>1, <1>2, BeginEffect, InitiatorAssumption DEF Coming, Here
<1>6. \A n \in Nodes, u \in Updates : Sent(n, u)' => Sent(n, u)
  BY <1>1, BeginEffect DEF Sent
<1>. QED
  BY <1>1, <1>3, <1>4, <1>5, <1>6, BeginEffect, RecordKept

LEMMA EndUploadKeeps ==
  ASSUME KVTypeOK, ClientTypeOK, UploadShape, RecordOnce, NEW r \in Callers, EndUpload(r)
  PROVE  UploadShape' /\ RecordOnce'
<1>1. /\ UNCHANGED <<data, net, call, result>> /\ call[r] = Idle /\ pc[r] \in {"open", "take"}
      /\ pc'[r] = "done" /\ \A d \in Callers : d # r => pc'[d] = pc[d]
  BY DEF EndUpload, At, To, NoCall, kvVars, ClientTypeOK
<1>2. /\ choice'[r] # choice[r] => Record(result[r])
      /\ \A d \in Callers : d # r => choice'[d] = choice[d]
  BY DEF EndUpload, Gets, Record, ClientTypeOK
<1>3. UploadShape'
  BY <1>1, <1>2 DEF UploadShape, Record
<1>4. \A c \in Callers : Has(c)' => Has(c)
  BY <1>1, <1>2 DEF Has, Here, Record, UploadShape
<1>5. \A n \in Nodes : Coming(n)' => Coming(n)
  BY <1>1, InitiatorAssumption DEF Coming, Here
<1>6. \A n \in Nodes, u \in Updates : Sent(n, u)' => Sent(n, u)
  BY <1>1 DEF Sent
<1>. QED
  BY <1>1, <1>3, <1>4, <1>5, <1>6, RecordKept

\* The record is stored.
LEMMA SetKeepsRecord ==
  ASSUME KVTypeOK, UploadShape, RecordOnce, NEW c \in Callers, SetStores(c),
         UNCHANGED clientVars
  PROVE  UploadShape' /\ RecordOnce'
<1>1. c = Initiator /\ Here(c, "set", "stamped") /\ pc[c] = "open" /\ call[c] # Idle
  BY DEF SetStores, Here, UploadShape, Idle
<1>2. UNCHANGED <<pc, choice, result, net>> /\ Goes(c, "notify")
  BY DEF SetStores, Stores, clientVars
<1>3. /\ call'[c] # Idle /\ call'[c].phase = "notify" /\ call'[c].op = "set"
      /\ \A d \in Callers : d # c => call'[d] = call[d]
  BY <1>1, <1>2, GoesEffect DEF Here
<1>4. \A n \in Nodes : n # Home[c] => data'[n] = data[n]
  BY DEF SetStores, Stores, KVTypeOK
<1>5. UploadShape'
  BY <1>1, <1>2, <1>3 DEF UploadShape, Record
<1>6. \A n \in Nodes : Coming(n) /\ (Coming(n)' <=> n # Home[c])
  BY <1>1, <1>2, <1>3 DEF Coming, Here
<1>7. \A n \in Nodes, u \in Updates : ~Sent(n, u) /\ Sent(n, u)' = Sent(n, u)
  BY <1>2, <1>6 DEF RecordOnce, Sent
<1>8. ASSUME NEW d \in Callers PROVE ~Has(d)'
  <2>1. ~Has(d)
    BY <1>6, HomeAssumption DEF RecordOnce
  <2>. QED
    BY <1>1, <1>2, <1>3, <2>1 DEF Has, Here, Record
<1>9. \A n \in Nodes : Coming(n)' => data'[n] = NoEntry
  BY <1>4, <1>6 DEF RecordOnce
<1>10. RecordOnce'
  BY <1>7, <1>8, <1>9 DEF RecordOnce
<1>. QED
  BY <1>5, <1>10

\* One request takes it, and the others find nothing.
LEMMA TakeKeepsRecord ==
  ASSUME KVTypeOK, UploadShape, RecordOnce, NEW c \in Callers, TakeStores(c),
         UNCHANGED clientVars
  PROVE  UploadShape' /\ RecordOnce'
<1>. DEFINE e == data[Home[c]]
<1>0. Home[c] \in Nodes
  BY HomeAssumption
<1>1. c # Initiator /\ Here(c, "take", "stamped") /\ pc[c] = "take" /\ call[c] # Idle /\ choice[c] = None
  BY DEF TakeStores, Here, UploadShape, Idle
<1>2. UNCHANGED <<pc, choice>>
  BY DEF clientVars
<1>3. net' = net
  BY DEF TakeStores, Refuses
<1>4. \A n \in Nodes : data'[n] = data[n] \/ data'[n] = NoEntry
  BY DEF TakeStores, Refuses, KVTypeOK
<1>5. \A n \in Nodes, u \in Updates : Sent(n, u)' = Sent(n, u)
  BY <1>3 DEF Sent
<1>6. CASE Return(c, "missing")
  <2>1. /\ call'[c] = Idle /\ result'[c] = "missing" /\ ~Record("missing")
        /\ \A d \in Callers : d # c => call'[d] = call[d] /\ result'[d] = result[d]
    BY <1>6, ReturnEffect, ErrorsAreNoRecords
  <2>2. UploadShape'
    BY <1>1, <1>2, <2>1 DEF UploadShape, Record
  <2>3. \A d \in Callers : Has(d)' => Has(d)
    BY <1>1, <1>2, <2>1 DEF Has, Here, Record, Idle
  <2>4. \A n \in Nodes : Coming(n)' => Coming(n)
    BY <1>1, <1>2, <2>1, InitiatorAssumption DEF Coming, Here
  <2>. QED
    BY <1>4, <1>5, <2>2, <2>3, <2>4, RecordKept
<1>7. CASE /\ e # NoEntry /\ result' = result /\ data' = [data EXCEPT ![Home[c]] = NoEntry]
           /\ call' = [call EXCEPT ![c].phase = "notify", ![c].value = e.value]
  <2>1. /\ call'[c] # Idle /\ call'[c].phase = "notify" /\ call'[c].op = "take"
        /\ \A d \in Callers : d # c => call'[d] = call[d]
    BY <1>1, <1>7, TakesEffect DEF Here
  <2>2. UploadShape'
    <3>1. pc' = pc /\ choice' = choice /\ result' = result
      BY <1>2, <1>7
    <3>. QED
      BY <1>1, <2>1, <3>1, IdlePhase DEF UploadShape, Record
  <2>3. \A d \in Callers : d # c => (Has(d)' <=> Has(d))
    BY <1>2, <1>7, <2>1 DEF Has, Here, Record
  <2>4. \A n \in Nodes : Coming(n)' <=> Coming(n)
    BY <1>1, <1>2, <2>1, InitiatorAssumption DEF Coming, Here
  <2>5. /\ data'[Home[c]] = NoEntry /\ data[Home[c]] # NoEntry
        /\ \A n \in Nodes : n # Home[c] => data'[n] = data[n]
    BY <1>0, <1>7 DEF KVTypeOK
  <2>6. ~Coming(Home[c]) /\ \A u \in Updates : ~Sent(Home[c], u)
    BY <1>0, <2>5 DEF RecordOnce
  <2>7. \A d \in Callers : Has(d) => Home[d] # Home[c]
    BY <1>0, <2>5 DEF RecordOnce
  <2>8. RecordOnce'
    <3>. SUFFICES ASSUME NEW n \in Nodes
                  PROVE  /\ Coming(n)' => data'[n] = NoEntry
                         /\ \A u \in Updates : Sent(n, u)' =>
                              /\ ~Coming(n)' /\ n # Home[Initiator] /\ data'[n] = NoEntry
                              /\ \A w \in Updates : Sent(n, w)' => w = u
                         /\ \A a \in Callers : Has(a)' /\ Home[a] = n =>
                              /\ ~Coming(n)' /\ data'[n] = NoEntry
                              /\ \A u \in Updates : ~Sent(n, u)'
                              /\ \A d \in Callers : Has(d)' /\ Home[d] = n => d = a
      BY DEF RecordOnce
    <3>1. CASE n = Home[c]
      BY <1>5, <2>3, <2>4, <2>5, <2>6, <2>7, <3>1
    <3>2. CASE n # Home[c]
      BY <1>5, <2>3, <2>4, <2>5, <3>2 DEF RecordOnce
    <3>. QED
      BY <3>1, <3>2
  <2>. QED
    BY <2>2, <2>8
<1>. QED
  BY <1>6, <1>7 DEF TakeStores, Refuses

\* The message goes out once to each peer.
LEMMA NotifyKeepsRecord ==
  ASSUME KVTypeOK, UploadShape, RecordOnce, NEW c \in Callers, Notify(c),
         UNCHANGED clientVars
  PROVE  UploadShape' /\ RecordOnce'
<1>1. /\ call[c].phase = "notify" /\ call[c] # Idle /\ UNCHANGED <<pc, choice, data>>
      /\ Home[c] \in Nodes
  BY HomeAssumption DEF Notify, Idle, clientVars
<1>2. /\ call'[c] = Idle
      /\ result'[c] = IF call[c].op = "take" THEN call[c].value ELSE "ok"
      /\ \A d \in Callers : d # c => call'[d] = call[d] /\ result'[d] = result[d]
  BY ReturnEffect DEF Notify
<1>3. CASE c # Initiator
  <2>1. call[c].op = "take" /\ pc[c] = "take" /\ Has(c) /\ choice[c] = None
    BY <1>1, <1>3 DEF UploadShape, Has, Here
  <2>2. Update(c).op = "delete"
    BY <2>1 DEF Update
  <2>3. \A n \in Nodes, u \in Updates : Sent(n, u)' => Sent(n, u)
    BY <2>2 DEF Sent, Notify
  <2>4. \A d \in Callers : Has(d)' => Has(d)
    BY <1>1, <1>2, <2>1 DEF Has, Here, Record
  <2>5. \A n \in Nodes : Coming(n)' => Coming(n)
    BY <1>1, <1>2, <1>3, InitiatorAssumption DEF Coming, Here
  <2>6. UploadShape'
    BY <1>1, <1>2, <1>3, <2>1 DEF UploadShape, Record
  <2>. QED
    BY <1>1, <2>3, <2>4, <2>5, <2>6, RecordKept
<1>4. CASE c = Initiator
  <2>1. call[c].op = "set" /\ pc[c] = "open" /\ result'[c] = "ok" /\ ~Record("ok")
    BY <1>1, <1>2, <1>4, ErrorsAreNoRecords DEF UploadShape
  <2>2. UploadShape'
    BY <1>1, <1>2, <1>4, <2>1 DEF UploadShape, Record
  <2>3. ASSUME NEW d \in Callers, Has(d)' PROVE Has(d)
    <3>1. CASE d # c
      BY <1>1, <1>2, <2>3, <3>1 DEF Has, Here, Record
    <3>2. CASE d = c
      BY <1>1, <1>2, <1>4, <2>1, <2>3, <3>2, IdlePhase DEF Has, Here, UploadShape
    <3>. QED
      BY <3>1, <3>2
  <2>4. \A n \in Nodes : ~Coming(n)' /\ (n # Home[c] => Coming(n))
    BY <1>1, <1>2, <1>4, <2>1 DEF Coming, Here, Idle
  <2>5. \A n \in Nodes, u \in Updates :
          Sent(n, u)' => Sent(n, u) \/ (n # Home[c] /\ u = Update(c))
    BY DEF Sent, Notify, Peers
  <2>6. \A n \in Nodes, u \in Updates : Sent(n, u) => n = Home[c]
    BY <2>4 DEF RecordOnce
  <2>7. \A n \in Nodes, u \in Updates : Sent(n, u)' => n # Home[c] /\ u = Update(c)
    BY <1>4, <2>5, <2>6 DEF RecordOnce
  <2>8. \A d \in Callers : Has(d)' => Home[d] = Home[c]
    BY <2>3, <2>4, HomeAssumption DEF RecordOnce
  <2>9. RecordOnce'
    <3>1. \A n \in Nodes : n # Home[c] => data'[n] = NoEntry
      BY <1>1, <2>4 DEF RecordOnce
    <3>2. \A n \in Nodes : \A a \in Callers : Has(a)' /\ Home[a] = n =>
             /\ n = Home[c] /\ data'[n] = NoEntry
             /\ \A d \in Callers : Has(d)' /\ Home[d] = n => d = a
      BY <1>1, <2>3, <2>8 DEF RecordOnce
    <3>. QED
      BY <1>4, <2>4, <2>7, <3>1, <3>2 DEF RecordOnce
  <2>. QED
    BY <2>2, <2>9
<1>. QED
  BY <1>3, <1>4

\* A peer gets its copy with the message.
LEMMA DeliverKeepsRecord ==
  ASSUME KVTypeOK, UploadShape, RecordOnce, NEW n \in Nodes, NEW u \in Updates, Deliver(n, u),
         UNCHANGED clientVars
  PROVE  UploadShape' /\ RecordOnce'
<1>1. UNCHANGED <<call, result, pc, choice>>
  BY DEF Deliver, clientVars
<1>2. UploadShape'
  BY <1>1 DEF UploadShape, Record
<1>3. \A c \in Callers : Has(c)' = Has(c)
  BY <1>1 DEF Has, Here, Record
<1>4. \A m \in Nodes : Coming(m)' = Coming(m)
  BY <1>1 DEF Coming, Here
<1>5. \A m \in Nodes, w \in Updates :
        Sent(m, w)' => Sent(m, w) /\ (m # n \/ w # u)
  BY DEF Sent, Deliver
<1>6. data'[n] = Applied(n, u) /\ \A m \in Nodes : m # n => data'[m] = data[m]
  BY DEF Deliver, KVTypeOK
<1>7. CASE u.op = "delete"
  <2>1. data'[n] = data[n] \/ data'[n] = NoEntry
    BY <1>6, <1>7 DEF Applied
  <2>. QED
    BY <1>2, <1>3, <1>4, <1>5, <1>6, <2>1, RecordKept
<1>8. CASE u.op = "set"
  <2>1. Sent(n, u)
    BY <1>8 DEF Sent, Deliver
  <2>2. /\ ~Coming(n) /\ \A w \in Updates : Sent(n, w) => w = u
        /\ \A c \in Callers : Has(c) => Home[c] # n
    BY <2>1 DEF RecordOnce
  <2>3. \A w \in Updates : ~Sent(n, w)'
    BY <1>5, <2>2
  <2>4. RecordOnce'
    <3>1. ASSUME NEW m \in Nodes, m # n
          PROVE  /\ Coming(m)' => data'[m] = NoEntry
                 /\ \A w \in Updates : Sent(m, w)' =>
                      /\ ~Coming(m)' /\ m # Home[Initiator] /\ data'[m] = NoEntry
                      /\ \A x \in Updates : Sent(m, x)' => x = w
                 /\ \A c \in Callers : Has(c)' /\ Home[c] = m =>
                      /\ ~Coming(m)' /\ data'[m] = NoEntry
                      /\ \A w \in Updates : ~Sent(m, w)'
                      /\ \A d \in Callers : Has(d)' /\ Home[d] = m => d = c
      BY <1>3, <1>4, <1>5, <1>6, <3>1 DEF RecordOnce
    <3>2. /\ ~Coming(n)' /\ \A w \in Updates : ~Sent(n, w)'
          /\ \A c \in Callers : Has(c)' => Home[c] # n
      BY <1>3, <1>4, <2>2, <2>3
    <3>. QED
      BY <3>1, <3>2 DEF RecordOnce
  <2>. QED
    BY <1>2, <2>4
<1>. QED
  BY <1>7, <1>8 DEF Updates

LEMMA UploadStep ==
  ASSUME KVTypeOK, ClientTypeOK, usage = "upload", UploadShape, RecordOnce, [Next]_vars
  PROVE  UploadShape' /\ RecordOnce'
<1>1. ASSUME NEW r \in Callers, RequestSteps(r) PROVE UploadShape' /\ RecordOnce'
  <2>1. pc[r] \in {"start", "open", "take", "done"}
    BY DEF UploadShape
  <2>2. Open(r) \/ Take(r) \/ EndUpload(r)
    BY <1>1, <2>1
    DEF RequestSteps, Start, Look, Dropped, Settle, PinLost, Reread, At
  <2>. QED
    BY <2>2, OpenKeeps, TakeKeeps, EndUploadKeeps
<1>2. ASSUME NEW n \in Nodes, EditKeys(n) PROVE UploadShape' /\ RecordOnce'
  BY <1>2 DEF EditKeys
<1>3. ASSUME NEW c \in Callers, CallSteps(c), UNCHANGED clientVars
      PROVE  UploadShape' /\ RecordOnce'
  <2>1. call[c] # Idle => call[c].op \in {"set", "take"}
    BY DEF UploadShape
  <2>2. SetStores(c) \/ TakeStores(c) \/ Notify(c)
    BY <1>3, <2>1
    DEF CallSteps, GetReads, GetPurges, SetNXStores, DeleteStores, Here, Idle
  <2>. QED
    BY <1>3, <2>2, SetKeepsRecord, TakeKeepsRecord, NotifyKeepsRecord
<1>4. ASSUME Background, UNCHANGED clientVars PROVE UploadShape' /\ RecordOnce'
  <2>1. ASSUME NEW m \in net, Deliver(m[1], m[2]) PROVE UploadShape' /\ RecordOnce'
    <3>. m[1] \in Nodes /\ m[2] \in Updates
      BY DEF KVTypeOK
    <3>. QED
      BY <1>4, <2>1, DeliverKeepsRecord
  <2>2. ASSUME NEW n \in Nodes, Cleanup(n) \/ Close(n) \/ Configure(n) \/ Tick(n)
        PROVE  UploadShape' /\ RecordOnce'
    <3>1. UNCHANGED <<call, result, pc, choice, net>>
      BY <1>4, <2>2 DEF Cleanup, Close, Configure, Tick, clientVars
    <3>2. \A m \in Nodes : data'[m] = data[m] \/ data'[m] = NoEntry
      BY <2>2 DEF Cleanup, Close, Configure, Tick, Purged, KVTypeOK
    <3>3. UploadShape'
      BY <3>1 DEF UploadShape, Record
    <3>4. /\ \A k \in Nodes : Coming(k)' => Coming(k)
          /\ \A k \in Nodes, u \in Updates : Sent(k, u)' => Sent(k, u)
          /\ \A c \in Callers : Has(c)' => Has(c)
      BY <3>1 DEF Coming, Sent, Has, Here, Record
    <3>. QED
      BY <3>2, <3>3, <3>4, RecordKept
  <2>. QED
    BY <1>4, <2>1, <2>2 DEF Background
<1>5. CASE UNCHANGED vars
  <2>1. UNCHANGED <<call, result, pc, choice, net, data>>
    BY <1>5 DEF vars
  <2>2. UploadShape'
    BY <2>1 DEF UploadShape, Record
  <2>3. /\ \A n \in Nodes : Coming(n)' => Coming(n)
        /\ \A n \in Nodes, u \in Updates : Sent(n, u)' => Sent(n, u)
        /\ \A c \in Callers : Has(c)' => Has(c)
    BY <2>1 DEF Coming, Sent, Has, Here, Record
  <2>. QED
    BY <2>1, <2>2, <2>3, RecordKept
<1>. QED
  BY <1>1, <1>2, <1>3, <1>4, <1>5 DEF Next

-----------------------------------------------------------------------------
\* What has disturbed a node stays: only a request that begins is new.
LEMMA UndisturbedBefore ==
  ASSUME KVTypeOK, ClientTypeOK, [Next]_vars, NEW n \in Nodes, Undisturbed(n)'
  PROVE  Undisturbed(n)
<1>1. [KVNext]_kvVars
  BY StoreStep
<1>2. seen[n] = {}
  <2>1. seen' = seen \/ \E m \in net : Deliver(m[1], m[2])
    BY <1>1 DEF KVNext, kvVars, BeginAny, Begin, CallSteps, GetReads, GetPurges, SetStores,
                SetNXStores, DeleteStores, TakeStores, Notify, Stores, Refuses, Background,
                Cleanup, Close, Configure, Tick, Elsewhere
  <2>2. ASSUME NEW m \in net, Deliver(m[1], m[2]) PROVE seen[n] \subseteq seen'[n]
    BY <2>2 DEF Deliver, KVTypeOK
  <2>. QED
    BY <2>1, <2>2 DEF Undisturbed
<1>3. clock[n] < TTL
  <2>1. clock[n] \in Nat /\ clock'[n] \in Nat /\ clock'[n] >= clock[n]
    <3>1. clock' = clock \/ \E m \in Nodes : Tick(m)
      BY <1>1 DEF KVNext, kvVars, BeginAny, Begin, CallSteps, GetReads, GetPurges, SetStores,
                  SetNXStores, DeleteStores, TakeStores, Notify, Stores, Refuses, Background,
                  Deliver, Cleanup, Close, Configure, Elsewhere
    <3>. QED
      BY <3>1, ClockAssumption DEF Tick, KVTypeOK
  <2>. QED
    BY <2>1, ClockAssumption DEF Undisturbed
<1>4. ~closed[n]
  <2>1. closed' = closed \/ \E m \in Nodes : Close(m)
    BY <1>1 DEF KVNext, kvVars, BeginAny, Begin, CallSteps, GetReads, GetPurges, SetStores,
                SetNXStores, DeleteStores, TakeStores, Notify, Stores, Refuses, Background,
                Deliver, Cleanup, Configure, Tick, Elsewhere
  <2>. QED
    BY <2>1 DEF Close, Undisturbed, KVTypeOK
<1>5. ASSUME NEW r \in Callers, Home[r] = n, pc[r] # "start" PROVE fresh[r]
  <2>1. pc'[r] # "start"
    BY <1>5 DEF Next, vars, clientVars, RequestSteps, Start, Look, Dropped, Settle, PinLost,
                Reread, Open, Take, EndUpload, DrawAndPin, EditKeys, To, ClientTypeOK
  <2>2. fresh'[r]
    BY <1>5, <2>1 DEF Undisturbed
  <2>3. fresh' = fresh \/ (\E q \in Callers : Start(q)) \/ (\E m \in Nodes : EditKeys(m))
    BY DEF Next, vars, clientVars, RequestSteps, Look, Dropped, Settle, PinLost,
           Reread, Open, Take, EndUpload
  <2>4. ASSUME NEW q \in Callers, Start(q) PROVE fresh[r]
    <3>1. r # q
      BY <1>5, <2>4 DEF Start, At
    <3>. QED
      BY <2>2, <2>4, <3>1 DEF Start, ClientTypeOK
  <2>5. ASSUME NEW m \in Nodes, EditKeys(m) PROVE fresh[r]
    BY <2>2, <2>5 DEF EditKeys
  <2>. QED
    BY <2>2, <2>3, <2>4, <2>5
<1>. QED
  BY <1>2, <1>3, <1>4, <1>5 DEF Undisturbed

\* A request that does nothing is not hurt while the pin keeps its key.
LEMMA OtherFollows ==
  ASSUME NEW r \in Callers, FollowsPin(r),
         pc'[r] = pc[r], pool'[r] = pool[r], choice'[r] = choice[r], call'[r] = call[r],
         result'[r] = result[r],
         supported'[Home[r]] = supported[Home[r]] \/ pc[r] = "start",
         call[r].stamp \in Nat, clock[Home[r]] \in Nat, clock'[Home[r]] \in Nat,
         clock[Home[r]] <= clock'[Home[r]],
         data[Home[r]] # NoEntry =>
           data'[Home[r]] # NoEntry /\ data'[Home[r]].value = data[Home[r]].value
  PROVE  FollowsPin(r)'
<1>1. SessionCall(r)' /\ (Served(r)' => Served(r))
  BY DEF FollowsPin, SessionCall, Served, Here
<1>2. call'[r].stamp <= clock'[Home[r]]
  BY DEF FollowsPin
<1>. QED
  BY <1>1, <1>2 DEF FollowsPin

LEMMA ClocksAreNumbers ==
  ASSUME KVTypeOK
  PROVE  /\ \A n \in Nodes : clock[n] \in Nat
         /\ \A r \in Callers : call[r].stamp \in Nat
BY ClockAssumption DEF KVTypeOK, Calls

\* On an undisturbed node the pin has not expired, for no clock has come so far.
LEMMA PinNotExpired ==
  ASSUME KVTypeOK, NEW n \in Nodes, Undisturbed(n), PinIsGood(n), data[n] # NoEntry,
         NEW t \in Nat, t <= clock[n]
  PROVE  ~Expired(data[n], t)
<1>1. data[n].expires \in Nat /\ data[n].expires >= TTL /\ clock[n] \in Nat
  BY ClocksAreNumbers, ClockAssumption DEF PinIsGood, KVTypeOK, Entries, Stamps
<1>. QED
  BY <1>1, ClockAssumption DEF Expired, Undisturbed

\* A pin that stays where it is stays good.
LEMMA PinStaysGood ==
  ASSUME ClientTypeOK, NEW n \in Nodes, PinIsGood(n), data'[n] = data[n],
         supported'[n] = supported[n], \A r \in Callers : pc[r] # "start" => pc'[r] # "start"
  PROVE  PinIsGood(n)'
BY DEF PinIsGood

\* A step of another node's, or none, changes nothing here.
LEMMA ElsewhereHolds ==
  ASSUME KVTypeOK, KVTypeOK', ClientTypeOK, NEW n \in Nodes, PinHolds(n),
         data'[n] = data[n], supported'[n] = supported[n], clock[n] <= clock'[n],
         \A r \in Callers : Home[r] = n =>
           /\ pc'[r] = pc[r] /\ pool'[r] = pool[r] /\ choice'[r] = choice[r]
           /\ call'[r] = call[r] /\ result'[r] = result[r]
  PROVE  PinHolds(n)'
<1>1. PinIsGood(n)'
  BY DEF PinHolds, PinIsGood
<1>2. ASSUME NEW r \in Callers, Home[r] = n PROVE FollowsPin(r)'
  <2>1. /\ clock[n] \in Nat /\ clock'[n] \in Nat /\ call[r].stamp \in Nat
        /\ FollowsPin(r)
    BY <1>2, ClockAssumption DEF KVTypeOK, Calls, PinHolds
  <2>. QED
    BY <1>2, <2>1, OtherFollows
<1>. QED
  BY <1>1, <1>2 DEF PinHolds

\* A step of one request here that leaves the pin its key.
LEMMA OneStepHolds ==
  ASSUME KVTypeOK, NEW c \in Callers, NEW n \in Nodes, Home[c] = n, PinHolds(n),
         UNCHANGED <<clock, supported>>,
         data[n] # NoEntry => data'[n] # NoEntry /\ data'[n].value = data[n].value,
         \A r \in Callers : r # c =>
           /\ pc'[r] = pc[r] /\ pool'[r] = pool[r] /\ choice'[r] = choice[r]
           /\ call'[r] = call[r] /\ result'[r] = result[r],
         PinIsGood(n)', FollowsPin(c)'
  PROVE  PinHolds(n)'
<1>1. ASSUME NEW r \in Callers, Home[r] = n, r # c PROVE FollowsPin(r)'
  <2>1. clock[n] \in Nat /\ call[r].stamp \in Nat /\ FollowsPin(r) /\ clock[n] <= clock'[n]
    BY <1>1, ClocksAreNumbers DEF PinHolds
  <2>. QED
    BY <1>1, <2>1, OtherFollows
<1>. QED
  BY <1>1 DEF PinHolds

\* The requests of a session, one by one, on an undisturbed node.
LEMMA StartHolds ==
  ASSUME KVTypeOK, ClientTypeOK, NEW c \in Callers, NEW n \in Nodes, Home[c] = n,
         Undisturbed(n), PinHolds(n), Start(c)
  PROVE  PinHolds(n)'
<1>1. /\ pc[c] = "start" /\ pc'[c] = "look" /\ pool'[c] = supported[n] /\ choice' = choice
      /\ supported' = supported /\ Begin(c, "get", Blank)
      /\ \A r \in Callers : r # c => pc'[r] = pc[r] /\ pool'[r] = pool[r]
  BY DEF Start, At, To, ClientTypeOK
<1>2. FollowsPin(c)'
  BY <1>1, BeginEffect, ClocksAreNumbers DEF FollowsPin, SessionCall, Served, Here, Undisturbed
<1>3. PinIsGood(n)'
  BY <1>1, BeginEffect, PinStaysGood DEF PinHolds
<1>. QED
  BY <1>1, <1>2, <1>3, BeginEffect, OneStepHolds

LEMMA LookHolds ==
  ASSUME KVTypeOK, ClientTypeOK, NEW c \in Callers, NEW n \in Nodes, Home[c] = n,
         Undisturbed(n), PinHolds(n), Look(c)
  PROVE  PinHolds(n)'
<1>1. /\ pc[c] = "look" /\ call[c] = Idle /\ supported' = supported /\ pool' = pool
      /\ FollowsPin(c) /\ PinIsGood(n) /\ pool[c] \subseteq Keys /\ ~closed[n]
  BY DEF Look, At, ClientTypeOK, PinHolds, Undisturbed
<1>2. "missing" \notin Keys
  BY ValueAssumption DEF Keys
<1>3. CASE Found(c)
  <2>1. data[n] # NoEntry /\ result[c] = data[n].value
    BY <1>1, <1>2, <1>3 DEF FollowsPin, Found
  <2>2. /\ choice'[c] = result[c] /\ Begin(c, "set", result[c]) /\ pc'[c] = "renew"
        /\ \A r \in Callers : r # c => pc'[r] = pc[r] /\ choice'[r] = choice[r]
    BY <1>3 DEF Look, Gets, To, Stale, Found, ClientTypeOK
  <2>3. FollowsPin(c)'
    BY <1>1, <2>1, <2>2, BeginEffect, ClocksAreNumbers DEF FollowsPin, SessionCall, Served, Here
  <2>4. PinIsGood(n)'
    BY <1>1, <2>2, BeginEffect, PinStaysGood
  <2>. QED
    BY <1>1, <2>2, <2>3, <2>4, BeginEffect, OneStepHolds
<1>4. CASE ~Found(c)
  <2>1. ~Stale(c)
    BY <1>1, <1>2, <1>4 DEF FollowsPin, PinIsGood, Stale, Found
  <2>2. PICK k \in pool[c] : Gets(c, k) /\ Begin(c, "setnx", k)
    BY <1>4, <2>1 DEF Look, DrawAndPin
  <2>3. /\ choice'[c] = k /\ pc'[c] = "pin"
        /\ \A r \in Callers : r # c => pc'[r] = pc[r] /\ choice'[r] = choice[r]
    BY <1>4, <2>1, <2>2 DEF Look, DrawAndPin, Gets, To, ClientTypeOK
  <2>4. FollowsPin(c)'
    BY <1>1, <2>2, <2>3, BeginEffect, ClocksAreNumbers DEF FollowsPin, SessionCall, Served, Here
  <2>5. PinIsGood(n)'
    BY <1>1, <2>2, <2>3, BeginEffect, PinStaysGood
  <2>. QED
    BY <1>1, <2>2, <2>3, <2>4, <2>5, BeginEffect, OneStepHolds
<1>. QED
  BY <1>3, <1>4

LEMMA SettleHolds ==
  ASSUME KVTypeOK, ClientTypeOK, NEW c \in Callers, NEW n \in Nodes, Home[c] = n,
         Undisturbed(n), PinHolds(n), Settle(c)
  PROVE  PinHolds(n)'
<1>1. /\ FollowsPin(c) /\ PinIsGood(n) /\ pc'[c] = "done" /\ call[c] = Idle
      /\ UNCHANGED <<clock, data, call, result, supported, pool, choice>>
      /\ \A r \in Callers : r # c => pc'[r] = pc[r]
  BY DEF Settle, At, To, NoCall, kvVars, PinHolds, ClientTypeOK
<1>2. Served(c) /\ pc[c] # "start"
  BY <1>1 DEF Settle, FollowsPin, Served, At
<1>3. FollowsPin(c)'
  BY <1>1, <1>2 DEF FollowsPin, SessionCall, Served
<1>4. PinIsGood(n)'
  BY <1>1, PinStaysGood
<1>. QED
  BY <1>1, <1>3, <1>4, OneStepHolds

LEMMA PinLostHolds ==
  ASSUME KVTypeOK, ClientTypeOK, NEW c \in Callers, NEW n \in Nodes, Home[c] = n,
         Undisturbed(n), PinHolds(n), PinLost(c)
  PROVE  PinHolds(n)'
<1>1. /\ FollowsPin(c) /\ PinIsGood(n) /\ pc[c] = "pin" /\ pc'[c] = "reread"
      /\ call[c] = Idle /\ result[c] = "exists" /\ ~closed[n]
      /\ UNCHANGED <<supported, pool, choice>> /\ Begin(c, "get", Blank)
      /\ \A r \in Callers : r # c => pc'[r] = pc[r]
  BY DEF PinLost, At, To, PinHolds, ClientTypeOK, Undisturbed
<1>2. FollowsPin(c)'
  BY <1>1, BeginEffect, ClocksAreNumbers DEF FollowsPin, SessionCall, Served, Here
<1>3. PinIsGood(n)'
  BY <1>1, BeginEffect, PinStaysGood
<1>. QED
  BY <1>1, <1>2, <1>3, BeginEffect, OneStepHolds

LEMMA RereadHolds ==
  ASSUME KVTypeOK, ClientTypeOK, NEW c \in Callers, NEW n \in Nodes, Home[c] = n,
         Undisturbed(n), PinHolds(n), Reread(c)
  PROVE  PinHolds(n)'
<1>1. /\ FollowsPin(c) /\ PinIsGood(n) /\ pc[c] = "reread" /\ call[c] = Idle
      /\ UNCHANGED <<supported, pool>>
  BY DEF Reread, At, PinHolds
<1>2. Found(c) /\ ~Stale(c) /\ data[n] # NoEntry /\ result[c] = data[n].value
  BY <1>1 DEF FollowsPin, PinIsGood, Found, Stale
<1>3. /\ choice'[c] = result[c] /\ pc'[c] = "done"
      /\ UNCHANGED <<clock, data, call, result>>
      /\ \A r \in Callers : r # c => pc'[r] = pc[r] /\ choice'[r] = choice[r]
  BY <1>2 DEF Reread, Gets, To, NoCall, kvVars, ClientTypeOK
<1>4. FollowsPin(c)'
  BY <1>1, <1>2, <1>3 DEF FollowsPin, SessionCall, Served
<1>5. PinIsGood(n)'
  BY <1>1, <1>3, PinStaysGood
<1>. QED
  BY <1>1, <1>3, <1>4, <1>5, OneStepHolds

LEMMA EditKeysHolds ==
  ASSUME KVTypeOK, KVTypeOK', ClientTypeOK, NEW n \in Nodes, Undisturbed(n)', PinHolds(n),
         NEW m \in Nodes, EditKeys(m)
  PROVE  PinHolds(n)'
<1>1. UNCHANGED <<clock, data, call, result, pc, pool, choice>>
  BY DEF EditKeys, Elsewhere
<1>2. CASE m # n
  <2>1. supported'[n] = supported[n]
    BY <1>2 DEF EditKeys, ClientTypeOK
  <2>. QED
    BY <1>1, <2>1, ClocksAreNumbers, ElsewhereHolds
<1>3. CASE m = n
  <2>1. \A r \in Callers : Home[r] = n => pc[r] = "start"
    BY <1>1, <1>3 DEF EditKeys, Undisturbed
  <2>2. PinIsGood(n)'
    BY <1>1, <2>1 DEF PinHolds, PinIsGood
  <2>3. ASSUME NEW r \in Callers, Home[r] = n PROVE FollowsPin(r)'
    <3>1. FollowsPin(r) /\ clock[n] \in Nat /\ call[r].stamp \in Nat /\ clock'[n] = clock[n]
      BY <1>1, <2>3, ClocksAreNumbers DEF PinHolds
    <3>. QED
      BY <1>1, <2>1, <2>3, <3>1, OtherFollows
  <2>. QED
    BY <2>2, <2>3 DEF PinHolds
<1>. QED
  BY <1>2, <1>3

\* The store's own steps under a session: nobody removes or replaces the pin.
LEMMA CallStepHolds ==
  ASSUME KVTypeOK, ClientTypeOK, NEW c \in Callers, NEW n \in Nodes, Home[c] = n,
         Undisturbed(n), PinHolds(n), CallSteps(c), UNCHANGED clientVars
  PROVE  PinHolds(n)'
<1>1. /\ FollowsPin(c) /\ PinIsGood(n) /\ SessionCall(c) /\ call[c].stamp <= clock[n]
      /\ call[c].stamp \in Nat /\ UNCHANGED <<pc, pool, choice, supported>>
  BY ClocksAreNumbers DEF PinHolds, FollowsPin, clientVars
<1>2. data[n] # NoEntry => ~Expired(data[n], call[c].stamp)
  BY <1>1, PinNotExpired
<1>3. GetReads(c) \/ SetStores(c) \/ SetNXStores(c) \/ Notify(c)
  BY <1>1, IdlePhase DEF CallSteps, GetPurges, DeleteStores, TakeStores, Here, SessionCall
<1>4. ASSUME Stores(c, Written(c)), call[c] # Idle, call[c].phase = "stamped",
             pc[c] \in {"renew", "pin"}, call[c].value = choice[c], choice[c] \in supported[n],
             data[n] # NoEntry => choice[c] = data[n].value
      PROVE  PinHolds(n)'
  <2>1. /\ call'[c] # Idle /\ call'[c].phase = "notify" /\ call'[c].op = call[c].op
        /\ call'[c].value = call[c].value /\ call'[c].stamp = call[c].stamp
        /\ \A d \in Callers : d # c => call'[d] = call[d]
    BY <1>4, GoesEffect DEF Stores
  <2>2. UNCHANGED <<clock, result>> /\ data'[n] = Written(c)
    BY <1>4 DEF Stores, KVTypeOK
  <2>3. data'[n] # NoEntry
    BY <2>2, WrittenType, EntryAssumption DEF KVTypeOK
  <2>4. data'[n].value = choice[c] /\ data'[n].expires >= TTL
    BY <1>1, <1>4, <2>2, LifetimeAssumption, ClockAssumption DEF Written, ExpiryOf
  <2>5. FollowsPin(c)'
    BY <1>1, <1>4, <2>1, <2>2, <2>3, <2>4 DEF FollowsPin, SessionCall, Served, Here
  <2>6. PinIsGood(n)'
    BY <1>1, <1>4, <2>4 DEF PinIsGood
  <2>. QED
    BY <1>1, <1>4, <2>1, <2>2, <2>3, <2>4, <2>5, <2>6, OneStepHolds
<1>5. ASSUME NEW r, Return(c, r), data' = data, clock' = clock, FollowsPin(c)'
      PROVE  PinHolds(n)'
  <2>1. PinIsGood(n)'
    BY <1>1, <1>5, PinStaysGood
  <2>. QED
    BY <1>1, <1>5, <2>1, ReturnEffect, OneStepHolds
<1>6. CASE GetReads(c)
  <2>1. pc[c] \in {"look", "reread"} /\ call[c] # Idle
    BY <1>1, <1>6, IdlePhase DEF GetReads, SessionCall, Here
  <2>2. data' = data /\ clock' = clock
    BY <1>6 DEF GetReads
  <2>3. CASE data[n] = NoEntry /\ Return(c, "missing")
    <3>1. FollowsPin(c)'
      BY <1>1, <2>1, <2>2, <2>3, ReturnEffect, IdlePhase, ClocksAreNumbers
      DEF FollowsPin, SessionCall, Served
    <3>. QED
      BY <1>5, <2>2, <2>3, <3>1
  <2>4. CASE data[n] # NoEntry /\ Return(c, data[n].value)
    <3>1. FollowsPin(c)'
      BY <1>1, <2>1, <2>2, <2>4, ReturnEffect, IdlePhase, ClocksAreNumbers
      DEF FollowsPin, SessionCall, Served
    <3>. QED
      BY <1>5, <2>2, <2>4, <3>1
  <2>. QED
    BY <1>2, <1>6, <2>3, <2>4 DEF GetReads
<1>7. CASE SetStores(c)
  <2>1. call[c] # Idle /\ pc[c] = "renew" /\ call[c].value = choice[c] /\ call[c].phase = "stamped"
    BY <1>1, <1>7, IdlePhase DEF SetStores, SessionCall, Here
  <2>2. data[n] # NoEntry /\ choice[c] = data[n].value /\ choice[c] \in supported[n]
    BY <1>1, <2>1 DEF FollowsPin, Served, PinIsGood
  <2>. QED
    BY <1>4, <1>7, <2>1, <2>2 DEF SetStores
<1>8. CASE SetNXStores(c)
  <2>1. call[c] # Idle /\ pc[c] = "pin" /\ call[c].value = choice[c] /\ call[c].phase = "stamped"
    BY <1>1, <1>8, IdlePhase DEF SetNXStores, SessionCall, Here
  <2>2. choice[c] \in supported[n]
    BY <1>1, <2>1 DEF FollowsPin
  <2>3. CASE data[n] = NoEntry
    BY <1>4, <1>8, <2>1, <2>2, <2>3 DEF SetNXStores
  <2>4. CASE data[n] # NoEntry
    <3>1. Return(c, "exists") /\ data' = data /\ clock' = clock
      BY <1>2, <1>8, <2>4 DEF SetNXStores, Refuses
    <3>2. FollowsPin(c)'
      BY <1>1, <2>1, <2>4, <3>1, ReturnEffect, IdlePhase, ClocksAreNumbers
      DEF FollowsPin, SessionCall, Served
    <3>. QED
      BY <1>5, <3>1, <3>2
  <2>. QED
    BY <2>3, <2>4
<1>9. CASE Notify(c)
  <2>1. /\ pc[c] \in {"renew", "pin"} /\ call[c].op \in {"set", "setnx"}
        /\ call[c].phase = "notify" /\ call[c] # Idle /\ Served(c)
    BY <1>1, <1>9, IdlePhase DEF Notify, SessionCall, Here, Served
  <2>2. Return(c, "ok") /\ data' = data /\ clock' = clock
    BY <1>9, <2>1 DEF Notify
  <2>3. FollowsPin(c)'
    BY <1>1, <2>1, <2>2, ReturnEffect, IdlePhase, ClocksAreNumbers
    DEF FollowsPin, SessionCall, Served
  <2>. QED
    BY <1>5, <2>2, <2>3
<1>. QED
  BY <1>3, <1>6, <1>7, <1>8, <1>9

LEMMA BackgroundHolds ==
  ASSUME KVTypeOK, KVTypeOK', ClientTypeOK, NEW n \in Nodes, Undisturbed(n), Undisturbed(n)',
         PinHolds(n), Background, UNCHANGED clientVars
  PROVE  PinHolds(n)'
<1>1. UNCHANGED <<call, result, pc, pool, choice, supported>>
  BY DEF Background, Deliver, Cleanup, Close, Configure, Tick, clientVars
<1>2. data'[n] = data[n]
  <2>1. ASSUME NEW m \in net, Deliver(m[1], m[2]) PROVE data'[n] = data[n]
    <3>1. m[1] # n
      BY <2>1 DEF Deliver, Undisturbed, KVTypeOK
    <3>. QED
      BY <2>1, <3>1 DEF Deliver, KVTypeOK
  <2>2. ASSUME NEW m \in Nodes, Cleanup(m) PROVE data'[n] = data[n]
    <3>1. CASE m = n
      <4>1. data[n] # NoEntry => ~Expired(data[n], clock[n])
        <5>1. clock[n] \in Nat /\ PinIsGood(n)
          BY ClocksAreNumbers DEF PinHolds
        <5>. QED
          BY <5>1, PinNotExpired
      <4>. QED
        BY <2>2, <3>1, <4>1 DEF Cleanup, Purged
    <3>2. CASE m # n
      BY <2>2, <3>2 DEF Cleanup, KVTypeOK
    <3>. QED
      BY <3>1, <3>2
  <2>3. ASSUME NEW m \in Nodes, Close(m) \/ Configure(m) \/ Tick(m) PROVE data'[n] = data[n]
    BY <2>3 DEF Close, Configure, Tick
  <2>. QED
    BY <2>1, <2>2, <2>3 DEF Background
<1>3. clock[n] <= clock'[n]
  <2>1. clock' = clock \/ \E m \in Nodes : Tick(m)
    BY DEF Background, Deliver, Cleanup, Close, Configure
  <2>. QED
    BY <2>1, ClockAssumption, ClocksAreNumbers DEF Tick, KVTypeOK
<1>. QED
  BY <1>1, <1>2, <1>3, ElsewhereHolds

LEMMA SessionStep ==
  ASSUME KVTypeOK, KVTypeOK', ClientTypeOK, usage = "session", SessionInv, [Next]_vars
  PROVE  SessionInv'
<1>. SUFFICES ASSUME NEW n \in Nodes, Undisturbed(n)' PROVE PinHolds(n)'
  BY DEF SessionInv
<1>1. Undisturbed(n) /\ PinHolds(n)
  BY UndisturbedBefore DEF SessionInv
<1>2. ASSUME NEW c \in Callers, RequestSteps(c), Home[c] = n PROVE PinHolds(n)'
  <2>1. pc[c] \in {"start", "look", "renew", "pin", "reread", "done"}
    BY <1>1, <1>2 DEF PinHolds, FollowsPin
  <2>2. Start(c) \/ Look(c) \/ Settle(c) \/ PinLost(c) \/ Reread(c)
    BY <1>2, <2>1 DEF RequestSteps, Dropped, Open, Take, EndUpload, At
  <2>. QED
    BY <1>1, <1>2, <2>2, StartHolds, LookHolds, SettleHolds, PinLostHolds, RereadHolds
<1>3. ASSUME NEW c \in Callers, Home[c] # n,
             RequestSteps(c) \/ (CallSteps(c) /\ UNCHANGED clientVars)
      PROVE  PinHolds(n)'
  <2>1. /\ data'[n] = data[n] /\ supported' = supported /\ clock' = clock
        /\ \A r \in Callers : r # c => call'[r] = call[r] /\ result'[r] = result[r]
    <3>1. ASSUME RequestSteps(c)
          PROVE  /\ data' = data /\ supported' = supported /\ clock' = clock
                 /\ \A r \in Callers : r # c => call'[r] = call[r] /\ result'[r] = result[r]
      <4>1. supported' = supported
        BY <3>1 DEF RequestSteps, Start, Look, Dropped, Settle, PinLost, Reread, Open, Take,
                    EndUpload
      <4>2. NoCall \/ \E op, v : Begin(c, op, v)
        BY <3>1 DEF RequestSteps, Start, Look, Dropped, Settle, PinLost, Reread, Open, Take,
                    EndUpload, DrawAndPin
      <4>. QED
        BY <4>1, <4>2, BeginEffect DEF NoCall, kvVars
    <3>2. ASSUME CallSteps(c), UNCHANGED clientVars
          PROVE  /\ data'[n] = data[n] /\ supported' = supported /\ clock' = clock
                 /\ \A r \in Callers : r # c => call'[r] = call[r] /\ result'[r] = result[r]
      BY <1>3, <3>2
      DEF CallSteps, GetReads, GetPurges, SetStores, SetNXStores, DeleteStores, TakeStores,
          Notify, Stores, Refuses, Return, Goes, KVTypeOK, clientVars
    <3>. QED
      BY <1>3, <3>1, <3>2
  <2>2. \A r \in Callers : r # c => pc'[r] = pc[r] /\ pool'[r] = pool[r] /\ choice'[r] = choice[r]
    <3>1. ASSUME RequestSteps(c)
          PROVE  \A r \in Callers : r # c =>
                   pc'[r] = pc[r] /\ pool'[r] = pool[r] /\ choice'[r] = choice[r]
      BY <3>1 DEF RequestSteps, Start, Look, Dropped, Settle, PinLost, Reread, Open, Take,
                  EndUpload, DrawAndPin, To, Gets, ClientTypeOK
    <3>. QED
      BY <1>3, <3>1 DEF clientVars
  <2>. QED
    BY <1>1, <1>3, <2>1, <2>2, ClocksAreNumbers, ElsewhereHolds
<1>4. ASSUME NEW m \in Nodes, EditKeys(m) PROVE PinHolds(n)'
  BY <1>1, <1>4, EditKeysHolds
<1>5. ASSUME NEW c \in Callers, CallSteps(c), UNCHANGED clientVars, Home[c] = n PROVE PinHolds(n)'
  BY <1>1, <1>5, CallStepHolds
<1>6. ASSUME Background, UNCHANGED clientVars PROVE PinHolds(n)'
  BY <1>1, <1>6, BackgroundHolds
<1>7. CASE UNCHANGED vars
  <2>1. UNCHANGED <<data, supported, clock, pc, pool, choice, call, result>>
    BY <1>7 DEF vars
  <2>. QED
    BY <1>1, <2>1, ClocksAreNumbers, ElsewhereHolds
<1>. QED
  BY <1>2, <1>3, <1>4, <1>5, <1>6, <1>7 DEF Next

-----------------------------------------------------------------------------
ClientInv == TypeOK /\ UploadInv /\ SessionInv

LEMMA ClientInvInit == Init => ClientInv
<1>. SUFFICES ASSUME Init PROVE ClientInv
  OBVIOUS
<1>1. TypeOK
  BY KVTypeInit, ClientTypeInit DEF Init, TypeOK
<1>2. UploadInv
  BY ErrorsAreNoRecords, InitiatorAssumption
  DEF Init, KVInit, UploadInv, UploadShape, RecordOnce, Has, Here, Coming, Sent, Idle
<1>3. SessionInv
  BY ClockAssumption
  DEF Init, KVInit, SessionInv, PinHolds, PinIsGood, FollowsPin, SessionCall, Served, Idle
<1>. QED
  BY <1>1, <1>2, <1>3 DEF ClientInv

LEMMA UsageIsForGood == [Next]_vars => usage' = usage
BY DEF Next, vars, clientVars, RequestSteps, Start, Look, Dropped, Settle, PinLost, Reread,
       Open, Take, EndUpload, EditKeys

LEMMA ClientInvNext == ClientInv /\ [Next]_vars => ClientInv'
<1>. SUFFICES ASSUME ClientInv, [Next]_vars PROVE ClientInv'
  OBVIOUS
<1>1. KVTypeOK' /\ ClientTypeOK'
  BY KVTypeNext, ClientTypeNext, StoreStep DEF ClientInv, TypeOK
<1>2. UploadInv'
  BY UploadStep, UsageIsForGood DEF ClientInv, TypeOK, UploadInv
<1>3. SessionInv'
  <2>1. CASE usage = "session"
    BY <1>1, <2>1, SessionStep DEF ClientInv, TypeOK
  <2>2. CASE usage # "session"
    BY <2>2, UsageIsForGood DEF SessionInv
  <2>. QED
    BY <2>1, <2>2
<1>. QED
  BY <1>1, <1>2, <1>3 DEF ClientInv, TypeOK

LEMMA ClientInvariance == Spec => []ClientInv
BY ClientInvInit, ClientInvNext, PTL DEF Spec

\* However many requests of a node ask for an upload's record, and however late
\* its copy arrives there, one of them gets it. (genai.go:410, GetAndDelete)
THEOREM RecordHandedOutOnce == Spec => []RecordTakenOnce
<1>1. ClientInv => RecordTakenOnce
  BY HomeAssumption DEF ClientInv, UploadInv, RecordOnce, Has, RecordTakenOnce
<1>. QED
  BY <1>1, ClientInvariance, PTL

\* However many requests of a session race for the pin, on an undisturbed node
\* those that have got a key have got the same one. (unifai.go:8311-8373)
THEOREM SessionsStickToOneKey == Spec => []SessionsStick
<1>1. ClientInv => SessionsStick
  <2>. SUFFICES ASSUME ClientInv, NEW r \in Callers, NEW s \in Callers,
                       SessionDone(r), SessionDone(s), Home[r] = Home[s], Undisturbed(Home[r])
                PROVE  choice[r] = choice[s]
    BY DEF SessionsStick
  <2>1. FollowsPin(r) /\ FollowsPin(s)
    BY HomeAssumption DEF ClientInv, SessionInv, SessionDone, PinHolds
  <2>. QED
    BY <2>1 DEF FollowsPin, Served, SessionDone
<1>. QED
  BY <1>1, ClientInvariance, PTL
=============================================================================
