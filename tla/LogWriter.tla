----------------------------- MODULE LogWriter -----------------------------
(***************************************************************************)
(* The logging plugin, from the hooks that build a log entry to the row in *)
(* the log store.  An LLM attempt with a trace waits in the trace's record *)
(* until the trace completes, one without a trace and a tool execution go  *)
(* straight to the write queue.  A trace completes when its handler        *)
(* returns; a worker may still run the post-hook of a call whose client    *)
(* has gone (billAbandonedTerminal).  One goroutine, the batch writer,     *)
(* reads the queue; Cleanup takes the queue over from it and drains it.  A *)
(* second goroutine sweeps what has waited for pendingLogTTL.              *)
(***************************************************************************)
EXTENDS Naturals, SequencesExt, FiniteSetsExt

CONSTANTS
  Logs,          \* the attempts and tool executions, by the ID of their row
  Trace,         \* the one trace there is
  Kinds,         \* what the logs may be
  QueueCap,      \* writerConfig.WriteQueueCapacity
  MaxBatch,      \* writerConfig.MaxBatchSize
  DeferredSlots  \* writerConfig.DeferredUsageConcurrency

ASSUME LogsAssumption ==
  Trace \notin Logs /\ Kinds \subseteq [Logs -> {"traced", "direct", "tool"}]
ASSUME LimitsAssumption == {QueueCap, MaxBatch, DeferredSlots} \subseteq Nat \ {0}

VARIABLES
  kind,      \* what each log is: an attempt of the trace, one without, or a tool
  pc,        \* where each log is, from the pre-hook to its send
  pending,   \* the logs whose pre-hook data waits in a map
  old,       \* the pending logs, and the trace's record, older than the TTL
  complete,  \* the trace has completed
  sweeper,   \* the goroutine of the cleanup ticker
  queue,     \* the channel writeQueue
  shut,      \* that channel is closed
  writer,    \* the batch writer
  batch,     \* its batch, or the one it has handed back
  timer,     \* its batch timer
  closed,    \* the flag producers look at
  cleanup,   \* where Cleanup is
  left,      \* the entries drainPending still has to write
  deferred,  \* the deferred usage update of each log
  rows,      \* the log store
  counted,   \* the entries droppedRequests counts
  accepted,  \* history: the entries sent before Cleanup took the queue over
  missed,    \* history: the logs that came to the trace's record too late
  swept,     \* history: the logs whose data the sweeper has removed
  finished   \* history: the tools whose post-hook found their data

Tools == {l \in Logs : kind[l] = "tool"}
Traced == {l \in Logs : kind[l] = "traced"}

hooks == <<kind, pc, pending, old, complete, missed, finished>>
channel == <<queue, shut, accepted>>
writing == <<writer, batch, timer>>
closing == <<closed, cleanup, left>>
store == <<rows, counted>>
vars == <<hooks, channel, writing, closing, store, sweeper, swept, deferred>>

\* What is sent: the row of a log, as its post-hook or the sweeper fills it in.
Entry(l, status) == [log |-> l, status |-> status]
EntriesOfLogs == [log : Logs, status : {"final", "stale"}]

\* The sweeper between two entries, or gone.
Free == [step |-> "free", log |-> Trace]
Gone == [step |-> "gone", log |-> Trace]

\* Every variable is well formed, the queue and the batch within their limits.
TypeOK ==
  /\ kind \in Kinds
  /\ pc \in [Logs -> {"new", "running", "append", "held", "built", "checked", "end", "never"}]
  /\ pending \subseteq Logs /\ old \subseteq Logs \union {Trace}
  /\ complete \in BOOLEAN /\ missed \subseteq Traced
  /\ sweeper \in [step : {"judged", "built", "checked"}, log : Logs] \union {Free, Gone}
  /\ queue \in Seq(EntriesOfLogs) /\ Len(queue) <= QueueCap /\ shut \in BOOLEAN
  /\ writer \in {"select", "write", "gone"} /\ batch \in Seq(EntriesOfLogs)
  /\ Len(batch) <= MaxBatch /\ timer \in {"off", "set", "fired"}
  /\ closed \in BOOLEAN
  /\ cleanup \in {"no", "begun", "closed", "cancelled", "draining", "waiting", "returned"}
  /\ left \in Seq(EntriesOfLogs)
  /\ deferred \in [Logs -> {"no", "receiving", "updating"}]
  /\ rows \in [Logs -> {"none", "final", "stale"}]
  /\ counted \subseteq EntriesOfLogs /\ accepted \subseteq EntriesOfLogs
  /\ swept \subseteq Logs /\ finished \subseteq Tools

Init ==
  /\ kind \in Kinds
  /\ pc = [l \in Logs |-> "new"] /\ pending = {} /\ old = {}
  /\ complete = FALSE /\ missed = {} /\ finished = {}
  /\ queue = <<>> /\ shut = FALSE /\ accepted = {}
  /\ writer = "select" /\ batch = <<>> /\ timer = "off"
  /\ closed = FALSE /\ cleanup = "no" /\ left = <<>>
  /\ rows = [l \in Logs |-> "none"] /\ counted = {}
  /\ sweeper = Free /\ swept = {}
  /\ deferred = [l \in Logs |-> "no"]

-----------------------------------------------------------------------------
To(l, there) == pc' = [pc EXCEPT ![l] = there]

\* PreLLMHook, PreMCPHook.
PreHook(l) ==
  /\ pc[l] = "new"
  /\ To(l, "running")
  /\ pending' = pending \union {l}
  /\ UNCHANGED <<kind, old, complete, missed, finished, channel, writing, closing, store,
                 sweeper, swept, deferred>>

\* A chunk of a stream: PostLLMHook refreshes the data it finds.
Chunk(l) ==
  /\ l \notin Tools /\ pc[l] = "running" /\ l \in pending /\ l \in old
  /\ old' = old \ {l}
  /\ UNCHANGED <<kind, pc, pending, complete, missed, finished, channel, writing, closing,
                 store, sweeper, swept, deferred>>

\* The post-hook takes the data out of the map.
TakePending(l) ==
  /\ pc[l] = "running"
  /\ pending' = pending \ {l} /\ old' = old \ {l}
  /\ finished' = IF l \in Tools \intersect pending THEN finished \union {l} ELSE finished

\* Variant: as if LoadOrStore's finding a record ended it.
StoreFirst(l) ==
  To(l, IF l \notin Traced THEN "built"
        ELSE IF \E m \in Traced : pc[m] = "held" THEN "end" ELSE "held")

\* storeOrEnqueueEntry: the first entry of a trace makes the record, a later one
\* finds it and will be appended; without a trace the entry is for the queue.
Store(l) ==
  To(l, IF l \notin Traced THEN "built"
        ELSE IF \E m \in Traced : pc[m] = "held" THEN "append" ELSE "held")

\* The end of an attempt whose data is there, or that failed, and a usage update
\* that may be scheduled.  What comes after the trace's completion is missed.
PostLLMHook(l) ==
  /\ l \notin Tools
  /\ TakePending(l)
  /\ Store(l)
  /\ missed' = IF complete THEN missed \union ({l} \intersect Traced) ELSE missed
  /\ \/ UNCHANGED deferred
     \/ l \in pending /\ deferred' = [deferred EXCEPT ![l] = "receiving"]
  /\ UNCHANGED <<kind, complete, channel, writing, closing, store, sweeper, swept>>

\* The record that was found is there still.
AppendEntry(l) ==
  /\ pc[l] = "append"
  /\ To(l, "held")
  /\ UNCHANGED <<kind, pending, old, complete, missed, finished, channel, writing, closing,
                 store, sweeper, swept, deferred>>

\* A success whose data has been swept is not logged.
PostLLMHookSkips(l) ==
  /\ l \notin Tools /\ l \notin pending
  /\ TakePending(l)
  /\ To(l, "end")
  /\ UNCHANGED <<kind, complete, missed, channel, writing, closing, store, sweeper, swept,
                 deferred>>

PostMCPHook(l) ==
  /\ l \in Tools
  /\ TakePending(l)
  /\ To(l, "built")
  /\ UNCHANGED <<kind, complete, missed, channel, writing, closing, store, sweeper, swept,
                 deferred>>

\* The trace completes, and the entries of its record are sent (Inject sends them
\* one after the other, here in any order).  An entry on its way into the record,
\* which nothing locks, may be among them or not; an attempt that still runs is
\* one whose client has gone.
Inject ==
  /\ Traced # {} /\ ~complete /\ complete' = TRUE
  /\ \E lost \in SUBSET {l \in Logs : pc[l] = "append"} :
        /\ pc' = [l \in Logs |->
             IF l \in lost THEN "end"
             ELSE IF pc[l] \in {"held", "append"} THEN "built"
             ELSE IF l \in Traced /\ pc[l] = "new" THEN "never" ELSE pc[l]]
        /\ missed' = missed \union lost
  /\ old' = old \ {Trace}
  /\ UNCHANGED <<kind, pending, finished, channel, writing, closing, store, sweeper, swept,
                 deferred>>

\* What has waited for pendingLogTTL.
GrowOld ==
  /\ \E x \in pending \union {t \in {Trace} : \E l \in Traced : pc[l] = "held"} :
        x \notin old /\ old' = old \union {x}
  /\ UNCHANGED <<kind, pc, pending, complete, missed, finished, channel, writing, closing,
                 store, sweeper, swept, deferred>>

-----------------------------------------------------------------------------
\* Cleanup has taken the queue over, and nobody reads it any more.
Drained == cleanup \in {"draining", "waiting", "returned"}

\* The send of enqueueLogEntry: a full queue drops the entry, and so does the
\* recovery from a send on a closed channel.
Send(e) ==
  IF Len(queue) < QueueCap /\ ~shut
  THEN /\ queue' = Append(queue, e)
       /\ accepted' = IF Drained THEN accepted ELSE accepted \union {e}
       /\ UNCHANGED <<shut, counted>>
  ELSE counted' = counted \union {e} /\ UNCHANGED channel

\* The flag is looked at first: after Cleanup has begun nothing is sent.
Check(l) ==
  /\ pc[l] = "built"
  /\ To(l, IF closed THEN "end" ELSE "checked")
  /\ UNCHANGED <<kind, pending, old, complete, missed, finished, channel, writing, closing,
                 store, sweeper, swept, deferred>>

Enqueue(l) ==
  /\ pc[l] = "checked"
  /\ Send(Entry(l, "final"))
  /\ To(l, "end")
  /\ UNCHANGED <<kind, pending, old, complete, missed, finished, writing, closing, rows,
                 sweeper, swept, deferred>>

-----------------------------------------------------------------------------
\* cleanupStalePendingLogs visits an old LLM attempt or tool.
Judge ==
  /\ sweeper = Free
  /\ \E l \in pending \intersect old : sweeper' = [step |-> "judged", log |-> l]
  /\ UNCHANGED <<hooks, channel, writing, closing, store, swept, deferred>>

\* Variant: as if the tool's record were deleted without looking whether it was
\* still there.
SweepUnlooked ==
  LET l == sweeper.log IN
  /\ sweeper.step = "judged"
  /\ pending' = pending \ {l} /\ old' = old \ {l}
  /\ swept' = IF l \in pending THEN swept \union {l} ELSE swept
  /\ sweeper' = IF l \in Tools THEN [step |-> "built", log |-> l] ELSE Free
  /\ UNCHANGED <<kind, pc, complete, missed, finished, channel, writing, closing, store,
                 deferred>>

\* It removes what it has judged, if it is still there; a tool's record becomes
\* an error row.
Sweep ==
  LET l == sweeper.log IN
  /\ sweeper.step = "judged"
  /\ pending' = pending \ {l} /\ old' = old \ {l}
  /\ swept' = IF l \in pending THEN swept \union {l} ELSE swept
  /\ sweeper' = IF l \in Tools \intersect pending THEN [step |-> "built", log |-> l] ELSE Free
  /\ UNCHANGED <<kind, pc, complete, missed, finished, channel, writing, closing, store,
                 deferred>>

\* An old trace's record goes, with every attempt's entry.
SweepTrace ==
  LET gone == {l \in Logs : pc[l] \in {"append", "held"}} IN
  /\ sweeper = Free /\ Trace \in old
  /\ pc' = [l \in Logs |-> IF l \in gone THEN "end" ELSE pc[l]]
  /\ old' = old \ {Trace}
  /\ swept' = swept \union gone
  /\ UNCHANGED <<kind, pending, complete, missed, finished, channel, writing, closing, store,
                 sweeper, deferred>>

SweeperSends ==
  /\ \/ /\ sweeper.step = "built"
        /\ sweeper' = IF closed THEN Free ELSE [sweeper EXCEPT !.step = "checked"]
        /\ UNCHANGED <<channel, counted>>
     \/ /\ sweeper.step = "checked"
        /\ sweeper' = Free
        /\ Send(Entry(sweeper.log, "stale"))
  /\ UNCHANGED <<hooks, writing, closing, rows, swept, deferred>>

SweeperEnds ==
  /\ sweeper = Free /\ cleanup # "no"
  /\ sweeper' = Gone
  /\ UNCHANGED <<hooks, channel, writing, closing, store, swept, deferred>>

-----------------------------------------------------------------------------
\* processBatch: any part of a batch may fail to be inserted, and is counted;
\* after a panic all of it is.  A row that exists is left alone.
Process(b) ==
  \E ok \in SUBSET DOMAIN b :
    /\ rows' = [l \in Logs |->
         LET mine == {i \in ok : b[i].log = l}
         IN  IF rows[l] # "none" \/ mine = {} THEN rows[l] ELSE b[Min(mine)].status]
    /\ counted' \in {counted \union {b[i] : i \in DOMAIN b \ ok}, counted \union ToSet(b)}

\* Variant: as if the batch were compared with > instead of >=.
WriterTakesOneMore ==
  /\ writer = "select" /\ queue # <<>>
  /\ queue' = Tail(queue)
  /\ batch' = Append(batch, Head(queue))
  /\ IF Len(batch') > MaxBatch
     THEN writer' = "write" /\ timer' = "off"
     ELSE timer' = (IF timer = "off" THEN "set" ELSE timer) /\ UNCHANGED writer
  /\ UNCHANGED <<hooks, shut, accepted, closing, store, sweeper, swept, deferred>>

\* Variant: as if nothing started the timer.
WriterTakesNoTimer ==
  /\ writer = "select" /\ queue # <<>>
  /\ queue' = Tail(queue)
  /\ batch' = Append(batch, Head(queue))
  /\ IF Len(batch') >= MaxBatch THEN writer' = "write" ELSE UNCHANGED writer
  /\ UNCHANGED timer
  /\ UNCHANGED <<hooks, shut, accepted, closing, store, sweeper, swept, deferred>>

\* The batch writer takes an entry: the timer starts with the first of a batch
\* and stops when the batch is full.  (The channel is closed only after the
\* writer is gone.)
WriterTakes ==
  /\ writer = "select" /\ queue # <<>>
  /\ queue' = Tail(queue)
  /\ batch' = Append(batch, Head(queue))
  /\ IF Len(batch') >= MaxBatch
     THEN writer' = "write" /\ timer' = "off"
     ELSE timer' = (IF timer = "off" THEN "set" ELSE timer) /\ UNCHANGED writer
  /\ UNCHANGED <<hooks, shut, accepted, closing, store, sweeper, swept, deferred>>

TimerFires ==
  /\ timer = "set" /\ timer' = "fired"
  /\ UNCHANGED <<hooks, channel, writer, batch, closing, store, sweeper, swept, deferred>>

WriterTimer ==
  /\ writer = "select" /\ timer = "fired"
  /\ timer' = "off"
  /\ writer' = "write"
  /\ UNCHANGED <<hooks, channel, batch, closing, store, sweeper, swept, deferred>>

WriterWrites ==
  /\ writer = "write"
  /\ Process(batch)
  /\ batch' = <<>>
  /\ writer' = "select"
  /\ UNCHANGED <<hooks, channel, timer, closing, sweeper, swept, deferred>>

\* Variant: as if the writer went without closing batchWriterDone.
WriterStays ==
  /\ writer = "select" /\ cleanup = "cancelled" /\ queue = <<>>
  /\ UNCHANGED vars

\* The batch stays behind for Cleanup.
WriterEnds ==
  /\ writer = "select" /\ cleanup = "cancelled"
  /\ writer' = "gone"
  /\ UNCHANGED <<hooks, channel, batch, timer, closing, store, sweeper, swept, deferred>>

-----------------------------------------------------------------------------
CleanupBegins ==
  /\ cleanup = "no" /\ cleanup' = "begun"
  /\ UNCHANGED <<hooks, channel, writing, closed, left, store, sweeper, swept, deferred>>

CleanupCloses ==
  /\ cleanup = "begun" /\ cleanup' = "closed"
  /\ closed' = TRUE
  /\ UNCHANGED <<hooks, channel, writing, left, store, sweeper, swept, deferred>>

CleanupCancels ==
  /\ cleanup = "closed" /\ cleanup' = "cancelled"
  /\ UNCHANGED <<hooks, channel, writing, closed, left, store, sweeper, swept, deferred>>

\* Variant: as if drainPending forgot the recovered batch.
CleanupTakesQueue ==
  /\ cleanup = "cancelled" /\ writer = "gone"
  /\ cleanup' = "draining"
  /\ left' = queue /\ batch' = <<>> /\ queue' = <<>>
  /\ UNCHANGED <<hooks, shut, accepted, writer, timer, closed, store, sweeper, swept, deferred>>

\* Variant: as if Cleanup did not wait for the writer.
CleanupTakesAtOnce ==
  /\ cleanup = "cancelled"
  /\ cleanup' = "draining"
  /\ left' = queue /\ queue' = <<>>
  /\ UNCHANGED <<hooks, shut, accepted, writing, closed, store, sweeper, swept, deferred>>

\* The handoff: what the writer had in hand, then what is in the channel.
CleanupTakes ==
  /\ cleanup = "cancelled" /\ writer = "gone"
  /\ cleanup' = "draining"
  /\ left' = batch \o queue /\ batch' = <<>> /\ queue' = <<>>
  /\ UNCHANGED <<hooks, shut, accepted, writer, timer, closed, store, sweeper, swept, deferred>>

CleanupWrites ==
  /\ cleanup = "draining" /\ left # <<>>
  /\ LET n == Min({MaxBatch, Len(left)})
     IN  Process(SubSeq(left, 1, n)) /\ left' = SubSeq(left, n + 1, Len(left))
  /\ UNCHANGED <<hooks, channel, writing, closed, cleanup, sweeper, swept, deferred>>

\* The deadline passes between two chunks.
CleanupGivesUp ==
  /\ cleanup = "draining" /\ left # <<>>
  /\ counted' = counted \union ToSet(left) /\ left' = <<>>
  /\ UNCHANGED <<hooks, channel, writing, closed, cleanup, rows, sweeper, swept, deferred>>

CleanupShuts ==
  /\ cleanup = "draining" /\ left = <<>>
  /\ cleanup' = "waiting" /\ shut' = TRUE
  /\ UNCHANGED <<hooks, queue, accepted, writing, closed, left, store, sweeper, swept,
                 deferred>>

CleanupReturnsNow ==
  /\ cleanup = "waiting" /\ sweeper = Gone /\ \A l \in Logs : deferred[l] = "no"
  /\ cleanup' = "returned"
  /\ UNCHANGED <<hooks, channel, writing, closed, left, store, sweeper, swept, deferred>>

CleanupSteps ==
  \/ CleanupCloses \/ CleanupCancels \/ CleanupTakes \/ CleanupWrites
  \/ CleanupGivesUp \/ CleanupShuts \/ CleanupReturnsNow

-----------------------------------------------------------------------------
\* The usage arrives, and the update is dropped when every slot is busy; then
\* it looks for the row, three times, and updates it.
DeferredUpdate(l) ==
  /\ \/ deferred[l] = "receiving"
        /\ Cardinality({m \in Logs : deferred[m] = "updating"}) < DeferredSlots
        /\ deferred' = [deferred EXCEPT ![l] = "updating"]
     \/ deferred[l] \in {"receiving", "updating"} /\ deferred' = [deferred EXCEPT ![l] = "no"]
  /\ UNCHANGED <<hooks, channel, writing, closing, store, sweeper, swept>>

SendSteps(l) == AppendEntry(l) \/ Check(l) \/ Enqueue(l)
SweeperSteps == Sweep \/ SweeperSends \/ SweeperEnds
WriterSteps == WriterTakes \/ WriterTimer \/ WriterWrites \/ WriterEnds

Next ==
  \/ \E l \in Logs : \/ PreHook(l) \/ Chunk(l) \/ PostLLMHook(l) \/ PostLLMHookSkips(l)
                     \/ PostMCPHook(l) \/ SendSteps(l) \/ DeferredUpdate(l)
  \/ Inject \/ GrowOld \/ Judge \/ SweepTrace \/ SweeperSteps
  \/ TimerFires \/ WriterSteps \/ CleanupBegins \/ CleanupSteps

Spec == Init /\ [][Next]_vars

\* Goroutines go on: the sender, the writer with its timer, the sweeper, the
\* updates and Cleanup; every call to the log store returns.  Requests need not
\* end, nothing need grow old, and Cleanup need not be called.
FairSpec ==
  /\ Spec
  /\ \A l \in Logs : WF_vars(SendSteps(l)) /\ WF_vars(DeferredUpdate(l))
  /\ WF_vars(SweeperSteps) /\ WF_vars(TimerFires) /\ WF_vars(WriterSteps) /\ WF_vars(CleanupSteps)

-----------------------------------------------------------------------------
Settled(e) == rows[e.log] # "none" \/ e \in counted
\* Somebody is going to take the entry: nobody takes what is in the queue behind
\* Cleanup's last drain.
Waiting(e) ==
  \/ e \in ToSet(left)
  \/ ~Drained /\ e \in ToSet(queue) \union ToSet(batch)

\* What was sent before Cleanup took the queue over is waiting to be written,
\* written, or counted as dropped.  And no log disappears without a trace: unless
\* Cleanup has begun, the sweeper took its data, or its trace had completed before
\* its post-hook was through, an ended log is waiting, written or counted.
\* (writer.go:277-294, main.go:1284-1318, 1323-1372)
NoSilentLoss ==
  /\ \A e \in accepted : Waiting(e) \/ Settled(e)
  /\ ~closed => \A l \in Logs :
       pc[l] = "end" /\ l \notin swept \union missed
         => Waiting(Entry(l, "final")) \/ Settled(Entry(l, "final"))

\* A tool execution whose own post-hook found its data is never recorded as
\* abandoned by the sweeper.  (writer.go:252-268, PostMCPHook)
ToolRowIsTrue == \A l \in finished : rows[l] # "stale"

\* Every log ends in the row it should, or in the count of dropped ones.
\* (writer.go:131-294)
LogsAccounted == NoSilentLoss /\ ToolRowIsTrue

\* No row is inserted after Cleanup has closed the queue: the store may be
\* closed when it returns.  (main.go:1256-1266)
QuietAfterCleanup == [][shut => UNCHANGED rows]_rows

\* An entry does not wait for ever, however few follow it.
\* (the batch timer, writer.go:97-116)
SentIsSettled ==
  \A l \in Logs : (\E e \in EntriesOfLogs : e.log = l /\ Waiting(e))
                   ~> (\A e \in EntriesOfLogs : e.log = l => ~Waiting(e))

\* Cleanup returns when the store answers.  (main.go:1243-1248)
CleanupReturns == (cleanup # "no") ~> (cleanup = "returned")

\* Nobody waits for ever on the queue.  (writer.go:64-127, main.go:1249-1318)
Settles == SentIsSettled /\ CleanupReturns
=============================================================================
