# A TLA+ model of the UnifAI gateway

This directory holds TLA+ modules that model the concurrent core of the gateway
in `src/`, the configurations that check them with TLC, and theorems about them
that TLAPS proves. `PROJECT.json` ties every definition to the lines of Go it
stands for, every property to the run that checks it and to a variant of the
model that breaks it, and every hazard found in the code to its properties.

    tlc -workers 2 -config PQ_all.cfg MCProviderQueue.tla   # a run
    tlapm ProviderQueueProofs.tla                           # a proof

## 1. The system

The gateway accepts LLM requests over HTTP or as a Go library, runs plugins on
them, sends them to one of many providers with retries, key rotation and
fallbacks, and returns a response or a stream. About 570 000 lines of Go and
TypeScript; the state that several goroutines share is in a small part of them.

| Component | Source | State it keeps | Operations | What is hard |
|---|---|---|---|---|
| Provider queues and workers | `core/unifai.go` | per provider: a bounded channel, a done signal, a wait group, worker goroutines, a write lock; the pools of messages | tryRequest, tryStreamRequest, requestWorker, UpdateProvider, RemoveProvider, Shutdown, lazy creation | producers that hold a pointer to a retired queue; a transfer between queues; waiting for workers of several generations; contexts that end at any time |
| Retries and key rotation | `core/unifai.go` | attempt counter, keys used in this round, dead keys, the attempt trail in the context | executeRequestWithRetries, keyProvider | two exclusion sets with different lifetimes; marks written on earlier trail entries; a dead stream that outlives its attempt |
| Fallbacks | `core/unifai.go` | position in the chain, the context shared by all attempts | handleRequest, handleStreamRequest, clearCtxForFallback | context values of one provider that leak into the next |
| Plugin pipeline | `core/unifai.go` | executed hooks, collected errors | RunLLMPreHooks, RunPostLLMHooks | short-circuits, symmetric unwinding |
| Session stickiness | `core/unifai.go` | session to key entries in the key-value store | get, judge stale, delete, set if absent | four separate calls that other requests and peers get between |
| Key-value store | `framework/kvstore` | entries with write time and expiry, a delegate | Set, SetNX, Get, Delete, GetAndDelete, remote writes and deletes, cleanup, Close | the stamp is taken before the lock, peers are told after it |
| Cluster replication | `framework/cluster` | none of its own; messages on their way | OnSet, OnDelete, fanOut, receive, Configure | reordered and lost updates, no tombstones, no retry |
| Stream gate | `framework/streaming`, `core/providers/utils`, `core/schemas/context.go` | per stream: state, replay buffer, flags, a flusher goroutine, a map entry that may be reaped | GateSend, Pause, Resume, End, flusher, WaitForFlusher, CloseStream, cleanup | sends without the lock; reaping by whoever is last; re-creation after reaping |
| Distributed lock | `framework/configstore/dlock.go`, `rdb.go` | one row per lock: holder, expiry | TryLock, Lock, LockWithRetry, Extend, IsHeld, Unlock | clock skew, stale statements, ambiguous errors, crashes |
| Log writer | `plugins/logging/writer.go`, `main.go` | pending maps, a bounded channel, a batch and its timer, counters | hooks, Inject, enqueue, batchWriter, drainPending, sweeper, Cleanup | producers and a sweeper racing with the drain; the hand-over of the channel from one reader to another |
| Governance: usage tracker and budgets | `plugins/governance` | budgets in memory and their rows, billing claims | CheckBudget, UpdateUsage, BumpBudgetUsage, resets, dump, Cleanup | a reset judged on a value read earlier; two terminal hooks of one call; a dump racing with a reset or with Cleanup |
| MCP clients | `core/mcp` | client entries, configs with a disabled flag, a guard map, monitors and their manager | AddClient, RemoveClient, DisableClient, EnableClient, UpdateClient, reconnects, health checks, Cleanup | attempts that run outside the lock; checks and reconnects that outlive a disable; two locks taken in both orders |
| Circuit breaker, load balancer | `framework/circuitbreaker`, `framework/loadbalancer` | open states and failure marks with deadlines | trip, isOpen, failover, mark, clear | check and delete without a lock |
| OAuth2, temporary tokens, tracing, websockets | `framework/oauth2`, `temptoken`, `tracing`, `transports/.../websocket` | tokens, traces, pools with expiry | refresh, issue, sweep | sweeps racing with use |
| Stores, handlers, adapters, schemas, UI | the rest | databases and wire formats | CRUD, encoding | data rather than control |

How they interact. An HTTP handler calls `handleRequest`, which tries the
primary provider and then the fallbacks. Each try looks up (or creates) the
provider's queue, runs the pre-hooks (governance checks the budget, logging
notes the attempt), puts a message with three reply channels into the queue and
waits for an answer or for the end of its context. A worker of that queue takes
the message, selects a key - for a session, the one the key-value store has
pinned - runs the retry loop against the adapter and sends the answer; the
post-hooks charge the budget and hand the log to the writer. For a stream, the
adapter's goroutine passes every chunk through the post-hooks and then through
the gate of the stream's accumulator, which a plugin may pause, resume or end.
Administrators replace (`UpdateProvider`) or remove a provider, and add, disable
and remove MCP clients, while all that goes on. Replicas tell each other what
they write to the key-value store, and share a database, with
`distributed_locks` and the budgets in it.

What makes each modelled component correct, in short: no message is lost or
answered twice, whatever happens to its queue; administrative operations return
and leave no worker behind; a key that is refused for good is not used again and
errors say what happened; a session keeps its key; the newest write a replica
has heard of is what it holds; a lease is exclusive; a gate delivers each chunk
once, holds them while paused, and leaves nobody waiting; a log ends in its row
or in a count; a charge is counted once, in its window; a disabled client stays
down and an enabled one is watched.

The hazards found in the code, with their lines, are in `PROJECT.json` under
`hazards`; those without a property say why.

## 2. The modules

| Module | Models | Proved in |
|---|---|---|
| `RequestService` | what a caller is promised by the queue layer (abstract) | |
| `ProviderQueue` | one provider's queues, workers, producers and administrators; implements `RequestService` | `ProviderQueueProofs` |
| `RequestExecution` | one request's retries, rotation and fallbacks | `RequestExecutionProofs` |
| `KVCluster` | the key-value stores of several processes and their replication, one key | `KVClusterProofs` |
| `StoreClients` | extends `KVCluster`: sessions and uploads as its callers | `KVClusterProofs` |
| `DistributedLock` | the lease lock for one key | `DistributedLockProofs` |
| `StreamGate` | the gate of one stream | `StreamGateProofs` |
| `LogWriter` | the logging plugin, from the hooks to the rows | `LogWriterProofs` |
| `BudgetUsage` | one budget, its charges, resets, dumps and restarts | `BudgetUsageProofs` |
| `McpClients` | one MCP client, its administrators, attempts and monitors | `McpClientsProofs` |
| `MC...` | small instances of the above | |

An action is a section of the code between two points where another goroutine
may act: a lock acquired, a channel operation, an atomic load or store, a
statement sent to the database. Definitions keep the names of the code where
they can. A definition whose comment begins with "Variant:" is not part of the
model: it is a plausible bug, a changed form of the definition that follows it,
used to show that a property can fail.

### ProviderQueue and RequestService

One provider key. A *generation* is one `ProviderQueue` struct of the code: its
channel `queue[g]`, its done signal `closing[g]` and its workers
`worker[<<g, s>>]`; `current` is the entry of `requestQueues` and `waitGroups`.
A request is identified with its `ChannelMessage`.

* Clients. `Lookup`, `CreateFound`, `CreateRegister`... are `getProviderQueue`;
  `Proceed`, `Reroute` and `RefusedClosing` the check after the pre-hooks;
  `Enqueue`, `SendSeesDone`, `SendSeesCtx`, `DropWhenFull`, `KeepWhenFull`,
  `Recheck` the two selects that send; `TakeReply`, `WaitSeesCtx` the select
  that waits. Go's `select` picks any ready arm, so those are alternatives.
* Workers. `TakeJob`, `SeeDone`, `DrainOne`, `Exit` are the loop and the drain
  of `requestWorker`; `KeyError`, `Deliver`, `Abandon` the ends of one job.
* `UpdateProvider`: `UpdateLock`, `UpdateFailed`, `UpdatePublish`,
  `UpdateStarted`, `TransferTake`/`TransferPut` (a message in between is in
  `hand`), `TransferFull`, `CancelRest`, `UpdateRetire`, and the goroutine it
  leaves, `Sweep`.
* `RemoveProvider` of the server (client first, configuration second), and
  `Shutdown`, which takes no provider lock.

`RequestService` says what the callers see of it: a request is open, accepted or
returned; an accepted one is answered at most once; a return is the answer, or
the end of the caller's context, or a refusal. `ImplementsService` is the
refinement, with the mapping at the end of `ProviderQueue`.

### RequestExecution

One call of `handleRequest` or `handleStreamRequest` over `Chain`, the sets of
keys that are eligible at the primary and at each fallback (an empty set: a
keyless provider), possibly with a pinned key, in a session, with a key filter.
Per provider: `BuildPool` (the pool and whether it rotates), `PinUnknown` (a pin
that names no key of the provider), `SelectKey` / `KeepKey` / `SelectionFails`
(the head of the loop, with the rotation mark, the backoff decision and the
trail), the attempt with all its outcomes (`Succeed`, `Fail`,
`FirstChunkFails`), `TearDown` and `Drained` for a stream whose first chunk is
an error, `GiveUp` and `Retry` (the tail of the loop), `PostHooks`, `Return`,
`NextFallback`, `AllFailed`. An error is the class the code puts it in, a
weighted choice is any choice, a backoff is whether the worker slept.

### KVCluster and StoreClients

`KVCluster` follows one key of the stores of several processes. A call takes its
time stamp (`Begin`), then the lock (`GetReads`, `SetStores`, `SetNXStores`,
`DeleteStores`, `TakeStores`), then tells the peers (`Notify`); other calls,
messages and ticks come in between. A message is a set with its stamp and
expiry, or a delete; `net` is a set, `Deliver` may be late or out of order, and
`Notify` may lose it, as `fanOut` does not retry. A delegate installed in the
middle of a call sends a set without a value. Clocks differ from node to node.

`StoreClients` puts two programs on top: the requests of a session, which read
the pin, judge it, renew, delete or try to set it and read it again when another
was faster (`selectKeyFromProviderForModelWithPool`), and the requests of a
resumable upload, one of which leaves the record that the others take. What a peer
gets is decoded: for the prefix of the upload IDs a decoder is registered
(`RegisterKVDecoders`, `integrations/utils.go:581`, called at `server.go:1665`; the
prefix is given by `generateUploadID`, `genai.go:1966`; `decodeValue`,
`kvstore.go:406`), so a replicated record is a record again and may be taken on any
node; a message without a value stays bytes (`Blank`), and `EndUpload` refuses it
after it was taken, as the type assertion does (`genai.go:415`). They compose
by the operations of the store: each step of a request is one of `KVCluster`'s
steps for its caller or leaves the store alone, which `ClientsUseTheStore`
proves, so that what holds of the store alone holds of it in use.

### DistributedLock

The row (`owner`, `expires`) and the instances, each a program of single SQL
statements. `stamp[h]` is the time an instance read before the statement runs:
the statement may run much later. Clocks are `now + offset[h]` with offsets up
to `MaxSkew`. Each statement may fail without effect or fail after it took
effect. `Crash` may happen at any time. `lease[h]` is a history variable: the
expiry that `h` was told.

### StreamGate

The gates (`StreamAccumulator`s) that are made for one stream, the map entry
`current`, the provider's goroutine from chunk to chunk (`Choose`, `Direct`,
`GateSend`, then `CloseStream`), the flusher of each gate, a plugin that makes
`MaxOps` calls at any moment, the transport's `Complete`, and a client whose
context may end. A look-up and the locking of what was found are separate steps,
as are the decision to send and the send. `cut` and `spared` are history
variables.

### LogWriter

The path of a log entry: the pre-hook leaves its data in a map (`PreHook`), the
post-hook completes it (`PostLLMHook`, `PostMCPHook`), an attempt of a trace
is put into the trace's record (`Store`, and `AppendEntry` when there is one) and
waits there until the trace completes and `Inject` sends all of them; `Check` and
`Enqueue` are the two halves of `enqueueLogEntry`. A trace completes when its handler
returns, whatever its attempts are doing: a worker runs the post-hook of an abandoned
call afterwards, and an append, which takes the record's lock, races with `Inject`,
which does not. What then goes nowhere is in the history variable `missed`. `WriterTakes`, `WriterTimer`,
`WriterWrites`, `WriterEnds` are the batch writer with its timer; `Judge`,
`Sweep`, `SweepTrace` and `SweeperSends` the goroutine that removes what was
abandoned; `CleanupBegins` to `CleanupReturnsNow` the hand-over of the channel
to Cleanup, the drain in chunks under a deadline, and the closing of the
channel, on which a late producer's send panics and is counted. `Process` lets
any part of a batch fail. `DeferredUpdate` is the usage update that looks for
the row later.

### BudgetUsage

One budget with a rolling or a calendar period. A call is checked
(`PreLLMHook`), and settled by as many goroutines as it has terminal hooks:
`Claim`, `Bump`, and when the window is over `BumpJudges` and `BumpResets`,
between which others may charge or reset. The ticker judges, resets, persists,
collects a snapshot and writes it; `Cleanup` waits for the settlements, collects,
writes, and then, the rate limits dumped (`"limits"`), cancels the tracker's context
and closes `done` (`CleanupStops`), and waits for the worker. The worker may begin a
round until it leaves its loop (`TickerEnds`), after `done` is closed too, for its
`select` may take a pending tick; its writes then fail (`TickerWrite`). `Restart` is a
crash followed by the load and the startup resets of the next process. Every write
may fail. A loop around `CompareAndSwap` is one step. `charged`, `judged` (the window
a reset was judged on), `raced` (the windows ended by a reset that had been judged on
an earlier one) and `spoilt` are history variables.

### McpClients

One client of `MCPManager`. Every operation of an administrator and every
reconnect a monitor spawns is a task; a task lends its name to the config it
brings, the connection it opens and the monitor it starts, so that "the
connection of an attempt that was overtaken" can be said. An attempt is
`Connect` (the first lock), `Dial` (outside the lock), `Register` (the second
lock), then the monitor is started in two steps (`StartMonitoring` holds the
monitors' lock while `Start` waits for the manager's). Its error paths are
`Undo`, `Retain`, `Mark` and `Restore`, one for each kind of caller.
`RemoveClient` and `DisableClient` hold the manager's lock (`Locks`) while they
wait for the monitors'. A health check reads, and reports later.

## 3. The runs

Every bound is a constant of the module, or a guard that names it.

| Run | Instance | Shows |
|---|---|---|
| `pq_all` | 2 requests (one a stream, one cancellable), 2 workers per generation, 2 generations, the second queue smaller; update, remove, shutdown, failing creation, both drop policies, all starts; a behaviour has a removal or a shutdown, not both | at most one answer and one bill; a message is in one place while its caller waits and in none once it is released; removal leaves no worker; refinement of `RequestService` |
| `pq_generations` | 3 requests, 1 worker, 3 generations (3, 1 and 1 slots; the third generation or the third request), updates and a shutdown | a look-up always finds running workers, in two updates in a row too; shutdown waits for told workers only and leaves none |
| `pq_liveness` | 2 requests, update and remove, failing creation, a cancellation (of these three, two in a behaviour), fairness | callers return, administrative operations and the goroutines they leave end |
| `re_request` | rotating pool of 3 keys, then keyless, then 1 key; 3 retries; pins (none, the primary's, an unknown one), stickiness, key filters, streams, hooks that turn results around; fairness | refused keys stay out; keys are used evenly; the trail, the backoff and the selected key tell what happened; nothing of one attempt harms the next; the request ends and a cancelled one stops |
| `kv_clients` | 3 requests of a session on 2 nodes, or an upload's first request and 3 of the 4 that may take its record, on its node and the other; 3 keys or records, expiry after 1, one clock tick, one upset (key edit, reconfiguration, close), replication lost, late and overtaken | a listener holds the newest write; an undisturbed session keeps one key; an upload's record is handed out once per node |
| `dl_lease` | 2 instances, lease 3, skew 1, 1 retry, time 5, fairness | exclusive leases, rows end for a reason, Lock returns |
| `sg_gate` | 2 chunks, buffer of 1, 4 plugin calls | the client gets every chunk once and nothing after the end; a pause holds; nobody waits for a waiting flusher |
| `sg_order` | 3 chunks, buffer of 2, 2 plugin calls | *violated*: order across the live path and the flusher |
| `log_writer` | 2 logs, both of a trace or one direct and one of a tool, queue of 1, batches of 2, 1 deferred update at a time, fairness | every log ends in its row or in the count, but for what was swept or missed its trace; no insert after the queue is closed; accepted entries settle, Cleanup returns |
| `gov_budget` | 2 calls, one of them settled by 2 hooks, limit 1, period 2 (or calendar boundaries at 1 and 3), time 3, 1 crash, no shutdown after it | charges counted once, in their window, and until it is over; racing resets of an aligned budget lose nothing; after a clean shutdown the next process counts what this one did |
| `mcp_clients` | the boot's connection and 3 more operations or reconnects, 2 failures to a reconnect | a disabled client stays down; no connection is left over, an enabled client is watched |
| `mcp_deadlock` | the same | *violated*: the manager's lock and the monitors' lock are waited for in both orders |

Why the bounds are enough for what happens in this code. Two requests are
enough to fill the second queue and to have one queued behind another; three let
a transfer find the queue full with a message still to move, and with three
generations a message is transferred and transferred again. Two workers let one
drain while the other works. That a removal and a shutdown do not come in one
behaviour of `pq_all`, nor all three of a cancellation, a removal and an update
in one of `pq_liveness`, are bounds too (`Apart`, `TwoOfThree`, and `ThirdOfOne`
in `pq_generations`): every pair but the first is covered, and the theorems of
section 4 about these safety properties have no such bound. Three retries over
three keys complete a round, start another and kill keys in between;
the key of the last provider in the chain is one that the primary may have used
and excluded, and a keyless provider is between them. Two requests of one node
race for a session's pin
while the third, on the other node, writes to it through replication, or, once
there have been both a tick and an upset, only listens; in the
upload's case it leaves the record, and two of its own node race for it, or two of
the other for the copy that reaches them, with one of the other node besides. An
expiry of one tick lets entries expire between any two
steps, and one tick on either node lets it be ahead of the other or
behind it (`Bounded`). A lease of 3 with a skew
of 1 leaves a window in which `Safe` holds and the clocks disagree, and time 5
lets a lease run out, pass on and be contested. A buffer of one chunk and two
chunks in all overflow, and four calls of the plugin pause, resume, pause again
and end. `MaxGates` is never reached (`ThreeGates`). A queue of one entry is full
with the other log's, a batch of two is filled by two logs or flushed by the timer
with one; a traced and a direct log take different ways to the queue, and a
tool's has its own post-hook, no chunks and no usage that comes later. The two logs
of a trace are interchangeable, so the first to begin is named, and usage updates are
scheduled for them only (`OneOfEach`). A
call settled twice and another settled once can race for the claim and for a
reset; with a period of 2 a rolling budget is reset at 2 and, by the race of the
disagreements below, again at 3. Between the calendar's boundaries at 1 and 3 there is
an instant that is none, so that a reset to the clock and one to the period's start
differ. A restarted process is not shut down again (`OneEnd`). Four
MCP tasks let an attempt of the boot, an administrator's operation, a reconnect
and one operation that ends them overlap; a fifth would let an `EnableClient`
begun before a disable outlive it, so that is left to the proof of
`DisabledStaysDown`, which covers any number. `MaxGen` is reached: then
`MayCreate` blocks further creations, as no administrator or request makes them.

`CHECK_DEADLOCK FALSE` is in every configuration because all the modelled systems
stop by design: the requests are served, the stream is closed, time ends.
In `mcp_clients` the same setting also lets the states through in which the two
locks wait for each other; `mcp_deadlock` is the run about them.

Symmetry is used in `pq_all` (workers of a generation), `pq_generations` (the
requests), `kv_clients` (keys and records, and a session's two requests of a node),
`gov_budget` (the two settlements of a call) and `mcp_clients` (the tasks except
the boot's), where no formula names a member, and only in runs without liveness
properties.

### Fairness

* `ProviderQueue`. Goroutines that can go on are scheduled (weak fairness for
  workers, sweeps, removal, shutdown); provider calls end because every adapter
  sets a request timeout. Steps that take the provider's write lock compete for
  it: `sync.RWMutex` does not let readers overtake a waiting writer and
  admits waiters eventually, hence strong fairness for a client and for the
  update. Nobody has to cancel or to call an administrative operation.
* `RequestExecution`. The request's own steps and the teardown are one
  weakly fair next-state relation: with no environment action in it, only a
  behaviour that could stop is excluded.
* `DistributedLock`. A statement returns, a sleep ends; nobody has to call
  anything, the clock does not have to tick, crashes do not have to happen.
* `LogWriter`. The goroutines that send, write, sweep, update and clean up go on,
  the batch timer fires, and the log store returns from every call. Requests need
  not end, nothing has to grow old, Cleanup need not be called.

The other modules have safety properties only. `StreamGate`, `BudgetUsage` and
`McpClients` have nothing the code promises to happen eventually beyond what
their safety properties at the end of an operation say, and `KVCluster`'s
messages may be lost for good.

### Disagreements with what the code's texts say

Both violation runs are findings in `PROJECT.json`, with the quoted sentence.

* `sg_order`: chunks "are flushed to the client in order, then live streaming
  continues"; a live chunk already past the gate is sent concurrently with the
  flusher.
* `mcp_deadlock`: the lock is released "BEFORE starting monitors to prevent
  deadlock"; the goroutine that starts a monitor holds the monitors' lock while
  it waits for the manager's, and a concurrent `RemoveClient` or `DisableClient`
  holds the manager's while it waits for the monitors'.

Other things seen while modelling. No run states them; the properties above
exempt them by a history variable or by a condition in their text.

* `unifai.go:4380`: a request that finds no queue creates one although Shutdown's
  passes are over, and its workers stay (`ShutdownStopsWorkers` is about queues
  that exist when Shutdown begins).
* `unifai.go:5291`: a producer that passed the check and then meets a full or
  retired queue is told that the provider shuts down though it was updated,
  against the comment at 5264-5266.
* `unifai.go:6276`: when a hook turns a keyed primary's answer into an error, its
  key stays selected for the answer of a keyless or short-circuited fallback.
* `plugins/logging/writer.go:278`: a producer that has passed the closed check may
  send after the last drain and before the channel is closed. Its entry is neither
  written nor counted, and the recovery that "absorbs" such a producer
  (`main.go:1257-1258`) never runs for it. `accepted` ends where the drain begins,
  and `Waiting` does not hold of what is behind it.
* `core/unifai.go:6783`: the call of a client that has gone is to be logged ("bill/log
  it here"). When its trace has completed meanwhile, which a non-streaming handler's
  return brings about (`middlewares.go:1569`), the entry makes a new record under the
  trace's ID; no `Inject` comes for it, and the sweeper deletes it uncounted.
  `LogsAccounted` exempts it by `missed`.
* `plugins/logging/main.go:1331`: an entry appended to the record after `Inject` has
  taken it out of the map is lost if `Inject` has gone past (it reads the slice without
  the lock); `missed` again.
* `kvstore.go:329`: a remote delete leaves no tombstone, so an older write that
  arrives later brings the key back.
* `unifai.go:8334`: a request that finds a stale pin deletes whatever pin there is
  by then, a fresh one of another request included, so after a key edit two
  requests of a session may use different keys, against the comment at 8311.
* `plugins/governance/store.go:433`: for a rolling budget two settlements, or one and
  the ticker, that both judged the window over reset it one after the other, at
  different instants, and the second reset wipes the charge made between them, against
  the comment at 413-417 (concurrent callers "never drop increments"). `UsageIsExact`
  says of every other charge to a rolling budget that it lasts until its window is
  over, and exempts these by `raced`. (Aligned budgets write the period's start, which
  is why `AlignedChargesCount` holds.)
* `CheckBudget` takes `ParseDuration`'s length of a month for a calendar-aligned
  budget too, so it lets calls pass before the calendar's reset.
* `tracker.go:376`: Cleanup does not wait for a dump the ticker has begun, which may
  overwrite Cleanup's with an older snapshot. `ShutdownFlushes` exempts it by
  `overtaken`. A round that begins after Cleanup's dump does no harm, though it may
  reset the memory and then fail to write: the row it leaves is due when it is loaded,
  unless the reset is one of the race above (`raced` again), and then the row still has
  what memory has lost.
* `core/mcp`: a client disabled while AddClient or the boot is connecting it is
  deleted, or retained as disconnected, when that attempt fails. An EnableClient
  that finds the guard taken returns with the flag cleared, so a later reconnect
  revives the client without anybody watching it. A reconnect that is overtaken by
  RemoveClient before its first lock makes the client anew. A health check that
  answers late may show a client connected that has no connection. AddClient,
  which takes no guard, and a reconnect along with it may leave a connection open
  that nobody owns.

## 4. The proofs

TLAPS proves, for all values of the constants that satisfy the modules' named
assumptions:

| Theorem | Says | Argument |
|---|---|---|
| `ProviderQueueProofs!TypeCorrect` | `[]TypeOK` for any number of requests, workers and generations | `TypeInv`: `TypeOK` with `LockInv`, which says who holds the provider's lock at each step of an update, a removal or a preparation, and that an update that has begun still has a generation to create; one lemma per group of variables |
| `ProviderQueueProofs!AnsweredOnce` | `[]AtMostOnce` | `OwnInv`, below |
| `ProviderQueueProofs!NoneLost` | `[]MessagesAccounted` | `OwnInv` |
| `ProviderQueueProofs!Implements` | `ImplementsService`: every step of the queue layer is a step of `RequestService` or none | under `OwnInv` each action maps to one abstract action; `ServiceNext` collects them |
| `ProviderQueueProofs!RemovalStopsAll` | `RemoveLeavesNoWorker`, an action property | `GenInv`, below |
| `ProviderQueueProofs!LookupIsServed` | `[]LookupFindsWorkers`, where creating a provider succeeds | `GenInv` with `Served`: an unlocked generation, and one an update is filling, has had its workers started |
| `ProviderQueueProofs!ShutdownStops`, `ShutdownTold` | `[]ShutdownStopsWorkers`, `[]ShutdownWaitsForTold`, for a provider that exists and is not removed | `GenInv` with `StopInv`, below |
| `RequestExecutionProofs!TypeCorrect` | `[]TypeOK` for any keys, chain and retry count | `IInv`, below |
| `RequestExecutionProofs!DeadStaysDead` | `[]DeadKeys` | `IInv`: the dead keys are those the trail shows |
| `RequestExecutionProofs!TrailIsTrue` | `[]TruthfulTrail` | `IInv`: the last record, `pending`, `permanent` and `previous` |
| `RequestExecutionProofs!FallbackIsFresh` | `[]FreshStart` | `IInv`: `Connected` and `Unnarrowed` |
| `RequestExecutionProofs!AttributionIsTrue` | `[]Attribution` | `IInv` with `Attributed`, below |
| `RequestExecutionProofs!RotationIsBalanced` | `[]BalancedRotation` for any finite set of keys | `IInv` with `RotationInv`, below |
| `RequestExecutionProofs!CancelEndsIt` | `CancelIsFinal`, the safety half of `EndsOnce` | `Leaving` is kept by every step, and a cancelled error is only found there |
| `RequestExecutionProofs!NeverBack` | every step takes a request further in the order `Further` of chain member, part of the attempt, retry and step, whose numbers `TypeOK` bounds: the safety half of `Terminates` | `TypeOK`, one case per action |
| `KVClusterProofs!KVTypeCorrect`, `ClientsTypeCorrect` | `[]KVTypeOK`, `[]TypeOK` for any nodes, callers, keys and bounds | one lemma per action |
| `KVClusterProofs!LastWriterWins`, `ClientsLastWriterWins` | `[]NewestWriteWins`, of the store and of the store in use | `KVInv`, below |
| `KVClusterProofs!ClientsUseTheStore` | `Spec => KVSpec`: the composition implements the store's specification | each request step is one store call, or leaves the store alone |
| `KVClusterProofs!RecordHandedOutOnce` | `[]RecordTakenOnce` for any number of requests and nodes | `ClientInv` with `UploadInv`, below |
| `KVClusterProofs!SessionsStickToOneKey` | `[]SessionsStick` for any number of requests and keys | `ClientInv` with `SessionInv`, below |
| `DistributedLockProofs!TypeCorrect` | `[]TypeOK` | the first part of `IInv` |
| `DistributedLockProofs!LeaseExclusive` | `[]LeaseIsExclusive` for any number of instances, any skew and lease | `IInv`: `TypeOK`, `LeaseIsExclusive`, and `TimesArePast` - no statement carries a time its instance's clock has not reached, and nobody believes in an expiry that the extension under way would not reach. Only a removal can take a safe holder's row; it needs a time beyond the expiry, which no clock has reached while the holder is safe |
| `DistributedLockProofs!Exclusion` | two safe holders are the same | from `LeaseExclusive` |
| `DistributedLockProofs!RowsEnd` | `RowsEndOnce`, an action property | case analysis under `IInv` |
| `DistributedLockProofs!LockNeverBack` | no step, be it of another instance, takes a Lock to an earlier step or attempt (`Advances`): the safety half of `LockReturns` | `TypeOK`, one case per action |
| `StreamGateProofs!TypeCorrect`, `ThreeGates` | `[]TypeOK` for any number of chunks and calls and any buffer; three accumulators at most | `IInv`: `Numbered`, below |
| `StreamGateProofs!StreamWhole` | `[]StreamIsWhole` | `IInv`, below |
| `StreamGateProofs!FlushersAreReleased` | `[]FlushersRelease` | `IInv`: `Closing` |
| `StreamGateProofs!PausesHold` | `PauseHolds`, an action property | `IInv`: `Paused`, `Uncut` |
| `LogWriterProofs!TypeCorrect` | `[]TypeOK` for any logs, queue and batch size | `IInv`, below |
| `LogWriterProofs!EveryLogAccounted` | `[]LogsAccounted` | `IInv` |
| `LogWriterProofs!NoRowAfterCleanup` | `QuietAfterCleanup`, an action property | `IInv`: `Handover` |
| `LogWriterProofs!SettledAtShut` | once the queue is closed, every entry accepted before Cleanup took it over is written or counted | `IInv`: nothing waits any more |
| `LogWriterProofs!CleanupNeverBack` | Cleanup passes each stage once, and what it drains only gets shorter (`Onward`): the safety half of `CleanupReturns` | `IInv`; a chunk has at least one entry (`OneChunk`) |
| `BudgetUsageProofs!TypeCorrect` | `[]TypeOK`; the counter never exceeds the number of settlements | `IInv`, below |
| `BudgetUsageProofs!UsageExact` | `[]UsageIsExact` for any finite number of settlements | `IInv`: `Billing`, `Exact`, `Windows`, `Periods` |
| `BudgetUsageProofs!AlignedCharges` | `[]AlignedChargesCount` | `IInv`: `Windows`, `Periods` |
| `BudgetUsageProofs!FlushOnShutdown` | `[]ShutdownFlushes` | `IInv`: `Flushing`, `Periods` |
| `McpClientsProofs!TypeCorrect` | `[]TypeOK` for any number of operations, monitors and reconnects; the guard and the locks belong to tasks that have not returned | `IInv`, below |
| `McpClientsProofs!DisabledStaysDown` | `[]DisabledStays` | `IInv`, below |
| `McpClientsProofs!StaysLookedAfter` | `[]LookedAfter` | `IInv` with `Looked`, below |

Why `OwnInv`. `AtMostOnce` is not inductive: a state in which two queues, or a
queue and a worker, have the same message satisfies it, and the second of them
answers a second time. `OwnInv` adds to the types that the places a message can
be in are apart (`QueuesApart`: at one position of one queue; `JobsApart`: with
one busy worker; `HandApart`: in the hand of an update, and then nowhere else),
that a held message is fresh - unanswered, not run, not billed, not released -
and that a caller who waits with a live context and no answer has its message
held (`Owned`). `Aimed` says that the queue pointer of a caller that is about to
send, and the entry an update transfers to, exist. The proof follows the moves of
a message: it enters a queue (`MessageEnters`), goes from a queue to a worker or
a hand (`HeadTaken`, `HandTakes`), from a hand to a queue (`HandPuts`), or leaves
(`HeadLeaves`, `JobLeaves`, `HandLeaves`), and only a step that takes it away may
answer it. `OwnInv` held in TLC over all states of the `PQ_all` instance before it
was proved.

Why `GenInv`. The three promises about workers speak of the end of an operation;
between its steps other operations retire, create and wait for other generations.
`Numbered` says that a generation beyond the last one created is untouched, and
which generation an update replaces; `Told`, that a worker which drains or has
exited, and whatever was retired, was told to stop, and that the generation new
requests find was not while no removal or shutdown is at it; `Awaited`, that a
worker still running belongs to the current generation, to one a cleanup goroutine
waits for, or to the one the update under way is replacing - so `RemoveProvider`,
which waits for the first, then for the second, and holds the lock that excludes
the third, has waited for all. `GenInv` holds for all constants; TLC checked it on
`pq_all` and `pq_generations` first.

The two theorems about `Shutdown` and the one about look-ups carry the conditions
of their run as hypotheses, because the code does. Where `createBaseProvider` may
fail, `prepareProvider` leaves an entry that nobody serves. `Shutdown` takes no
provider lock: where a provider may be absent or removed, a request creates a queue
behind its back, and workers outlive it. `StopInv` states what is left when neither
happens: no queue is created except by an update, and no update runs along a
shutdown (the lifecycle lock), so the generation it signals is the last one
(`Undivided`); then it has waited for that one and for all retired ones
(`Stopping`).

Why `RequestExecutionProofs!IInv`. The properties speak of the attempt trail,
which the loop writes and never reads back; what it acts on are its own
variables. The invariant ties the two together: `Recorded` (one record per
attempt of a keyed provider), `Called` (while a call runs, the last record is
that of the current, living key), `Selecting` (before the next attempt, `perKey`,
`permanent`, `previous` and `pending` say what the last record says) and
`DeadAreTried` (the set of dead keys is the set of keys with a permanent failure
in the trail). `Attempted` and `Failing` say once what an attempt and a failure
do to the trail. The one assumption beyond types is that the set of keys is
finite.

`Attributed` adds what the selected key of the context is at each place of the loop.
`RotationInv` counts: while no filter has shortened a round, there is a round `r`
such that each live key which was used in it has been rate limited `r + 1` times and
each other one `r` times (`Rounds`), and the current key is not among the used ones
until its call has failed (`Unused`). When all live keys are used the set is emptied and
the same counts are those of round `r + 1`. It is also why the property excepts the
filter: a filter that hides the unused keys ends a round early.

Why `KVInv`. That the newest update applied is what a listener holds says nothing
of a node that holds something else for a good reason. `EntryWasSent` says that a
listener's entry is one of the updates it has applied, and
`WriteHeldUnlessSuperseded` that each update it has applied is held, expired, or
was superseded by one that is not older; the guards of `SetRemote` and
`DeleteRemote` keep both whatever the order of arrival, and the newest one has no
such successor.

Why `ClientInv`. A record is taken once because a node has one copy of it: still to
come from the request that opens the upload (`Coming`), on its way in a message
(`Sent`), in the store, or with the request that took it (`Has`). `RecordOnce` says
that these exclude each other, on every node; `UploadShape` what a request may have
under way, so that nobody else sets the record. For
a session, `PinHolds` says of an undisturbed node that the pin in the store names a
key on offer and does not expire yet, and that whoever has got a key, or is about to
write one, is at that pin (`FollowsPin`); a request that draws another key fails its
`SetNX` and reads again. Both rest on the effects of the store's calls, stated once
as lemmas (`BeginEffect` and those after it). `ValueAssumption` says that a record
or key is not one of the store's error values, which the code keeps apart by
returning an error beside the value.

Why `BudgetUsageProofs!IInv`. That the counter is what was charged says nothing of a
reset that is about to be written, or of the copies the dump carries. `Billing` says
that of a call's settlements one charges it, because the claim keeps the others away
or, after a crash, because they ended with the process. `Exact` compares the counter
with the charges made to its window, and each copy - the row, the ticker's and
Cleanup's collections - with the charges made to the copy's own window; `Periods` and
`Windows` say that a reset's target is not from the future and, for an aligned
budget, the start of a period, and that no charge is to a window still to come, so
that a reset leaves a window for good and finds none of its new one's charges made;
for a rolling budget, that a reset ends the window it was judged on, so that one
which ends another is noted in `raced` (`ResetIsDue`). `Flushing` follows the final
dump: the row, and what the ticker writes behind it, is the budget in memory or one
that memory has been reset behind (`Kept`, `Outlived`), and such a row is due when it
is loaded. The counts need a finite set of settlements (`FiniteAssumption`).

Why `StreamGateProofs!IInv`. `StreamIsWhole` speaks of what has arrived; a chunk that
will arrive wrongly is still with the provider, in a buffer or in a flusher's hand.
`Apart` says that it is in one of these places or delivered, and that a buffer is in
order behind the hand; `Uncut`, that while no plugin has ended the stream each chunk is
somewhere, or an error is on its way; `LastAlone`, that the last chunk is sent when
nothing is left behind it; `CutHolds`, that after an `EndStream` nothing newer is
anywhere but the last chunk; `Paused`, that what is being sent at a paused gate is what
the pause spared. All of these would fail if two gates held chunks, or if a flusher of a
reaped accumulator did: `Stale` says that a gate which is not the map's entry is empty
and has at most an error to deliver. `Numbered` counts the deletions of the entry: one
reaping, which at each moment is at most one gate's to do, and one completion. Most of
this is promised only to a client that is there (`Live`). `Closing` says that
`CloseStream` has ended the one gate whose flusher may run. There is a lemma for each
step, or outcome of a step, with one part per conjunct.

Why `LogWriterProofs!IInv`. An entry is accounted for by the place where it waits;
`Handover` says which of the writer and Cleanup may take from the queue: producers
have been told and the writer is gone before Cleanup does, and the queue is closed
last. `Hooked` and
`Swept` tie the pending data, which the hooks and the sweeper race for, to where the
hook is: whoever takes the data out of the map is the only one to make an entry of
it. A row marked as abandoned therefore belongs to a log whose hook did not find its
data.

Why `McpClientsProofs!IInv`. `DisabledStays` speaks of the entry alone; what could
break it is an attempt that is past its checks. `Shape` says which operation may
be where and that what it carries exists. `Kept` ties `reconnectingClients` and
the two locks to the place their holders are at: the guard is a task's exactly
while that task is in a guarded section, so when `DisableClient` writes, no
guarded attempt is between its first lock and its end. `Off` is what then stays
true: no attempt is dialling or about to register, every attempt before its
first lock carries a config with the disabled flag set (the flag of the entry's
config or of a copy made of it), and is turned away there. Each operation has a
lemma that it keeps the three; `IInv` held in TLC over all states of `mcp_clients`.

`LookedAfter` speaks of undisturbed histories. For them `Calm` says that a connection
is the entry's or that of an attempt about to register it (`Owned`), that the entry
has none while an attempt is between its two locks, or is one for a new client
(`NoneWhileUnconnected`), and that an enabled client has its registered monitor
running or an operation on its way that will start one (`Watched`, `Obliged`). What
an attempt overwrites is then nothing, and what it leaves is watched.

The strengthenings were checked in TLC on the runs' instances before they were
proved, each of them over all reachable states.

Not proved, and only model-checked: every liveness property (liveness under
fairness is out of this prover's reach). Every invariant and every action
property that a passing run checks is stated by a theorem, and so is the safety
half of `EndsOnce` (`CancelEndsIt`). Of three liveness properties the theorems also
state the part that does not depend on scheduling, that no step goes back in a
bounded order (`NeverBack`, `LockNeverBack`, `CleanupNeverBack`); what is left to
TLC there is that a step is always possible and is taken. The orders were checked
in TLC on the runs' instances too. `DistributedLock`, `KVCluster`, `LogWriter` and
`BudgetUsage` bound their clocks and counters by constants; the proofs hold for
every value of these. No module of this project declares a RECURSIVE operator.

## 5. What is not modelled

Besides the components listed as `not_modelled` in `PROJECT.json`:

* `ProviderQueue`: several providers, plugin contents, who reads the pools. A
  context that ends before the first select (nothing reads it there). The
  five-second arm of the worker's send, which needs a full reply channel.
* `RequestExecution`: direct keys and `SkipKeySelection`, batch and file
  operations over several keys, errors of a custom key selector, contexts that
  a caller reuses, empty streams, hooks per chunk, the length of a backoff (its
  arithmetic, with the overflow listed among the hazards, needs a module of its
  own).
* `KVCluster`: several keys (no operation touches two), a node that restarts, a
  delegate removed between the look at it and the call of it, range queries.
* `DistributedLock`: `CleanupExpiredLocks` over all rows (without callers), what
  the users of the lock do under it.
* `StreamGate`: the TTL sweep of orphaned accumulators, errors in the middle of
  a stream that the adapter goes on after, sizes in bytes (the cap is counted in
  chunks), what is accumulated, reference counts of several plugins.
* `LogWriter`: the order in which `Inject` sends a trace's entries, a crash of the
  process (nothing in memory survives it, by design), a store that never answers
  (Cleanup then waits without bound), a deferred update that begins after Cleanup
  has waited for them, the contents of rows.
* `BudgetUsage`: rate limits (their counters go through the same steps), the other
  budgets a call is charged to, `updateBudgetReferences` and the routing, several
  processes that dump absolute values over each other's.
* `McpClients`: several clients (they share only the two locks), the tool maps and
  the goroutine that synchronises them, per-user authentication, the transports.

The circuit breaker and the load balancer are small maps with deadlines; their
check-then-delete races are listed as hazards and wait for their module. Handlers,
adapters, schemas and stores, which are most of the lines of the repository, turn
data into other data without shared state: there is no control for a state machine
to show, and what could be said of their conversions is a matter for tests.

## 6. Plan

Done: `ProviderQueue` with `RequestService`, `RequestExecution`,
`DistributedLock`, `StreamGate`, `KVCluster` with `StoreClients`, `LogWriter`,
`BudgetUsage`, `McpClients`; the proofs of section 4.

To come, in this order:

1. `CircuitBreaker` with the load balancer's marks: a trip holds until its time.
2. The backoff arithmetic, with a Duration of 64 bits, as operators.
3. Temporary tokens and token refresh; the websocket pool; configuration reload.
