---------------------------- MODULE ProviderQueue ----------------------------
(***************************************************************************)
(* The life of one provider's request queue in core/unifai.go: client      *)
(* goroutines in tryRequest / tryStreamRequest, the worker goroutines of   *)
(* every queue generation, UpdateProvider, RemoveProvider, Shutdown, and   *)
(* the asynchronous cleanup that UpdateProvider leaves behind.             *)
(*                                                                         *)
(* A generation is one ProviderQueue struct: its channel, its done signal  *)
(* and its worker pool.  The key of the provider is fixed, so the          *)
(* requestQueues and waitGroups entries for it are one variable, current   *)
(* (0: no entry).  A request is identified with its ChannelMessage.        *)
(***************************************************************************)
EXTENDS Naturals, Sequences

CONSTANTS
    Requests,        \* one member per call of tryRequest / tryStreamRequest
    StreamRequests,  \* the ones that go through tryStreamRequest
    Cancellable,     \* the ones whose context may end
    NoRequest,       \* "nothing in hand"
    Slots,           \* the workers of one generation (config.Concurrency)
    MaxGen,          \* bound: how many ProviderQueues may be created
    BufferSize,      \* capacity of each generation's channel
    DropExcess,      \* the values dropExcessRequests may be found to have
    CreateFails,     \* whether createBaseProvider may return an error
    StartStates,     \* how the constructor may leave the provider
    AdminOps         \* which of "update", "remove", "shutdown" may be called

Gens    == 1..MaxGen
Workers == Gens \X Slots

ASSUME RequestAssumption ==
    /\ StreamRequests \subseteq Requests
    /\ Cancellable \subseteq Requests
    /\ NoRequest \notin Requests
    /\ Requests \cap {"free", "update", "remove"} = {}
ASSUME SizeAssumption ==
    /\ MaxGen \in Nat \ {0}
    /\ BufferSize \in [Gens -> Nat \ {0}]
    /\ Slots # {}
ASSUME ChoiceAssumption ==
    /\ DropExcess \subseteq BOOLEAN /\ DropExcess # {}
    /\ CreateFails \subseteq BOOLEAN /\ CreateFails # {}
    /\ AdminOps \subseteq {"update", "remove", "shutdown"}
    /\ StartStates \subseteq {"served", "unserved", "absent"}

VARIABLES
    pc,         \* where each request is in tryRequest
    target,     \* the ProviderQueue a request holds a pointer to (0: none)
    ctxDone,    \* the request's context has ended
    replies,    \* what was put in the message's Response/Err/ResponseStream
    released,   \* releaseChannelMessage was called for the message
    calls,      \* how often a worker ran executeRequestWithRetries for it
    postHooks,  \* how often RunPostLLMHooks saw what the provider produced
    outcome,    \* what tryRequest returned
    queue,      \* the buffered channel of each generation
    closing,    \* signalClosing was called on the generation
    worker,     \* control state of each worker goroutine
    job,        \* the request a busy worker is executing
    current,    \* the requestQueues / waitGroups entry
    last,       \* number of generations created so far
    mutex,      \* who holds the provider's write lock
    build,      \* progress of prepareProvider / the worker start loop
    lifecycle,  \* who holds providerLifecycleMu
    updPc, updOld, hand,   \* UpdateProvider: step, old queue, message moved
    sweep,      \* the cleanup goroutine of each replaced generation
    remPc,      \* the server's RemoveProvider
    shutPc, shutGen,       \* Shutdown: step, wait group being waited for
    configured  \* the account has a configuration for the provider

reqVars  == <<pc, target, ctxDone, outcome>>
msgVars  == <<replies, released, calls, postHooks>>
poolVars == <<worker, job>>
dirVars  == <<current, last, mutex, build>>
updVars  == <<lifecycle, updPc, updOld, hand>>
admVars  == <<remPc, shutPc, shutGen, configured>>
vars == <<reqVars, msgVars, queue, closing, poolVars, dirVars, updVars,
          sweep, admVars>>

ReqPcs   == {"start", "create", "prepare", "hooks", "send", "recheck",
             "block", "wait", "done"}
Replies  == {"result", "error", "shutting_down", "queue_full"}
Outcomes == {"none", "unavailable", "short_circuit", "cancelled"} \cup Replies
Holders  == {"free", "update", "remove"} \cup Requests

ReqTypes ==
    /\ pc \in [Requests -> ReqPcs]
    /\ target \in [Requests -> 0..MaxGen]
    /\ ctxDone \in [Requests -> BOOLEAN]
    /\ outcome \in [Requests -> Outcomes]
MsgTypes ==
    /\ replies \in [Requests -> Seq(Replies)]
    /\ released \in [Requests -> BOOLEAN]
    /\ calls \in [Requests -> Nat]
    /\ postHooks \in [Requests -> Nat]
QueueTypes ==
    /\ queue \in [Gens -> Seq(Requests)]
    /\ closing \in [Gens -> BOOLEAN]
    /\ sweep \in [Gens -> {"none", "waiting", "sweeping", "done"}]
PoolTypes ==
    /\ worker \in [Workers -> {"unborn", "idle", "busy", "draining", "exited"}]
    /\ job \in [Workers -> Requests \cup {NoRequest}]
AdminTypes ==
    /\ current \in 0..MaxGen /\ last \in 0..MaxGen
    /\ mutex \in Holders
    /\ build \in {"idle", "instantiate", "start"}
    /\ lifecycle \in {"free", "update", "shutdown"}
    /\ updPc \in {"idle", "begun", "prepare", "replace", "start", "transfer",
                  "cancel"}
    /\ updOld \in 0..MaxGen
    /\ hand \in Requests \cup {NoRequest}
    /\ remPc \in {"idle", "wait", "sweep", "retired", "config", "done"}
    /\ shutPc \in {"idle", "signal", "range", "wait", "cleanups", "sweep",
                   "done"}
    /\ shutGen \in 0..MaxGen
    /\ configured \in BOOLEAN
TypeOK == ReqTypes /\ MsgTypes /\ QueueTypes /\ PoolTypes /\ AdminTypes

-----------------------------------------------------------------------------
(* Init prepares each configured provider and only warns when one fails,   *)
(* so the client starts with a served queue, with a queue nobody serves,   *)
(* or (no configuration at start-up) with none.                            *)

Init ==
    \E start \in StartStates :
    /\ pc = [r \in Requests |-> "start"]
    /\ target = [r \in Requests |-> 0]
    /\ ctxDone = [r \in Requests |-> FALSE]
    /\ replies = [r \in Requests |-> <<>>]
    /\ released = [r \in Requests |-> FALSE]
    /\ calls = [r \in Requests |-> 0]
    /\ postHooks = [r \in Requests |-> 0]
    /\ outcome = [r \in Requests |-> "none"]
    /\ queue = [g \in Gens |-> <<>>]
    /\ closing = [g \in Gens |-> FALSE]
    /\ worker = [w \in Workers |-> IF w[1] = 1 /\ start = "served"
                                   THEN "idle" ELSE "unborn"]
    /\ job = [w \in Workers |-> NoRequest]
    /\ current = IF start = "absent" THEN 0 ELSE 1
    /\ last = IF start = "absent" THEN 0 ELSE 1
    /\ mutex = "free"
    /\ build = "idle"
    /\ lifecycle = "free"
    /\ updPc = "idle" /\ updOld = 0 /\ hand = NoRequest
    /\ sweep = [g \in Gens |-> "none"]
    /\ remPc = "idle"
    /\ shutPc = "idle" /\ shutGen = 0
    /\ configured = TRUE

(* WaitGroup.Wait on a generation: no worker it started is still running.  *)
Alive(w) == worker[w] \in {"idle", "busy", "draining"}
Quiet(g) == \A s \in Slots : ~Alive(<<g, s>>)

(* Generations whose cleanup goroutine has not called Done yet             *)
(* (retiredWorkerWaits and oldWorkerCleanups count the same goroutines).   *)
Retired == {g \in Gens : sweep[g] \in {"waiting", "sweeping"}}

(* Every send into a message's channels that the code makes when it gives  *)
(* up on the message: the error is delivered, or the context has ended.    *)
Refuse(r, reply) ==
    \/ replies' = [replies EXCEPT ![r] = Append(@, reply)]
    \/ ctxDone[r] /\ UNCHANGED replies

(* Take the oldest message of g and refuse it: one round of a drain loop.  *)
RefuseHead(g, reply) ==
    /\ queue[g] # <<>>
    /\ queue' = [queue EXCEPT ![g] = Tail(@)]
    /\ Refuse(Head(queue[g]), reply)
    /\ UNCHANGED <<released, calls, postHooks>>

-----------------------------------------------------------------------------
(* prepareProvider and the worker start loop, run by whoever holds mutex.  *)

(* A new ProviderQueue becomes the map entry before its provider exists.   *)
Register(holder) ==
    /\ mutex' = holder
    /\ last' = last + 1
    /\ current' = last + 1
    /\ build' = "instantiate"

(* One generation is kept back for an update that has already begun.       *)
MayCreate == last + (IF updPc = "begun" THEN 1 ELSE 0) < MaxGen

Instantiated ==
    /\ build = "instantiate"
    /\ FALSE \in CreateFails
    /\ build' = "start"
    /\ UNCHANGED <<reqVars, msgVars, queue, closing, poolVars, current, last,
                   mutex, updVars, sweep, admVars>>

StartWorker(w) ==
    /\ build = "start" /\ w[1] = current
    /\ worker[w] = "unborn"
    /\ worker' = [worker EXCEPT ![w] = "idle"]
    /\ UNCHANGED <<reqVars, msgVars, queue, closing, job, dirVars, updVars,
                   sweep, admVars>>

AllStarted == build = "start" /\ \A s \in Slots : worker[<<current, s>>] # "unborn"

-----------------------------------------------------------------------------
(* The client side: tryRequest and tryStreamRequest.                       *)

(* Return without the message having been queued.                          *)
Return(r, what) ==
    /\ pc' = [pc EXCEPT ![r] = "done"]
    /\ outcome' = [outcome EXCEPT ![r] = what]

GiveUp(r, what) ==
    /\ Return(r, what)
    /\ released' = [released EXCEPT ![r] = TRUE]
    /\ UNCHANGED <<target, ctxDone, replies, calls, postHooks, queue, closing,
                   poolVars, dirVars, updVars, sweep, admVars>>

(* getProviderQueue under the read lock.                                   *)
Lookup(r) ==
    /\ pc[r] = "start" /\ mutex = "free"
    /\ target' = [target EXCEPT ![r] = current]
    /\ pc' = [pc EXCEPT ![r] = IF current = 0 THEN "create" ELSE "hooks"]
    /\ UNCHANGED <<ctxDone, outcome, msgVars, queue, closing, poolVars,
                   dirVars, updVars, sweep, admVars>>

(* getProviderQueue after taking the write lock: the double check, the     *)
(* configuration lookup, and the start of prepareProvider.                 *)
CreateFound(r) ==
    /\ pc[r] = "create" /\ mutex = "free" /\ current # 0
    /\ target' = [target EXCEPT ![r] = current]
    /\ pc' = [pc EXCEPT ![r] = "hooks"]
    /\ UNCHANGED <<ctxDone, outcome, msgVars, queue, closing, poolVars,
                   dirVars, updVars, sweep, admVars>>

CreateUnconfigured(r) ==
    /\ pc[r] = "create" /\ mutex = "free" /\ current = 0 /\ ~configured
    /\ Return(r, "unavailable")
    /\ UNCHANGED <<target, ctxDone, msgVars, queue, closing, poolVars,
                   dirVars, updVars, sweep, admVars>>

CreateRegister(r) ==
    /\ pc[r] = "create" /\ mutex = "free" /\ current = 0 /\ configured
    /\ MayCreate
    /\ Register(r)
    /\ pc' = [pc EXCEPT ![r] = "prepare"]
    /\ UNCHANGED <<target, ctxDone, outcome, msgVars, queue, closing, poolVars,
                   updVars, sweep, admVars>>

(* createBaseProvider fails: the lock is released, the entry stays.        *)
CreateFailed(r) ==
    /\ pc[r] = "prepare" /\ mutex = r /\ build = "instantiate"
    /\ TRUE \in CreateFails
    /\ Return(r, "unavailable")
    /\ mutex' = "free" /\ build' = "idle"
    /\ UNCHANGED <<target, ctxDone, msgVars, queue, closing, poolVars, current,
                   last, updVars, sweep, admVars>>

CreateDone(r) ==
    /\ pc[r] = "prepare" /\ mutex = r /\ AllStarted
    /\ target' = [target EXCEPT ![r] = current]
    /\ pc' = [pc EXCEPT ![r] = "hooks"]
    /\ mutex' = "free" /\ build' = "idle"
    /\ UNCHANGED <<ctxDone, outcome, msgVars, queue, closing, poolVars,
                   current, last, updVars, sweep, admVars>>

(* A plugin's pre-hook answers the request itself; no message is made.     *)
ShortCircuit(r) ==
    /\ pc[r] = "hooks"
    /\ Return(r, "short_circuit")
    /\ UNCHANGED <<target, ctxDone, msgVars, queue, closing, poolVars,
                   dirVars, updVars, sweep, admVars>>

(* After the pre-hooks: the isClosing check, with the lock-free lookup of  *)
(* a replacement queue.                                                    *)
Proceed(r) ==
    /\ pc[r] = "hooks" /\ ~closing[target[r]]
    /\ pc' = [pc EXCEPT ![r] = "send"]
    /\ UNCHANGED <<target, ctxDone, outcome, msgVars, queue, closing, poolVars,
                   dirVars, updVars, sweep, admVars>>

CanReroute(r) == current \notin {0, target[r]} /\ ~closing[current]

Reroute(r) ==
    /\ pc[r] = "hooks" /\ closing[target[r]] /\ CanReroute(r)
    /\ target' = [target EXCEPT ![r] = current]
    /\ pc' = [pc EXCEPT ![r] = "send"]
    /\ UNCHANGED <<ctxDone, outcome, msgVars, queue, closing, poolVars,
                   dirVars, updVars, sweep, admVars>>

RefusedClosing(r) ==
    /\ pc[r] = "hooks" /\ closing[target[r]] /\ ~CanReroute(r)
    /\ GiveUp(r, "shutting_down")

(* The two selects that send; "block" is the one without a default.        *)
HasRoom(g) == Len(queue[g]) < BufferSize[g]

Enqueue(r) ==
    /\ pc[r] \in {"send", "block"} /\ HasRoom(target[r])
    /\ queue' = [queue EXCEPT ![target[r]] = Append(@, r)]
    /\ pc' = [pc EXCEPT ![r] = "wait"]
    /\ UNCHANGED <<target, ctxDone, outcome, msgVars, closing, poolVars,
                   dirVars, updVars, sweep, admVars>>

SendSeesDone(r) ==
    /\ pc[r] \in {"send", "recheck", "block"} /\ closing[target[r]]
    /\ GiveUp(r, "shutting_down")

SendSeesCtx(r) ==
    /\ pc[r] \in {"send", "block"} /\ ctxDone[r]
    /\ GiveUp(r, "cancelled")

WouldBlock(r) ==
    pc[r] = "send" /\ ~HasRoom(target[r]) /\ ~closing[target[r]] /\ ~ctxDone[r]

DropWhenFull(r) ==
    /\ WouldBlock(r) /\ TRUE \in DropExcess
    /\ GiveUp(r, "queue_full")

Advance(r, to) ==
    /\ pc' = [pc EXCEPT ![r] = to]
    /\ UNCHANGED <<target, ctxDone, outcome, msgVars, queue, closing, poolVars,
                   dirVars, updVars, sweep, admVars>>

KeepWhenFull(r) == WouldBlock(r) /\ FALSE \in DropExcess /\ Advance(r, "recheck")
Recheck(r)      == pc[r] = "recheck" /\ ~closing[target[r]] /\ Advance(r, "block")

(* The select that waits for the answer.  A provider result or error runs  *)
(* the post-hooks here; a stream's own goroutine runs those of its chunks. *)
TakeReply(r) ==
    /\ pc[r] = "wait" /\ replies[r] # <<>>
    /\ Return(r, Head(replies[r]))
    /\ released' = [released EXCEPT ![r] = TRUE]
    /\ postHooks' = IF r \in StreamRequests /\ Head(replies[r]) = "result"
                    THEN postHooks
                    ELSE [postHooks EXCEPT ![r] = @ + 1]
    /\ UNCHANGED <<target, ctxDone, replies, calls, queue, closing, poolVars,
                   dirVars, updVars, sweep, admVars>>

(* Variant: releases the message although a worker may hold it. *)
WaitSeesCtxReleases(r) ==
    /\ pc[r] = "wait" /\ ctxDone[r]
    /\ GiveUp(r, "cancelled")

(* Variant: the waiting select has no context arm. *)
WaitIgnoresCtx(r) ==
    /\ pc[r] = "wait" /\ replies[r] # <<>> /\ ctxDone[r]
    /\ Return(r, "cancelled")
    /\ UNCHANGED <<target, ctxDone, msgVars, queue, closing, poolVars, dirVars,
                   updVars, sweep, admVars>>

(* The message stays with the worker or the queue: it is not released.     *)
WaitSeesCtx(r) ==
    /\ pc[r] = "wait" /\ ctxDone[r]
    /\ Return(r, "cancelled")
    /\ UNCHANGED <<target, ctxDone, msgVars, queue, closing, poolVars, dirVars,
                   updVars, sweep, admVars>>

(* The caller's context ends.  Nothing reads it before the first select.   *)
Cancel(r) ==
    /\ r \in Cancellable /\ ~ctxDone[r]
    /\ pc[r] \in {"send", "recheck", "block", "wait"}
    /\ ctxDone' = [ctxDone EXCEPT ![r] = TRUE]
    /\ UNCHANGED <<pc, target, outcome, msgVars, queue, closing, poolVars,
                   dirVars, updVars, sweep, admVars>>

Client(r) ==
    \/ Lookup(r) \/ CreateFound(r) \/ CreateUnconfigured(r)
    \/ CreateRegister(r) \/ CreateFailed(r) \/ CreateDone(r)
    \/ ShortCircuit(r) \/ Proceed(r) \/ Reroute(r) \/ RefusedClosing(r)
    \/ Enqueue(r) \/ SendSeesDone(r) \/ SendSeesCtx(r)
    \/ DropWhenFull(r) \/ KeepWhenFull(r) \/ Recheck(r)
    \/ TakeReply(r) \/ WaitSeesCtx(r)

-----------------------------------------------------------------------------
(* requestWorker.                                                          *)

(* Variant: keeps the message it took in the channel. *)
TakeJobTwice(w) ==
    /\ worker[w] = "idle" /\ queue[w[1]] # <<>>
    /\ worker' = [worker EXCEPT ![w] = "busy"]
    /\ job' = [job EXCEPT ![w] = Head(queue[w[1]])]
    /\ UNCHANGED <<reqVars, msgVars, queue, closing, dirVars, updVars, sweep,
                   admVars>>

TakeJob(w) ==
    /\ worker[w] = "idle" /\ queue[w[1]] # <<>>
    /\ worker' = [worker EXCEPT ![w] = "busy"]
    /\ job' = [job EXCEPT ![w] = Head(queue[w[1]])]
    /\ queue' = [queue EXCEPT ![w[1]] = Tail(@)]
    /\ UNCHANGED <<reqVars, msgVars, closing, dirVars, updVars, sweep, admVars>>

(* The worker's select may prefer done although requests are buffered.     *)
SeeDone(w) ==
    /\ worker[w] = "idle" /\ closing[w[1]]
    /\ worker' = [worker EXCEPT ![w] = "draining"]
    /\ UNCHANGED <<reqVars, msgVars, queue, closing, job, dirVars, updVars,
                   sweep, admVars>>

DrainOne(w) ==
    /\ worker[w] = "draining"
    /\ RefuseHead(w[1], "shutting_down")
    /\ UNCHANGED <<reqVars, closing, poolVars, dirVars, updVars, sweep, admVars>>

Exit(w) ==
    /\ worker[w] = "draining" /\ queue[w[1]] = <<>>
    /\ worker' = [worker EXCEPT ![w] = "exited"]
    /\ UNCHANGED <<reqVars, msgVars, queue, closing, job, dirVars, updVars,
                   sweep, admVars>>

JobDone(w) ==
    /\ worker' = [worker EXCEPT ![w] = "idle"]
    /\ job' = [job EXCEPT ![w] = NoRequest]
    /\ UNCHANGED <<reqVars, released, queue, closing, dirVars, updVars, sweep,
                   admVars>>

(* No usable key (any error of the key lookup): executeRequestWithRetries  *)
(* is not run, the error is sent.                                          *)
KeyError(w) ==
    /\ worker[w] = "busy"
    /\ replies' = [replies EXCEPT ![job[w]] = Append(@, "error")]
    /\ UNCHANGED <<calls, postHooks>>
    /\ JobDone(w)

(* executeRequestWithRetries returned; the select delivers what it got...  *)
Deliver(w) ==
    /\ worker[w] = "busy"
    /\ calls' = [calls EXCEPT ![job[w]] = @ + 1]
    /\ \E reply \in {"result", "error"} :
          replies' = [replies EXCEPT ![job[w]] = Append(@, reply)]
    /\ UNCHANGED postHooks
    /\ JobDone(w)

(* Variant: bills a result that the channel still delivers. *)
DeliverAndBill(w) ==
    /\ worker[w] = "busy"
    /\ calls' = [calls EXCEPT ![job[w]] = @ + 1]
    /\ replies' = [replies EXCEPT ![job[w]] = Append(@, "result")]
    /\ postHooks' = [postHooks EXCEPT ![job[w]] = @ + 1]
    /\ JobDone(w)

(* ...or finds the context done: billAbandonedTerminal, not for streams.   *)
(* The five-second arm needs a full reply channel, which OneReply excludes.*)
Abandon(w) ==
    /\ worker[w] = "busy" /\ ctxDone[job[w]]
    /\ calls' = [calls EXCEPT ![job[w]] = @ + 1]
    /\ postHooks' = IF job[w] \in StreamRequests THEN postHooks
                    ELSE [postHooks EXCEPT ![job[w]] = @ + 1]
    /\ UNCHANGED replies
    /\ JobDone(w)

Work(w) == \/ TakeJob(w) \/ SeeDone(w) \/ DrainOne(w) \/ Exit(w)
           \/ KeyError(w) \/ Deliver(w) \/ Abandon(w)

-----------------------------------------------------------------------------
(* UpdateProvider.                                                         *)

UpdateBegin ==
    /\ "update" \in AdminOps /\ updPc = "idle"
    /\ lifecycle = "free" /\ shutPc = "idle" /\ configured
    /\ MayCreate
    /\ lifecycle' = "update" /\ updPc' = "begun"
    /\ UNCHANGED <<reqVars, msgVars, queue, closing, poolVars, dirVars, updOld,
                   hand, sweep, admVars>>

UpdateAbsent ==
    /\ updPc = "begun" /\ mutex = "free" /\ current = 0
    /\ Register("update")
    /\ updPc' = "prepare"
    /\ UNCHANGED <<reqVars, msgVars, queue, closing, poolVars, lifecycle,
                   updOld, hand, sweep, admVars>>

UpdateLock ==
    /\ updPc = "begun" /\ mutex = "free" /\ current # 0
    /\ mutex' = "update" /\ updPc' = "replace" /\ updOld' = current
    /\ UNCHANGED <<reqVars, msgVars, queue, closing, poolVars, current, last,
                   build, lifecycle, hand, sweep, admVars>>

UpdateReturn ==
    /\ mutex' = "free" /\ lifecycle' = "free" /\ build' = "idle"
    /\ updPc' = "idle" /\ updOld' = 0
    /\ UNCHANGED <<reqVars, current, last, hand, admVars>>

(* Variant: returns its error without unlocking the provider. *)
UpdateFailsLocked ==
    /\ mutex = "update" /\ TRUE \in CreateFails
    /\ updPc = "replace"
    /\ lifecycle' = "free" /\ updPc' = "idle" /\ updOld' = 0
    /\ UNCHANGED <<reqVars, dirVars, hand, admVars>>
    /\ UNCHANGED <<msgVars, queue, closing, poolVars, sweep>>

(* createBaseProvider fails: an existing generation stays in service, a    *)
(* missing one has been registered and stays without workers.              *)
UpdateFailed ==
    /\ mutex = "update" /\ TRUE \in CreateFails
    /\ updPc = "replace" \/ (updPc = "prepare" /\ build = "instantiate")
    /\ UpdateReturn
    /\ UNCHANGED <<msgVars, queue, closing, poolVars, sweep>>

UpdatePrepared ==
    /\ updPc = "prepare" /\ mutex = "update" /\ AllStarted
    /\ UpdateReturn
    /\ UNCHANGED <<msgVars, queue, closing, poolVars, sweep>>

(* The new provider exists: publish its queue and start its workers.       *)
UpdatePublish ==
    /\ updPc = "replace" /\ FALSE \in CreateFails
    /\ last' = last + 1 /\ current' = last + 1
    /\ build' = "start" /\ updPc' = "start"
    /\ UNCHANGED <<reqVars, msgVars, queue, closing, poolVars, mutex, lifecycle,
                   updOld, hand, sweep, admVars>>

UpdateStarted ==
    /\ updPc = "start" /\ AllStarted
    /\ build' = "idle" /\ updPc' = "transfer"
    /\ UNCHANGED <<reqVars, msgVars, queue, closing, poolVars, current, last,
                   mutex, lifecycle, updOld, hand, sweep, admVars>>

TransferTake ==
    /\ updPc = "transfer" /\ hand = NoRequest /\ queue[updOld] # <<>>
    /\ hand' = Head(queue[updOld])
    /\ queue' = [queue EXCEPT ![updOld] = Tail(@)]
    /\ UNCHANGED <<reqVars, msgVars, closing, poolVars, dirVars, lifecycle,
                   updPc, updOld, sweep, admVars>>

(* Variant: puts without having received a message. *)
TransferPutNothing ==
    /\ updPc = "transfer" /\ HasRoom(current)
    /\ queue' = [queue EXCEPT ![current] = Append(@, hand)]
    /\ hand' = NoRequest
    /\ UNCHANGED <<reqVars, msgVars, closing, poolVars, dirVars, lifecycle,
                   updPc, updOld, sweep, admVars>>

TransferPut ==
    /\ updPc = "transfer" /\ hand # NoRequest /\ HasRoom(current)
    /\ queue' = [queue EXCEPT ![current] = Append(@, hand)]
    /\ hand' = NoRequest
    /\ UNCHANGED <<reqVars, msgVars, closing, poolVars, dirVars, lifecycle,
                   updPc, updOld, sweep, admVars>>

(* Variant: the message that found the new queue full is forgotten. *)
TransferFullForgets ==
    /\ updPc = "transfer" /\ hand # NoRequest /\ ~HasRoom(current)
    /\ hand' = NoRequest /\ updPc' = "cancel"
    /\ UNCHANGED <<reqVars, msgVars, queue, closing,
                   poolVars, dirVars, lifecycle, updOld, sweep, admVars>>

(* The new queue is full: this message and all that are left are refused.  *)
TransferFull ==
    /\ updPc = "transfer" /\ hand # NoRequest /\ ~HasRoom(current)
    /\ Refuse(hand, "queue_full")
    /\ hand' = NoRequest /\ updPc' = "cancel"
    /\ UNCHANGED <<reqVars, released, calls, postHooks, queue, closing,
                   poolVars, dirVars, lifecycle, updOld, sweep, admVars>>

CancelRest ==
    /\ updPc = "cancel"
    /\ RefuseHead(updOld, "queue_full")
    /\ UNCHANGED <<reqVars, closing, poolVars, dirVars, updVars, sweep, admVars>>

(* Variant: signals the queue that was just published. *)
UpdateRetiresNew ==
    /\ updPc \in {"transfer", "cancel"} /\ hand = NoRequest
    /\ queue[updOld] = <<>>
    /\ closing' = [closing EXCEPT ![current] = TRUE]
    /\ sweep' = [sweep EXCEPT ![updOld] = "waiting"]
    /\ UpdateReturn
    /\ UNCHANGED <<msgVars, queue, poolVars>>

(* Variant: forgets to signal the old queue. *)
UpdateRetireUnsignalled ==
    /\ updPc \in {"transfer", "cancel"} /\ hand = NoRequest
    /\ queue[updOld] = <<>>
    /\ sweep' = [sweep EXCEPT ![updOld] = "waiting"]
    /\ UpdateReturn
    /\ UNCHANGED <<msgVars, queue, closing, poolVars>>

(* Register the cleanup, signal the old queue, unlock and return.          *)
UpdateRetire ==
    /\ updPc \in {"transfer", "cancel"} /\ hand = NoRequest
    /\ queue[updOld] = <<>>
    /\ closing' = [closing EXCEPT ![updOld] = TRUE]
    /\ sweep' = [sweep EXCEPT ![updOld] = "waiting"]
    /\ UpdateReturn
    /\ UNCHANGED <<msgVars, queue, poolVars>>

(* The goroutine UpdateProvider leaves: wait for the old workers, sweep    *)
(* the old queue once, and count down both wait groups.                    *)
SweepBegin(g) ==
    /\ sweep[g] = "waiting" /\ Quiet(g)
    /\ sweep' = [sweep EXCEPT ![g] = "sweeping"]
    /\ UNCHANGED <<reqVars, msgVars, queue, closing, poolVars, dirVars, updVars,
                   admVars>>

SweepOne(g) ==
    /\ sweep[g] = "sweeping"
    /\ RefuseHead(g, "shutting_down")
    /\ UNCHANGED <<reqVars, closing, poolVars, dirVars, updVars, sweep, admVars>>

SweepEnd(g) ==
    /\ sweep[g] = "sweeping" /\ queue[g] = <<>>
    /\ sweep' = [sweep EXCEPT ![g] = "done"]
    /\ UNCHANGED <<reqVars, msgVars, queue, closing, poolVars, dirVars, updVars,
                   admVars>>

Sweep(g) == SweepBegin(g) \/ SweepOne(g) \/ SweepEnd(g)

Update == \/ UpdateAbsent \/ UpdateLock \/ UpdateFailed \/ UpdatePrepared
          \/ UpdatePublish \/ UpdateStarted \/ TransferTake \/ TransferPut
          \/ TransferFull \/ CancelRest \/ UpdateRetire

-----------------------------------------------------------------------------
(* The server's RemoveProvider: the client's RemoveProvider under the      *)
(* provider lock, then the deletion of the configuration.                  *)

RemoveAbsent ==
    /\ "remove" \in AdminOps /\ remPc = "idle"
    /\ mutex = "free" /\ current = 0
    /\ remPc' = "config"
    /\ UNCHANGED <<reqVars, msgVars, queue, closing, poolVars, dirVars, updVars,
                   sweep, shutPc, shutGen, configured>>

(* Variant: waits for workers that were not told to stop. *)
RemoveLockUnsignalled ==
    /\ "remove" \in AdminOps /\ remPc = "idle"
    /\ mutex = "free" /\ current # 0
    /\ mutex' = "remove" /\ remPc' = "wait"
    /\ UNCHANGED <<reqVars, msgVars, queue, closing, poolVars, current, last,
                   build, updVars, sweep, shutPc, shutGen, configured>>

RemoveLock ==
    /\ "remove" \in AdminOps /\ remPc = "idle"
    /\ mutex = "free" /\ current # 0
    /\ mutex' = "remove" /\ remPc' = "wait"
    /\ closing' = [closing EXCEPT ![current] = TRUE]
    /\ UNCHANGED <<reqVars, msgVars, queue, poolVars, current, last, build,
                   updVars, sweep, shutPc, shutGen, configured>>

RemoveStep(from, to) ==
    /\ remPc = from /\ remPc' = to
    /\ UNCHANGED <<reqVars, msgVars, queue, closing, poolVars, last, build,
                   updVars, sweep, shutPc, shutGen>>

RemoveWorkersGone ==
    /\ RemoveStep("wait", "sweep") /\ Quiet(current)
    /\ UNCHANGED <<current, mutex, configured>>

RemoveSweepOne ==
    /\ remPc = "sweep"
    /\ RefuseHead(current, "shutting_down")
    /\ UNCHANGED <<reqVars, closing, poolVars, dirVars, updVars, sweep, admVars>>

(* Variant: skips the final sweep. *)
RemoveSkipsSweep ==
    /\ RemoveStep("sweep", "retired")
    /\ UNCHANGED <<current, mutex, configured>>

RemoveSweepEnd ==
    /\ RemoveStep("sweep", "retired") /\ queue[current] = <<>>
    /\ UNCHANGED <<current, mutex, configured>>

(* Variant: step 3c is missing. *)
RemoveSkipsRetired ==
    /\ RemoveStep("retired", "config")
    /\ current' = 0 /\ mutex' = "free"
    /\ UNCHANGED configured

RemoveUnregister ==
    /\ RemoveStep("retired", "config") /\ Retired = {}
    /\ current' = 0 /\ mutex' = "free"
    /\ UNCHANGED configured

RemoveConfig ==
    /\ RemoveStep("config", "done")
    /\ configured' = FALSE
    /\ UNCHANGED <<current, mutex>>

Remove == \/ RemoveWorkersGone \/ RemoveSweepOne \/ RemoveSweepEnd
          \/ RemoveUnregister \/ RemoveConfig

-----------------------------------------------------------------------------
(* Shutdown.  It takes no provider lock: the map may change between its    *)
(* passes over requestQueues and waitGroups.                               *)

ShutdownStep(from, to) ==
    /\ shutPc = from /\ shutPc' = to
    /\ UNCHANGED <<reqVars, msgVars, queue, poolVars, dirVars, updPc, updOld,
                   hand, sweep, remPc, configured>>

ShutdownBegin ==
    /\ "shutdown" \in AdminOps /\ lifecycle = "free"
    /\ ShutdownStep("idle", "signal")
    /\ lifecycle' = "shutdown"
    /\ UNCHANGED <<closing, shutGen>>

(* Variant: signals nobody. *)
ShutdownUnsignalled ==
    /\ ShutdownStep("signal", "range")
    /\ UNCHANGED <<closing, lifecycle, shutGen>>

ShutdownSignal ==
    /\ ShutdownStep("signal", "range")
    /\ closing' = [g \in Gens |-> closing[g] \/ g = current]
    /\ UNCHANGED <<lifecycle, shutGen>>

ShutdownLoadWaitGroup ==
    /\ ShutdownStep("range", "wait")
    /\ shutGen' = current
    /\ UNCHANGED <<closing, lifecycle>>

ShutdownWorkersGone ==
    /\ ShutdownStep("wait", "cleanups")
    /\ shutGen # 0 => Quiet(shutGen)
    /\ UNCHANGED <<closing, lifecycle, shutGen>>

(* Variant: does not wait for the cleanups of earlier updates. *)
ShutdownSkipsCleanups ==
    /\ ShutdownStep("cleanups", "sweep")
    /\ UNCHANGED <<closing, lifecycle, shutGen>>

ShutdownCleanupsGone ==
    /\ ShutdownStep("cleanups", "sweep")
    /\ Retired = {}
    /\ UNCHANGED <<closing, lifecycle, shutGen>>

ShutdownSweepOne ==
    /\ shutPc = "sweep" /\ current # 0
    /\ RefuseHead(current, "shutting_down")
    /\ UNCHANGED <<reqVars, closing, poolVars, dirVars, updVars, sweep, admVars>>

ShutdownEnd ==
    /\ ShutdownStep("sweep", "done")
    /\ current # 0 => queue[current] = <<>>
    /\ lifecycle' = "free"
    /\ UNCHANGED <<closing, shutGen>>

Shutdown == \/ ShutdownSignal \/ ShutdownLoadWaitGroup \/ ShutdownWorkersGone
            \/ ShutdownCleanupsGone \/ ShutdownSweepOne \/ ShutdownEnd

-----------------------------------------------------------------------------
Next ==
    \/ \E r \in Requests : Client(r) \/ Cancel(r)
    \/ \E w \in Workers : Work(w) \/ StartWorker(w)
    \/ Instantiated
    \/ UpdateBegin \/ Update \/ \E g \in Gens : Sweep(g)
    \/ RemoveAbsent \/ RemoveLock \/ Remove
    \/ ShutdownBegin \/ Shutdown

Spec == Init /\ [][Next]_vars

(* Goroutines are scheduled and provider calls end (every adapter sets a   *)
(* request timeout).  Nobody is obliged to end a context or to call an     *)
(* administrative operation; once called, it runs.  Go's RWMutex admits a  *)
(* waiter eventually, hence strong fairness for the steps that lock.       *)
Fairness ==
    /\ \A r \in Requests : SF_vars(Client(r))
    /\ \A w \in Workers : WF_vars(Work(w) \/ StartWorker(w))
    /\ WF_vars(Instantiated)
    /\ SF_vars(Update)
    /\ \A g \in Gens : WF_vars(Sweep(g))
    /\ WF_vars(Remove)
    /\ WF_vars(Shutdown)

FairSpec == Spec /\ Fairness

-----------------------------------------------------------------------------
(* Where a message is.                                                     *)

Queued(r, g)  == \E i \in 1..Len(queue[g]) : queue[g][i] = r
Carried(r, w) == worker[w] = "busy" /\ job[w] = r
Held(r) == \/ \E g \in Gens : Queued(r, g)
           \/ \E w \in Workers : Carried(r, w)
           \/ hand = r

(* A request is answered at most once, whichever of the worker, its drain  *)
(* loop, UpdateProvider's transfer and the sweeps of UpdateProvider,       *)
(* RemoveProvider and Shutdown get hold of its message; it is executed     *)
(* (executeRequestWithRetries) at most once; and the post-LLM hooks that   *)
(* bill a call run at most once for it (billAbandonedTerminal's claim).    *)
AtMostOnce == \A r \in Requests :
    Len(replies[r]) <= 1 /\ calls[r] <= 1 /\ postHooks[r] <= 1

(* UpdateProvider "to prevent loss": a caller that waits and whose context *)
(* lives has its answer in its channels or its message in the hands of     *)
(* exactly the structures that can still answer it - in no step of a       *)
(* transfer, drain or sweep does the message fall between two of them.     *)
NothingLost == \A r \in Requests :
    pc[r] = "wait" /\ ~ctxDone[r] => (replies[r] = <<>> <=> Held(r))

(* releaseChannelMessage puts the message and its channels back in their   *)
(* pools, so the next request may get them: no queue, no worker and no     *)
(* transfer may still refer to a released message.                         *)
ReleasedIsUnreferenced == \A r \in Requests : released[r] => ~Held(r)

(* RemoveProvider returns only when no worker of any generation runs, the  *)
(* generations retired by earlier updates included, and it leaves every    *)
(* generation that ever had workers closed.                                *)
RemoveLeavesNoWorker ==
    [][mutex = "remove" /\ mutex' # "remove" =>
         \A w \in Workers : ~Alive(w)' /\ (worker[w] = "exited" => closing[w[1]])]_vars

(* Whatever an update, drain or sweep does with a message, it is in one    *)
(* place as long as somebody waits for it, and in none afterwards.         *)
MessagesAccounted == NothingLost /\ ReleasedIsUnreferenced

(* A provider's updates never leave a window without workers: the          *)
(* generation that new requests find under the read lock has all its       *)
(* workers running unless Shutdown has begun.                              *)
LookupFindsWorkers ==
    mutex = "free" /\ current # 0 /\ shutPc = "idle" =>
        \A s \in Slots : worker[<<current, s>>] \in {"idle", "busy"}

(* Shutdown "gracefully stops all workers": when it has returned, none of  *)
(* any generation is running.  It holds where the queue exists when        *)
(* Shutdown begins: a request that finds none creates one unhindered.      *)
ShutdownStopsWorkers == shutPc = "done" => \A w \in Workers : ~Alive(w)

(* Shutdown waits only for workers that were told to stop, be it by itself *)
(* or by the update that retired them: nothing it waits for can last.      *)
ShutdownWaitsForTold ==
    LET waitedFor == {w \in Workers : \/ shutPc = "wait" /\ w[1] = shutGen
                                      \/ shutPc = "cleanups" /\ w[1] \in Retired}
    IN  \A w \in waitedFor : Alive(w) => closing[w[1]]

(* The goroutines that will still look at generation g: its workers, the   *)
(* cleanup of the update that replaced it, a removal or shutdown under way *)
(* (a shutdown does not find a generation that a removal has unregistered).*)
Attended(g) ==
    \/ \E s \in Slots : Alive(<<g, s>>)
    \/ g \in Retired
    \/ g = current /\ remPc \in {"wait", "sweep"}
    \/ g = current /\ shutPc \notin {"idle", "done"} /\ remPc = "idle"

(* A request that is in a queue while a worker of that generation lives or *)
(* a sweep of it is still to end is answered, or its caller leaves: drain  *)
(* loops and sweeps leave only what drainQueueWithErrors documents as its  *)
(* residual window, a message deposited after the last sweep.              *)
AcceptedIsAnswered == \A r \in Requests :
    (\E g \in Gens : Queued(r, g) /\ Attended(g)) ~> pc[r] = "done"

(* Whatever happens to the queue, a caller whose context ends returns      *)
(* ("the caller will block until its own context is cancelled").           *)
CancelReturns == \A r \in Requests :
    ctxDone[r] ~> pc[r] = "done"

(* No caller waits for ever on a queue that somebody attends to, or after  *)
(* its context has ended.                                                  *)
CallersReturn == AcceptedIsAnswered /\ CancelReturns

(* UpdateProvider and RemoveProvider return, and the cleanup goroutines an *)
(* update leaves behind end.                                               *)
UpdateReturns  == updPc # "idle" ~> updPc = "idle"
RemoveReturns  == mutex = "remove" ~> remPc = "done"
CleanupEnds    == \A g \in Gens : sweep[g] = "waiting" ~> sweep[g] = "done"
AdminReturns   == UpdateReturns /\ RemoveReturns /\ CleanupEnds

(* The abstract service: every step of the queue layer is a step of        *)
(* RequestService or leaves it alone.                                      *)
Service == INSTANCE RequestService WITH
    Refusals <- {"unavailable", "short_circuit", "shutting_down",
                 "queue_full", "cancelled"},
    phase    <- [r \in Requests |-> CASE pc[r] = "wait" -> "accepted"
                                      [] pc[r] = "done" -> "returned"
                                      [] OTHER -> "open"],
    ended    <- ctxDone,
    answers  <- replies

(* tryRequest keeps RequestService's promise to its callers.               *)
ImplementsService == Service!Spec
=============================================================================
