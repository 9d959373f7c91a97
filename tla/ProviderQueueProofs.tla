------------------------- MODULE ProviderQueueProofs -------------------------
(* Machine-checked theorems about ProviderQueue, for every set of requests, *)
(* pool size, buffer size and number of generations: its types, what        *)
(* update, removal and shutdown do to the workers of all generations, who   *)
(* owns a message, and that the queue layer implements RequestService.      *)
EXTENDS ProviderQueue, TLAPS

(* What typing depends on: which lock the multi-step operations hold, and  *)
(* that an update that has begun still has a generation to create.         *)
LockInv ==
    /\ updPc \in {"replace", "start", "transfer", "cancel"} => updOld \in Gens
    /\ updPc \in {"begun", "replace"} => last < MaxGen
    /\ updPc \in {"prepare", "replace", "start", "transfer", "cancel"}
          => mutex = "update"
    /\ remPc \in {"wait", "sweep", "retired"} => mutex = "remove" /\ current # 0
    /\ \A r \in Requests : pc[r] = "prepare" => mutex = r

TypeInv == TypeOK /\ LockInv


(* Facts about the two functions to sequences, queue and replies.          *)

LEMMA AppendType ==
  ASSUME NEW D, NEW S, NEW f \in [D -> Seq(S)], NEW a, NEW x \in S
  PROVE  [f EXCEPT ![a] = Append(@, x)] \in [D -> Seq(S)]
  <1> DEFINE F == [f EXCEPT ![a] = Append(@, x)]
  <1>1. ASSUME NEW d \in D PROVE F[d] \in Seq(S)
    <2>1. f[d] \in Seq(S) /\ Append(f[d], x) \in Seq(S)
      OBVIOUS
    <2>2. F[d] = IF d = a THEN Append(f[d], x) ELSE f[d]
      OBVIOUS
    <2> QED
      BY <2>1, <2>2
  <1>2. F = [d \in D |-> F[d]]
    OBVIOUS
  <1> QED
    BY <1>1, <1>2

LEMMA TailType ==
  ASSUME NEW D, NEW S, NEW f \in [D -> Seq(S)], NEW a \in D, f[a] # <<>>
  PROVE  /\ [f EXCEPT ![a] = Tail(@)] \in [D -> Seq(S)]
         /\ Head(f[a]) \in S
  <1>1. Tail(f[a]) \in Seq(S) /\ Head(f[a]) \in S
    OBVIOUS
  <1> QED
    BY <1>1

LEMMA CountType ==
  ASSUME NEW D, NEW f \in [D -> Nat], NEW a
  PROVE  [f EXCEPT ![a] = @ + 1] \in [D -> Nat]
  <1> DEFINE F == [f EXCEPT ![a] = @ + 1]
  <1>1. ASSUME NEW d \in D PROVE F[d] \in Nat
    <2>1. F[d] = IF d = a THEN f[d] + 1 ELSE f[d]
      OBVIOUS
    <2> QED
      BY <2>1
  <1>2. F = [d \in D |-> F[d]]
    OBVIOUS
  <1> QED
    BY <1>1, <1>2

(* Refusing a message, in a loop or by itself, keeps the channels typed.   *)
LEMMA RefuseType ==
  ASSUME replies \in [Requests -> Seq(Replies)], NEW r, NEW a \in Replies,
         Refuse(r, a)
  PROVE  replies' \in [Requests -> Seq(Replies)]
  <1>1. CASE replies' = [replies EXCEPT ![r] = Append(@, a)]
    BY <1>1, AppendType
  <1>2. CASE UNCHANGED replies
    BY <1>2
  <1> QED
    BY <1>1, <1>2 DEF Refuse

LEMMA RefuseHeadType ==
  ASSUME TypeOK, NEW g \in Gens, NEW a \in Replies, RefuseHead(g, a)
  PROVE  /\ queue' \in [Gens -> Seq(Requests)]
         /\ replies' \in [Requests -> Seq(Replies)]
         /\ UNCHANGED <<released, calls, postHooks>>
  <1>1. queue' \in [Gens -> Seq(Requests)]
    BY TailType DEF RefuseHead, TypeOK, QueueTypes
  <1>2. replies' \in [Requests -> Seq(Replies)]
    BY RefuseType DEF RefuseHead, TypeOK, MsgTypes
  <1> QED
    BY <1>1, <1>2 DEF RefuseHead

LEMMA TypeInit == Init => TypeInv
  BY RequestAssumption, SizeAssumption
     DEF Init, TypeInv, TypeOK, LockInv, ReqTypes, MsgTypes, QueueTypes,
         PoolTypes, AdminTypes, Gens, Workers, ReqPcs, Replies,
         Outcomes, Holders

(* Only the client steps touch what a request knows of itself.            *)
LEMMA ReqTypesStep == TypeInv /\ [Next]_vars => ReqTypes'
  <1> SUFFICES ASSUME TypeInv, [Next]_vars PROVE ReqTypes'
    OBVIOUS
  <1> USE DEF ReqPcs, Outcomes, Replies
  <1>1. CASE UNCHANGED reqVars
    BY <1>1 DEF reqVars, ReqTypes, TypeInv, TypeOK
  <1>2. ASSUME NEW r \in Requests, Client(r) PROVE ReqTypes'
    <2>1. CASE Lookup(r)
      BY <2>1 DEF Lookup, ReqTypes, TypeInv, TypeOK, AdminTypes
    <2>2. CASE CreateFound(r)
      BY <2>2 DEF CreateFound, ReqTypes, TypeInv, TypeOK, AdminTypes
    <2>3. CASE CreateUnconfigured(r)
      BY <2>3 DEF CreateUnconfigured, Return, ReqTypes, TypeInv, TypeOK,
         AdminTypes
    <2>4. CASE CreateRegister(r)
      BY <2>4 DEF CreateRegister, Register, MayCreate, ReqTypes, TypeInv,
         TypeOK, AdminTypes
    <2>5. CASE CreateFailed(r)
      BY <2>5 DEF CreateFailed, Return, ReqTypes, TypeInv, TypeOK, AdminTypes
    <2>6. CASE CreateDone(r)
      BY <2>6 DEF CreateDone, ReqTypes, TypeInv, TypeOK, AdminTypes
    <2>7. CASE ShortCircuit(r)
      BY <2>7 DEF ShortCircuit, Return, ReqTypes, TypeInv, TypeOK, AdminTypes
    <2>8. CASE Proceed(r)
      BY <2>8 DEF Proceed, ReqTypes, TypeInv, TypeOK, AdminTypes
    <2>9. CASE Reroute(r)
      BY <2>9 DEF Reroute, ReqTypes, TypeInv, TypeOK, AdminTypes
    <2>10. CASE RefusedClosing(r)
      BY <2>10 DEF RefusedClosing, GiveUp, Return, ReqTypes, TypeInv, TypeOK,
         AdminTypes
    <2>11. CASE Enqueue(r)
      BY <2>11 DEF Enqueue, ReqTypes, TypeInv, TypeOK, AdminTypes
    <2>12. CASE SendSeesDone(r)
      BY <2>12 DEF SendSeesDone, GiveUp, Return, ReqTypes, TypeInv, TypeOK,
         AdminTypes
    <2>13. CASE SendSeesCtx(r)
      BY <2>13 DEF SendSeesCtx, GiveUp, Return, ReqTypes, TypeInv, TypeOK,
         AdminTypes
    <2>14. CASE DropWhenFull(r)
      BY <2>14 DEF DropWhenFull, GiveUp, Return, ReqTypes, TypeInv, TypeOK,
         AdminTypes
    <2>15. CASE KeepWhenFull(r)
      BY <2>15 DEF KeepWhenFull, Advance, ReqTypes, TypeInv, TypeOK,
         AdminTypes
    <2>16. CASE Recheck(r)
      BY <2>16 DEF Recheck, Advance, ReqTypes, TypeInv, TypeOK, AdminTypes
    <2>17. CASE TakeReply(r)
      <3>1. Head(replies[r]) \in Replies
        BY <2>17 DEF TakeReply, MsgTypes, TypeInv, TypeOK
      <3> QED
        BY <2>17, <3>1 DEF TakeReply, Return, ReqTypes, TypeInv, TypeOK,
           Replies
    <2>18. CASE WaitSeesCtx(r)
      BY <2>18 DEF WaitSeesCtx, Return, ReqTypes, TypeInv, TypeOK, AdminTypes
    <2> QED
      BY <1>2, <2>1, <2>2, <2>3, <2>4, <2>5, <2>6, <2>7, <2>8, <2>9, <2>10,
         <2>11, <2>12, <2>13, <2>14, <2>15, <2>16, <2>17, <2>18 DEF Client
  <1>3. ASSUME NEW w \in Workers, Work(w) PROVE ReqTypes'
    <2>1. UNCHANGED reqVars
      BY <1>3 DEF Work, TakeJob, SeeDone, DrainOne, RefuseHead, Refuse, Exit,
         KeyError, JobDone, Deliver, Abandon, reqVars, msgVars, poolVars,
         dirVars, updVars, admVars
    <2> QED
      BY <1>1, <2>1
  <1>4. ASSUME Update PROVE ReqTypes'
    <2>1. UNCHANGED reqVars
      BY <1>4 DEF Update, UpdateAbsent, Register, UpdateLock, UpdateFailed,
         UpdateReturn, UpdatePrepared, UpdatePublish, UpdateStarted,
         TransferTake, TransferPut, TransferFull, Refuse, CancelRest,
         RefuseHead, UpdateRetire, reqVars, msgVars, poolVars, dirVars,
         updVars, admVars
    <2> QED
      BY <1>1, <2>1
  <1>5. ASSUME NEW g \in Gens, Sweep(g) PROVE ReqTypes'
    <2>1. UNCHANGED reqVars
      BY <1>5 DEF Sweep, SweepBegin, SweepOne, RefuseHead, Refuse, SweepEnd,
         reqVars, msgVars, poolVars, dirVars, updVars, admVars
    <2> QED
      BY <1>1, <2>1
  <1>6. ASSUME Remove PROVE ReqTypes'
    <2>1. UNCHANGED reqVars
      BY <1>6 DEF Remove, RemoveWorkersGone, RemoveStep, RemoveSweepOne,
         RefuseHead, Refuse, RemoveSweepEnd, RemoveUnregister, RemoveConfig,
         reqVars, msgVars, poolVars, dirVars, updVars, admVars
    <2> QED
      BY <1>1, <2>1
  <1>7. ASSUME Shutdown PROVE ReqTypes'
    <2>1. UNCHANGED reqVars
      BY <1>7 DEF Shutdown, ShutdownSignal, ShutdownStep,
         ShutdownLoadWaitGroup, ShutdownWorkersGone, ShutdownCleanupsGone,
         ShutdownSweepOne, RefuseHead, Refuse, ShutdownEnd, reqVars, msgVars,
         poolVars, dirVars, updVars, admVars
    <2> QED
      BY <1>1, <2>1
  <1>8. ASSUME NEW r \in Requests, Cancel(r) PROVE ReqTypes'
    BY <1>8 DEF Cancel, ReqTypes, TypeInv, TypeOK
  <1>9. ASSUME \/ \E w \in Workers : StartWorker(w)
               \/ Instantiated
               \/ UpdateBegin
               \/ RemoveAbsent
               \/ RemoveLock
               \/ ShutdownBegin
               \/ UNCHANGED vars
         PROVE ReqTypes'
    <2>1. UNCHANGED reqVars
      BY <1>9 DEF StartWorker, Instantiated, UpdateBegin, MayCreate,
         RemoveAbsent, RemoveLock, ShutdownBegin, ShutdownStep, vars, reqVars,
         msgVars, poolVars, dirVars, updVars, admVars
    <2> QED
      BY <1>1, <2>1
  <1> QED
    BY <1>2, <1>3, <1>4, <1>5, <1>6, <1>7, <1>8, <1>9 DEF Next

(* Replies come from workers and refusals, releases from the callers.      *)
LEMMA MsgTypesStep == TypeInv /\ [Next]_vars => MsgTypes'
  <1> SUFFICES ASSUME TypeInv, [Next]_vars PROVE MsgTypes'
    OBVIOUS
  <1>1. CASE UNCHANGED msgVars
    BY <1>1 DEF msgVars, MsgTypes, TypeInv, TypeOK
  <1>2. ASSUME NEW r \in Requests, Client(r) PROVE MsgTypes'
    <2>1. CASE RefusedClosing(r)
      BY <2>1 DEF RefusedClosing, GiveUp, Return, MsgTypes, TypeInv, TypeOK
    <2>2. CASE SendSeesDone(r)
      BY <2>2 DEF SendSeesDone, GiveUp, Return, MsgTypes, TypeInv, TypeOK
    <2>3. CASE SendSeesCtx(r)
      BY <2>3 DEF SendSeesCtx, GiveUp, Return, MsgTypes, TypeInv, TypeOK
    <2>4. CASE DropWhenFull(r)
      BY <2>4 DEF DropWhenFull, GiveUp, Return, MsgTypes, TypeInv, TypeOK
    <2>5. CASE TakeReply(r)
      BY <2>5 , CountType DEF TakeReply, MsgTypes, TypeInv, TypeOK
    <2>6. CASE Lookup(r) \/ CreateFound(r) \/ CreateUnconfigured(r) \/
       CreateRegister(r) \/ CreateFailed(r) \/ CreateDone(r) \/
       ShortCircuit(r) \/ Proceed(r) \/ Reroute(r) \/ Enqueue(r) \/
       KeepWhenFull(r) \/ Recheck(r) \/ WaitSeesCtx(r)
      <3>1. UNCHANGED msgVars
        BY <2>6 DEF Lookup, CreateFound, CreateUnconfigured, Return,
           CreateRegister, Register, MayCreate, CreateFailed, CreateDone,
           ShortCircuit, Proceed, Reroute, Enqueue, KeepWhenFull, Advance,
           Recheck, WaitSeesCtx, reqVars, msgVars, poolVars, dirVars, updVars,
           admVars
      <3> QED
        BY <1>1, <3>1
    <2> QED
      BY <1>2, <2>1, <2>2, <2>3, <2>4, <2>5, <2>6 DEF Client
  <1>3. ASSUME NEW w \in Workers, Work(w) PROVE MsgTypes'
    <2>1. CASE DrainOne(w)
      <3>1. w[1] \in Gens
        BY <2>1 DEF DrainOne, Workers, Gens, TypeInv, LockInv, TypeOK,
           AdminTypes
      <3> QED
        BY <2>1, <3>1, RefuseHeadType DEF DrainOne, MsgTypes, TypeInv, TypeOK,
           Replies
    <2>2. CASE KeyError(w)
      <3>1. replies \in [Requests -> Seq(Replies)] /\ "error" \in Replies
        BY DEF MsgTypes, TypeInv, TypeOK, Replies
      <3>2. replies' \in [Requests -> Seq(Replies)]
        <4>1. replies' = [replies EXCEPT ![job[w]] = Append(@, "error")]
          BY <2>2 DEF KeyError
        <4> QED
          BY <3>1, <4>1, AppendType
      <3> QED
        BY <2>2, <3>2 DEF KeyError, JobDone, MsgTypes, TypeInv, TypeOK
    <2>3. CASE Deliver(w)
      <3>1. PICK a \in {"result", "error"} : replies' = [replies EXCEPT
         ![job[w]] = Append(@, a)]
        BY <2>3 DEF Deliver
      <3>2. replies' \in [Requests -> Seq(Replies)]
        <4>1. replies \in [Requests -> Seq(Replies)] /\ a \in Replies
          BY DEF MsgTypes, TypeInv, TypeOK, Replies
        <4> QED
          BY <3>1, <4>1, AppendType
      <3>3. calls' \in [Requests -> Nat]
        BY <2>3, CountType DEF Deliver, MsgTypes, TypeInv, TypeOK
      <3> QED
        BY <2>3, <3>2, <3>3 DEF Deliver, JobDone, MsgTypes, TypeInv, TypeOK
    <2>4. CASE Abandon(w)
      <3>1. calls' \in [Requests -> Nat] /\ postHooks' \in [Requests -> Nat]
        BY <2>4, CountType DEF Abandon, MsgTypes, TypeInv, TypeOK
      <3> QED
        BY <2>4, <3>1 DEF Abandon, JobDone, MsgTypes, TypeInv, TypeOK
    <2>5. CASE TakeJob(w) \/ SeeDone(w) \/ Exit(w)
      <3>1. UNCHANGED msgVars
        BY <2>5 DEF TakeJob, SeeDone, Exit, reqVars, msgVars, poolVars,
           dirVars, updVars, admVars
      <3> QED
        BY <1>1, <3>1
    <2> QED
      BY <1>3, <2>1, <2>2, <2>3, <2>4, <2>5 DEF Work
  <1>4. ASSUME Update PROVE MsgTypes'
    <2>1. CASE TransferFull
      <3>1. replies' \in [Requests -> Seq(Replies)]
        BY <2>1, RefuseType DEF TransferFull, MsgTypes, TypeInv, TypeOK,
           Replies
      <3> QED
        BY <2>1, <3>1 DEF TransferFull, MsgTypes, TypeInv, TypeOK
    <2>2. CASE CancelRest
      <3>1. updOld \in Gens
        BY <2>2 DEF CancelRest, Workers, Gens, TypeInv, LockInv, TypeOK,
           AdminTypes
      <3> QED
        BY <2>2, <3>1, RefuseHeadType DEF CancelRest, MsgTypes, TypeInv,
           TypeOK, Replies
    <2>3. CASE UpdateAbsent \/ UpdateLock \/ UpdateFailed \/ UpdatePrepared \/
       UpdatePublish \/ UpdateStarted \/ TransferTake \/ TransferPut \/
       UpdateRetire
      <3>1. UNCHANGED msgVars
        BY <2>3 DEF UpdateAbsent, Register, UpdateLock, UpdateFailed,
           UpdateReturn, UpdatePrepared, UpdatePublish, UpdateStarted,
           TransferTake, TransferPut, UpdateRetire, reqVars, msgVars,
           poolVars, dirVars, updVars, admVars
      <3> QED
        BY <1>1, <3>1
    <2> QED
      BY <1>4, <2>1, <2>2, <2>3 DEF Update
  <1>5. ASSUME NEW g \in Gens, Sweep(g) PROVE MsgTypes'
    <2>1. CASE SweepOne(g)
      BY <2>1, RefuseHeadType DEF SweepOne, MsgTypes, TypeInv, TypeOK, Replies
    <2>2. CASE SweepBegin(g) \/ SweepEnd(g)
      <3>1. UNCHANGED msgVars
        BY <2>2 DEF SweepBegin, SweepEnd, reqVars, msgVars, poolVars, dirVars,
           updVars, admVars
      <3> QED
        BY <1>1, <3>1
    <2> QED
      BY <1>5, <2>1, <2>2 DEF Sweep
  <1>6. ASSUME Remove PROVE MsgTypes'
    <2>1. CASE RemoveSweepOne
      <3>1. current \in Gens
        BY <2>1 DEF RemoveSweepOne, Workers, Gens, TypeInv, LockInv, TypeOK,
           AdminTypes
      <3> QED
        BY <2>1, <3>1, RefuseHeadType DEF RemoveSweepOne, MsgTypes, TypeInv,
           TypeOK, Replies
    <2>2. CASE RemoveWorkersGone \/ RemoveSweepEnd \/ RemoveUnregister \/
       RemoveConfig
      <3>1. UNCHANGED msgVars
        BY <2>2 DEF RemoveWorkersGone, RemoveStep, RemoveSweepEnd,
           RemoveUnregister, RemoveConfig, reqVars, msgVars, poolVars,
           dirVars, updVars, admVars
      <3> QED
        BY <1>1, <3>1
    <2> QED
      BY <1>6, <2>1, <2>2 DEF Remove
  <1>7. ASSUME Shutdown PROVE MsgTypes'
    <2>1. CASE ShutdownSweepOne
      <3>1. current \in Gens
        BY <2>1 DEF ShutdownSweepOne, Workers, Gens, TypeInv, LockInv, TypeOK,
           AdminTypes
      <3> QED
        BY <2>1, <3>1, RefuseHeadType DEF ShutdownSweepOne, MsgTypes, TypeInv,
           TypeOK, Replies
    <2>2. CASE ShutdownSignal \/ ShutdownLoadWaitGroup \/ ShutdownWorkersGone
       \/ ShutdownCleanupsGone \/ ShutdownEnd
      <3>1. UNCHANGED msgVars
        BY <2>2 DEF ShutdownSignal, ShutdownStep, ShutdownLoadWaitGroup,
           ShutdownWorkersGone, ShutdownCleanupsGone, ShutdownEnd, reqVars,
           msgVars, poolVars, dirVars, updVars, admVars
      <3> QED
        BY <1>1, <3>1
    <2> QED
      BY <1>7, <2>1, <2>2 DEF Shutdown
  <1>8. ASSUME \/ \E r \in Requests : Cancel(r)
               \/ \E w \in Workers : StartWorker(w)
               \/ Instantiated
               \/ UpdateBegin
               \/ RemoveAbsent
               \/ RemoveLock
               \/ ShutdownBegin
               \/ UNCHANGED vars
         PROVE MsgTypes'
    <2>1. UNCHANGED msgVars
      BY <1>8 DEF Cancel, StartWorker, Instantiated, UpdateBegin, MayCreate,
         RemoveAbsent, RemoveLock, ShutdownBegin, ShutdownStep, vars, reqVars,
         msgVars, poolVars, dirVars, updVars, admVars
    <2> QED
      BY <1>1, <2>1
  <1> QED
    BY <1>2, <1>3, <1>4, <1>5, <1>6, <1>7, <1>8 DEF Next

(* The channels, their done signals and the cleanups of old ones.          *)
LEMMA QueueTypesStep == TypeInv /\ [Next]_vars => QueueTypes'
  <1> SUFFICES ASSUME TypeInv, [Next]_vars PROVE QueueTypes'
    OBVIOUS
  <1>1. CASE UNCHANGED <<queue, closing, sweep>>
    BY <1>1 DEF QueueTypes, TypeInv, TypeOK
  <1>2. ASSUME NEW r \in Requests, Client(r) PROVE QueueTypes'
    <2>1. CASE Enqueue(r)
      <3>1. queue' \in [Gens -> Seq(Requests)]
        BY <2>1, AppendType DEF Enqueue, QueueTypes, TypeInv, TypeOK
      <3> QED
        BY <2>1, <3>1 DEF Enqueue, QueueTypes, TypeInv, TypeOK
    <2>2. CASE Lookup(r) \/ CreateFound(r) \/ CreateUnconfigured(r) \/
       CreateRegister(r) \/ CreateFailed(r) \/ CreateDone(r) \/
       ShortCircuit(r) \/ Proceed(r) \/ Reroute(r) \/ RefusedClosing(r) \/
       SendSeesDone(r) \/ SendSeesCtx(r) \/ DropWhenFull(r) \/ KeepWhenFull(r)
       \/ Recheck(r) \/ TakeReply(r) \/ WaitSeesCtx(r)
      <3>1. UNCHANGED <<queue, closing, sweep>>
        BY <2>2 DEF Lookup, CreateFound, CreateUnconfigured, Return,
           CreateRegister, Register, MayCreate, CreateFailed, CreateDone,
           ShortCircuit, Proceed, Reroute, RefusedClosing, GiveUp,
           SendSeesDone, SendSeesCtx, DropWhenFull, KeepWhenFull, Advance,
           Recheck, TakeReply, WaitSeesCtx, reqVars, msgVars, poolVars,
           dirVars, updVars, admVars
      <3> QED
        BY <1>1, <3>1
    <2> QED
      BY <1>2, <2>1, <2>2 DEF Client
  <1>3. ASSUME NEW w \in Workers, Work(w) PROVE QueueTypes'
    <2>1. CASE TakeJob(w)
      <3>1. w[1] \in Gens
        BY DEF Workers
      <3>2. queue' \in [Gens -> Seq(Requests)]
        BY <2>1, <3>1, TailType DEF TakeJob, QueueTypes, TypeInv, TypeOK
      <3> QED
        BY <2>1, <3>2 DEF TakeJob, QueueTypes, TypeInv, TypeOK
    <2>2. CASE DrainOne(w)
      <3>1. w[1] \in Gens
        BY <2>2 DEF DrainOne, Workers, Gens, TypeInv, LockInv, TypeOK,
           AdminTypes
      <3> QED
        BY <2>2, <3>1, RefuseHeadType DEF DrainOne, updVars, admVars,
           QueueTypes, TypeInv, TypeOK, Replies
    <2>3. CASE SeeDone(w) \/ Exit(w) \/ KeyError(w) \/ Deliver(w) \/
       Abandon(w)
      <3>1. UNCHANGED <<queue, closing, sweep>>
        BY <2>3 DEF SeeDone, Exit, KeyError, JobDone, Deliver, Abandon,
           reqVars, msgVars, poolVars, dirVars, updVars, admVars
      <3> QED
        BY <1>1, <3>1
    <2> QED
      BY <1>3, <2>1, <2>2, <2>3 DEF Work
  <1>4. ASSUME Update PROVE QueueTypes'
    <2>1. CASE TransferTake
      <3>1. updOld \in Gens
        BY <2>1 DEF TransferTake, TypeInv, LockInv
      <3>2. queue' \in [Gens -> Seq(Requests)]
        BY <2>1, <3>1, TailType DEF TransferTake, QueueTypes, TypeInv, TypeOK
      <3> QED
        BY <2>1, <3>2 DEF TransferTake, QueueTypes, TypeInv, TypeOK
    <2>2. CASE TransferPut
      <3>1. hand \in Requests
        BY <2>2 DEF TransferPut, TypeInv, TypeOK, AdminTypes
      <3>2. queue' \in [Gens -> Seq(Requests)]
        BY <2>2, <3>1, AppendType DEF TransferPut, QueueTypes, TypeInv, TypeOK
      <3> QED
        BY <2>2, <3>2 DEF TransferPut, QueueTypes, TypeInv, TypeOK
    <2>3. CASE CancelRest
      <3>1. updOld \in Gens
        BY <2>3 DEF CancelRest, Workers, Gens, TypeInv, LockInv, TypeOK,
           AdminTypes
      <3> QED
        BY <2>3, <3>1, RefuseHeadType DEF CancelRest, updVars, admVars,
           QueueTypes, TypeInv, TypeOK, Replies
    <2>4. CASE UpdateRetire
      BY <2>4 DEF UpdateRetire, UpdateReturn, QueueTypes, TypeInv, TypeOK
    <2>5. CASE UpdateAbsent \/ UpdateLock \/ UpdateFailed \/ UpdatePrepared \/
       UpdatePublish \/ UpdateStarted \/ TransferFull
      <3>1. UNCHANGED <<queue, closing, sweep>>
        BY <2>5 DEF UpdateAbsent, Register, UpdateLock, UpdateFailed,
           UpdateReturn, UpdatePrepared, UpdatePublish, UpdateStarted,
           TransferFull, Refuse, reqVars, msgVars, poolVars, dirVars, updVars,
           admVars
      <3> QED
        BY <1>1, <3>1
    <2> QED
      BY <1>4, <2>1, <2>2, <2>3, <2>4, <2>5 DEF Update
  <1>5. ASSUME NEW g \in Gens, Sweep(g) PROVE QueueTypes'
    <2>1. CASE SweepBegin(g)
      BY <2>1 DEF SweepBegin, QueueTypes, TypeInv, TypeOK
    <2>2. CASE SweepOne(g)
      BY <2>2, RefuseHeadType DEF SweepOne, QueueTypes, TypeInv, TypeOK,
         Replies
    <2>3. CASE SweepEnd(g)
      BY <2>3 DEF SweepEnd, QueueTypes, TypeInv, TypeOK
    <2> QED
      BY <1>5, <2>1, <2>2, <2>3 DEF Sweep
  <1>6. ASSUME Remove PROVE QueueTypes'
    <2>1. CASE RemoveSweepOne
      <3>1. current \in Gens
        BY <2>1 DEF RemoveSweepOne, Workers, Gens, TypeInv, LockInv, TypeOK,
           AdminTypes
      <3> QED
        BY <2>1, <3>1, RefuseHeadType DEF RemoveSweepOne, updVars, admVars,
           QueueTypes, TypeInv, TypeOK, Replies
    <2>2. CASE RemoveWorkersGone \/ RemoveSweepEnd \/ RemoveUnregister \/
       RemoveConfig
      <3>1. UNCHANGED <<queue, closing, sweep>>
        BY <2>2 DEF RemoveWorkersGone, RemoveStep, RemoveSweepEnd,
           RemoveUnregister, RemoveConfig, reqVars, msgVars, poolVars,
           dirVars, updVars, admVars
      <3> QED
        BY <1>1, <3>1
    <2> QED
      BY <1>6, <2>1, <2>2 DEF Remove
  <1>7. ASSUME Shutdown PROVE QueueTypes'
    <2>1. CASE ShutdownSignal
      BY <2>1 DEF ShutdownSignal, ShutdownStep, QueueTypes, TypeInv, TypeOK
    <2>2. CASE ShutdownSweepOne
      <3>1. current \in Gens
        BY <2>2 DEF ShutdownSweepOne, Workers, Gens, TypeInv, LockInv, TypeOK,
           AdminTypes
      <3> QED
        BY <2>2, <3>1, RefuseHeadType DEF ShutdownSweepOne, updVars, admVars,
           QueueTypes, TypeInv, TypeOK, Replies
    <2>3. CASE ShutdownLoadWaitGroup \/ ShutdownWorkersGone \/
       ShutdownCleanupsGone \/ ShutdownEnd
      <3>1. UNCHANGED <<queue, closing, sweep>>
        BY <2>3 DEF ShutdownLoadWaitGroup, ShutdownStep, ShutdownWorkersGone,
           ShutdownCleanupsGone, ShutdownEnd, reqVars, msgVars, poolVars,
           dirVars, updVars, admVars
      <3> QED
        BY <1>1, <3>1
    <2> QED
      BY <1>7, <2>1, <2>2, <2>3 DEF Shutdown
  <1>8. ASSUME RemoveLock PROVE QueueTypes'
    BY <1>8 DEF RemoveLock, QueueTypes, TypeInv, TypeOK
  <1>9. ASSUME \/ \E r \in Requests : Cancel(r)
               \/ \E w \in Workers : StartWorker(w)
               \/ Instantiated
               \/ UpdateBegin
               \/ RemoveAbsent
               \/ ShutdownBegin
               \/ UNCHANGED vars
         PROVE QueueTypes'
    <2>1. UNCHANGED <<queue, closing, sweep>>
      BY <1>9 DEF Cancel, StartWorker, Instantiated, UpdateBegin, MayCreate,
         RemoveAbsent, ShutdownBegin, ShutdownStep, vars, reqVars, msgVars,
         poolVars, dirVars, updVars, admVars
    <2> QED
      BY <1>1, <2>1
  <1> QED
    BY <1>2, <1>3, <1>4, <1>5, <1>6, <1>7, <1>8, <1>9 DEF Next

(* The worker goroutines and what they carry.                              *)
LEMMA PoolTypesStep == TypeInv /\ [Next]_vars => PoolTypes'
  <1> SUFFICES ASSUME TypeInv, [Next]_vars PROVE PoolTypes'
    OBVIOUS
  <1>1. CASE UNCHANGED poolVars
    BY <1>1 DEF poolVars, PoolTypes, TypeInv, TypeOK
  <1>2. ASSUME NEW r \in Requests, Client(r) PROVE PoolTypes'
    <2>1. UNCHANGED poolVars
      BY <1>2 DEF Client, Lookup, CreateFound, CreateUnconfigured, Return,
         CreateRegister, Register, MayCreate, CreateFailed, CreateDone,
         ShortCircuit, Proceed, Reroute, RefusedClosing, GiveUp, Enqueue,
         SendSeesDone, SendSeesCtx, DropWhenFull, KeepWhenFull, Advance,
         Recheck, TakeReply, WaitSeesCtx, reqVars, msgVars, poolVars, dirVars,
         updVars, admVars
    <2> QED
      BY <1>1, <2>1
  <1>3. ASSUME NEW w \in Workers, Work(w) PROVE PoolTypes'
    <2>1. CASE TakeJob(w)
      <3>1. w[1] \in Gens
        BY DEF Workers
      <3>2. Head(queue[w[1]]) \in Requests
        BY <2>1, <3>1, TailType DEF TakeJob, QueueTypes, TypeInv, TypeOK
      <3> QED
        BY <2>1, <3>2 DEF TakeJob, PoolTypes, TypeInv, TypeOK
    <2>2. CASE SeeDone(w)
      BY <2>2 DEF SeeDone, PoolTypes, TypeInv, TypeOK
    <2>3. CASE Exit(w)
      BY <2>3 DEF Exit, PoolTypes, TypeInv, TypeOK
    <2>4. CASE KeyError(w)
      BY <2>4 DEF KeyError, JobDone, PoolTypes, TypeInv, TypeOK
    <2>5. CASE Deliver(w)
      BY <2>5 DEF Deliver, JobDone, PoolTypes, TypeInv, TypeOK
    <2>6. CASE Abandon(w)
      BY <2>6 DEF Abandon, JobDone, PoolTypes, TypeInv, TypeOK
    <2>7. CASE DrainOne(w)
      <3>1. UNCHANGED poolVars
        BY <2>7 DEF DrainOne, RefuseHead, Refuse, reqVars, msgVars, poolVars,
           dirVars, updVars, admVars
      <3> QED
        BY <1>1, <3>1
    <2> QED
      BY <1>3, <2>1, <2>2, <2>3, <2>4, <2>5, <2>6, <2>7 DEF Work
  <1>4. ASSUME Update PROVE PoolTypes'
    <2>1. UNCHANGED poolVars
      BY <1>4 DEF Update, UpdateAbsent, Register, UpdateLock, UpdateFailed,
         UpdateReturn, UpdatePrepared, UpdatePublish, UpdateStarted,
         TransferTake, TransferPut, TransferFull, Refuse, CancelRest,
         RefuseHead, UpdateRetire, reqVars, msgVars, poolVars, dirVars,
         updVars, admVars
    <2> QED
      BY <1>1, <2>1
  <1>5. ASSUME NEW g \in Gens, Sweep(g) PROVE PoolTypes'
    <2>1. UNCHANGED poolVars
      BY <1>5 DEF Sweep, SweepBegin, SweepOne, RefuseHead, Refuse, SweepEnd,
         reqVars, msgVars, poolVars, dirVars, updVars, admVars
    <2> QED
      BY <1>1, <2>1
  <1>6. ASSUME Remove PROVE PoolTypes'
    <2>1. UNCHANGED poolVars
      BY <1>6 DEF Remove, RemoveWorkersGone, RemoveStep, RemoveSweepOne,
         RefuseHead, Refuse, RemoveSweepEnd, RemoveUnregister, RemoveConfig,
         reqVars, msgVars, poolVars, dirVars, updVars, admVars
    <2> QED
      BY <1>1, <2>1
  <1>7. ASSUME Shutdown PROVE PoolTypes'
    <2>1. UNCHANGED poolVars
      BY <1>7 DEF Shutdown, ShutdownSignal, ShutdownStep,
         ShutdownLoadWaitGroup, ShutdownWorkersGone, ShutdownCleanupsGone,
         ShutdownSweepOne, RefuseHead, Refuse, ShutdownEnd, reqVars, msgVars,
         poolVars, dirVars, updVars, admVars
    <2> QED
      BY <1>1, <2>1
  <1>8. ASSUME NEW w \in Workers, StartWorker(w) PROVE PoolTypes'
    BY <1>8 DEF StartWorker, PoolTypes, TypeInv, TypeOK
  <1>9. ASSUME \/ \E r \in Requests : Cancel(r)
               \/ Instantiated
               \/ UpdateBegin
               \/ RemoveAbsent
               \/ RemoveLock
               \/ ShutdownBegin
               \/ UNCHANGED vars
         PROVE PoolTypes'
    <2>1. UNCHANGED poolVars
      BY <1>9 DEF Cancel, Instantiated, UpdateBegin, MayCreate, RemoveAbsent,
         RemoveLock, ShutdownBegin, ShutdownStep, vars, reqVars, msgVars,
         poolVars, dirVars, updVars, admVars
    <2> QED
      BY <1>1, <2>1
  <1> QED
    BY <1>2, <1>3, <1>4, <1>5, <1>6, <1>7, <1>8, <1>9 DEF Next

(* The directory entry, the locks and the administrative operations.       *)
LEMMA AdminTypesStep == TypeInv /\ [Next]_vars => (AdminTypes /\ LockInv)'
  <1> SUFFICES ASSUME TypeInv, [Next]_vars PROVE (AdminTypes /\ LockInv)'
    OBVIOUS
  <1>1. CASE UNCHANGED <<pc, dirVars, updVars, admVars>>
    BY <1>1 DEF AdminTypes, LockInv, TypeInv, TypeOK, dirVars, updVars,
       admVars
  <1>2. ASSUME NEW r \in Requests, Client(r) PROVE (AdminTypes /\ LockInv)'
    <2>1. CASE Lookup(r)
      BY <2>1, RequestAssumption, SizeAssumption DEF Lookup, AdminTypes,
         LockInv, TypeInv, TypeOK, reqVars, msgVars, poolVars, dirVars,
         updVars, admVars, Gens, Holders, ReqTypes
    <2>2. CASE CreateFound(r)
      BY <2>2, RequestAssumption, SizeAssumption DEF CreateFound, AdminTypes,
         LockInv, TypeInv, TypeOK, reqVars, msgVars, poolVars, dirVars,
         updVars, admVars, Gens, Holders, ReqTypes
    <2>3. CASE CreateUnconfigured(r)
      BY <2>3, RequestAssumption, SizeAssumption DEF CreateUnconfigured,
         Return, AdminTypes, LockInv, TypeInv, TypeOK, reqVars, msgVars,
         poolVars, dirVars, updVars, admVars, Gens, Holders, ReqTypes
    <2>4. CASE CreateRegister(r)
      BY <2>4, RequestAssumption, SizeAssumption DEF CreateRegister, Register,
         MayCreate, AdminTypes, LockInv, TypeInv, TypeOK, reqVars, msgVars,
         poolVars, dirVars, updVars, admVars, Gens, Holders, ReqTypes
    <2>5. CASE CreateFailed(r)
      BY <2>5, RequestAssumption, SizeAssumption DEF CreateFailed, Return,
         AdminTypes, LockInv, TypeInv, TypeOK, reqVars, msgVars, poolVars,
         dirVars, updVars, admVars, Gens, Holders, ReqTypes
    <2>6. CASE CreateDone(r)
      BY <2>6, RequestAssumption, SizeAssumption DEF CreateDone, AdminTypes,
         LockInv, TypeInv, TypeOK, reqVars, msgVars, poolVars, dirVars,
         updVars, admVars, Gens, Holders, ReqTypes
    <2>7. CASE ShortCircuit(r)
      BY <2>7, RequestAssumption, SizeAssumption DEF ShortCircuit, Return,
         AdminTypes, LockInv, TypeInv, TypeOK, reqVars, msgVars, poolVars,
         dirVars, updVars, admVars, Gens, Holders, ReqTypes
    <2>8. CASE Proceed(r)
      BY <2>8, RequestAssumption, SizeAssumption DEF Proceed, AdminTypes,
         LockInv, TypeInv, TypeOK, reqVars, msgVars, poolVars, dirVars,
         updVars, admVars, Gens, Holders, ReqTypes
    <2>9. CASE Reroute(r)
      BY <2>9, RequestAssumption, SizeAssumption DEF Reroute, AdminTypes,
         LockInv, TypeInv, TypeOK, reqVars, msgVars, poolVars, dirVars,
         updVars, admVars, Gens, Holders, ReqTypes
    <2>10. CASE RefusedClosing(r)
      BY <2>10, RequestAssumption, SizeAssumption DEF RefusedClosing, GiveUp,
         Return, AdminTypes, LockInv, TypeInv, TypeOK, reqVars, msgVars,
         poolVars, dirVars, updVars, admVars, Gens, Holders, ReqTypes
    <2>11. CASE Enqueue(r)
      BY <2>11, RequestAssumption, SizeAssumption DEF Enqueue, AdminTypes,
         LockInv, TypeInv, TypeOK, reqVars, msgVars, poolVars, dirVars,
         updVars, admVars, Gens, Holders, ReqTypes
    <2>12. CASE SendSeesDone(r)
      BY <2>12, RequestAssumption, SizeAssumption DEF SendSeesDone, GiveUp,
         Return, AdminTypes, LockInv, TypeInv, TypeOK, reqVars, msgVars,
         poolVars, dirVars, updVars, admVars, Gens, Holders, ReqTypes
    <2>13. CASE SendSeesCtx(r)
      BY <2>13, RequestAssumption, SizeAssumption DEF SendSeesCtx, GiveUp,
         Return, AdminTypes, LockInv, TypeInv, TypeOK, reqVars, msgVars,
         poolVars, dirVars, updVars, admVars, Gens, Holders, ReqTypes
    <2>14. CASE DropWhenFull(r)
      BY <2>14, RequestAssumption, SizeAssumption DEF DropWhenFull, GiveUp,
         Return, AdminTypes, LockInv, TypeInv, TypeOK, reqVars, msgVars,
         poolVars, dirVars, updVars, admVars, Gens, Holders, ReqTypes
    <2>15. CASE KeepWhenFull(r)
      BY <2>15, RequestAssumption, SizeAssumption DEF KeepWhenFull, Advance,
         AdminTypes, LockInv, TypeInv, TypeOK, reqVars, msgVars, poolVars,
         dirVars, updVars, admVars, Gens, Holders, ReqTypes
    <2>16. CASE Recheck(r)
      BY <2>16, RequestAssumption, SizeAssumption DEF Recheck, Advance,
         AdminTypes, LockInv, TypeInv, TypeOK, reqVars, msgVars, poolVars,
         dirVars, updVars, admVars, Gens, Holders, ReqTypes
    <2>17. CASE TakeReply(r)
      BY <2>17, RequestAssumption, SizeAssumption DEF TakeReply, Return,
         AdminTypes, LockInv, TypeInv, TypeOK, reqVars, msgVars, poolVars,
         dirVars, updVars, admVars, Gens, Holders, ReqTypes
    <2>18. CASE WaitSeesCtx(r)
      BY <2>18, RequestAssumption, SizeAssumption DEF WaitSeesCtx, Return,
         AdminTypes, LockInv, TypeInv, TypeOK, reqVars, msgVars, poolVars,
         dirVars, updVars, admVars, Gens, Holders, ReqTypes
    <2> QED
      BY <1>2, <2>1, <2>2, <2>3, <2>4, <2>5, <2>6, <2>7, <2>8, <2>9, <2>10,
         <2>11, <2>12, <2>13, <2>14, <2>15, <2>16, <2>17, <2>18 DEF Client
  <1>3. ASSUME NEW w \in Workers, Work(w) PROVE (AdminTypes /\ LockInv)'
    <2>1. UNCHANGED <<pc, dirVars, updVars, admVars>>
      BY <1>3 DEF Work, TakeJob, SeeDone, DrainOne, RefuseHead, Refuse, Exit,
         KeyError, JobDone, Deliver, Abandon, reqVars, msgVars, poolVars,
         dirVars, updVars, admVars
    <2> QED
      BY <1>1, <2>1
  <1>4. ASSUME Update PROVE (AdminTypes /\ LockInv)'
    <2>1. CASE UpdateAbsent
      BY <2>1, RequestAssumption, SizeAssumption DEF UpdateAbsent, Register,
         AdminTypes, LockInv, TypeInv, TypeOK, reqVars, msgVars, poolVars,
         dirVars, updVars, admVars, Gens, Holders
    <2>2. CASE UpdateLock
      BY <2>2, RequestAssumption, SizeAssumption DEF UpdateLock, AdminTypes,
         LockInv, TypeInv, TypeOK, reqVars, msgVars, poolVars, dirVars,
         updVars, admVars, Gens, Holders
    <2>3. CASE UpdateFailed
      BY <2>3, RequestAssumption, SizeAssumption DEF UpdateFailed,
         UpdateReturn, AdminTypes, LockInv, TypeInv, TypeOK, reqVars, msgVars,
         poolVars, dirVars, updVars, admVars, Gens, Holders
    <2>4. CASE UpdatePrepared
      BY <2>4, RequestAssumption, SizeAssumption DEF UpdatePrepared,
         UpdateReturn, AdminTypes, LockInv, TypeInv, TypeOK, reqVars, msgVars,
         poolVars, dirVars, updVars, admVars, Gens, Holders
    <2>5. CASE UpdatePublish
      BY <2>5, RequestAssumption, SizeAssumption DEF UpdatePublish,
         AdminTypes, LockInv, TypeInv, TypeOK, reqVars, msgVars, poolVars,
         dirVars, updVars, admVars, Gens, Holders
    <2>6. CASE UpdateStarted
      BY <2>6, RequestAssumption, SizeAssumption DEF UpdateStarted,
         AdminTypes, LockInv, TypeInv, TypeOK, reqVars, msgVars, poolVars,
         dirVars, updVars, admVars, Gens, Holders
    <2>7. CASE TransferTake
      <3>1. hand' \in Requests
        BY <2>7, TailType DEF TransferTake, QueueTypes, TypeInv, TypeOK,
           LockInv
      <3> QED
        BY <2>7, <3>1 DEF TransferTake, AdminTypes, LockInv, TypeInv, TypeOK,
           reqVars, msgVars, poolVars, dirVars, updVars, admVars, Gens,
           Holders
    <2>8. CASE TransferPut
      BY <2>8, RequestAssumption, SizeAssumption DEF TransferPut, AdminTypes,
         LockInv, TypeInv, TypeOK, reqVars, msgVars, poolVars, dirVars,
         updVars, admVars, Gens, Holders
    <2>9. CASE TransferFull
      BY <2>9, RequestAssumption, SizeAssumption DEF TransferFull, Refuse,
         AdminTypes, LockInv, TypeInv, TypeOK, reqVars, msgVars, poolVars,
         dirVars, updVars, admVars, Gens, Holders
    <2>10. CASE UpdateRetire
      BY <2>10, RequestAssumption, SizeAssumption DEF UpdateRetire,
         UpdateReturn, AdminTypes, LockInv, TypeInv, TypeOK, reqVars, msgVars,
         poolVars, dirVars, updVars, admVars, Gens, Holders
    <2>11. CASE CancelRest
      <3>1. UNCHANGED <<pc, dirVars, updVars, admVars>>
        BY <2>11 DEF CancelRest, RefuseHead, Refuse, reqVars, msgVars,
           poolVars, dirVars, updVars, admVars
      <3> QED
        BY <1>1, <3>1
    <2> QED
      BY <1>4, <2>1, <2>2, <2>3, <2>4, <2>5, <2>6, <2>7, <2>8, <2>9, <2>10,
         <2>11 DEF Update
  <1>5. ASSUME NEW g \in Gens, Sweep(g) PROVE (AdminTypes /\ LockInv)'
    <2>1. UNCHANGED <<pc, dirVars, updVars, admVars>>
      BY <1>5 DEF Sweep, SweepBegin, SweepOne, RefuseHead, Refuse, SweepEnd,
         reqVars, msgVars, poolVars, dirVars, updVars, admVars
    <2> QED
      BY <1>1, <2>1
  <1>6. ASSUME Remove PROVE (AdminTypes /\ LockInv)'
    <2>1. CASE RemoveWorkersGone
      BY <2>1, RequestAssumption, SizeAssumption DEF RemoveWorkersGone,
         RemoveStep, AdminTypes, LockInv, TypeInv, TypeOK, reqVars, msgVars,
         poolVars, dirVars, updVars, admVars, Gens, Holders
    <2>2. CASE RemoveSweepEnd
      BY <2>2, RequestAssumption, SizeAssumption DEF RemoveSweepEnd,
         RemoveStep, AdminTypes, LockInv, TypeInv, TypeOK, reqVars, msgVars,
         poolVars, dirVars, updVars, admVars, Gens, Holders
    <2>3. CASE RemoveUnregister
      BY <2>3, RequestAssumption, SizeAssumption DEF RemoveUnregister,
         RemoveStep, AdminTypes, LockInv, TypeInv, TypeOK, reqVars, msgVars,
         poolVars, dirVars, updVars, admVars, Gens, Holders
    <2>4. CASE RemoveConfig
      <3>1. /\ remPc' = "done" /\ configured' = FALSE
            /\ UNCHANGED <<pc, dirVars, updVars, shutPc, shutGen>>
        BY <2>4 DEF RemoveConfig, RemoveStep, reqVars, dirVars
      <3>2. AdminTypes'
        BY <3>1 DEF AdminTypes, TypeInv, TypeOK, dirVars, updVars
      <3>3. LockInv'
        BY <3>1 DEF LockInv, TypeInv, dirVars, updVars
      <3> QED
        BY <3>2, <3>3
    <2>5. CASE RemoveSweepOne
      <3>1. UNCHANGED <<pc, dirVars, updVars, admVars>>
        BY <2>5 DEF RemoveSweepOne, RefuseHead, Refuse, reqVars, msgVars,
           poolVars, dirVars, updVars, admVars
      <3> QED
        BY <1>1, <3>1
    <2> QED
      BY <1>6, <2>1, <2>2, <2>3, <2>4, <2>5 DEF Remove
  <1>7. ASSUME Shutdown PROVE (AdminTypes /\ LockInv)'
    <2>1. CASE ShutdownSignal
      BY <2>1, RequestAssumption, SizeAssumption DEF ShutdownSignal,
         ShutdownStep, AdminTypes, LockInv, TypeInv, TypeOK, reqVars, msgVars,
         poolVars, dirVars, updVars, admVars, Gens, Holders
    <2>2. CASE ShutdownLoadWaitGroup
      BY <2>2, RequestAssumption, SizeAssumption DEF ShutdownLoadWaitGroup,
         ShutdownStep, AdminTypes, LockInv, TypeInv, TypeOK, reqVars, msgVars,
         poolVars, dirVars, updVars, admVars, Gens, Holders
    <2>3. CASE ShutdownWorkersGone
      BY <2>3, RequestAssumption, SizeAssumption DEF ShutdownWorkersGone,
         ShutdownStep, AdminTypes, LockInv, TypeInv, TypeOK, reqVars, msgVars,
         poolVars, dirVars, updVars, admVars, Gens, Holders
    <2>4. CASE ShutdownCleanupsGone
      BY <2>4, RequestAssumption, SizeAssumption DEF ShutdownCleanupsGone,
         ShutdownStep, AdminTypes, LockInv, TypeInv, TypeOK, reqVars, msgVars,
         poolVars, dirVars, updVars, admVars, Gens, Holders
    <2>5. CASE ShutdownEnd
      BY <2>5, RequestAssumption, SizeAssumption DEF ShutdownEnd,
         ShutdownStep, AdminTypes, LockInv, TypeInv, TypeOK, reqVars, msgVars,
         poolVars, dirVars, updVars, admVars, Gens, Holders
    <2>6. CASE ShutdownSweepOne
      <3>1. UNCHANGED <<pc, dirVars, updVars, admVars>>
        BY <2>6 DEF ShutdownSweepOne, RefuseHead, Refuse, reqVars, msgVars,
           poolVars, dirVars, updVars, admVars
      <3> QED
        BY <1>1, <3>1
    <2> QED
      BY <1>7, <2>1, <2>2, <2>3, <2>4, <2>5, <2>6 DEF Shutdown
  <1>8. ASSUME Instantiated PROVE (AdminTypes /\ LockInv)'
    BY <1>8, RequestAssumption, SizeAssumption DEF Instantiated, AdminTypes,
       LockInv, TypeInv, TypeOK, reqVars, msgVars, poolVars, dirVars, updVars,
       admVars, Gens, Holders
  <1>9. ASSUME UpdateBegin PROVE (AdminTypes /\ LockInv)'
    BY <1>9, RequestAssumption, SizeAssumption DEF UpdateBegin, MayCreate,
       AdminTypes, LockInv, TypeInv, TypeOK, reqVars, msgVars, poolVars,
       dirVars, updVars, admVars, Gens, Holders
  <1>10. ASSUME RemoveAbsent PROVE (AdminTypes /\ LockInv)'
    BY <1>10, RequestAssumption, SizeAssumption DEF RemoveAbsent, AdminTypes,
       LockInv, TypeInv, TypeOK, reqVars, msgVars, poolVars, dirVars, updVars,
       admVars, Gens, Holders
  <1>11. ASSUME RemoveLock PROVE (AdminTypes /\ LockInv)'
    BY <1>11, RequestAssumption, SizeAssumption DEF RemoveLock, AdminTypes,
       LockInv, TypeInv, TypeOK, reqVars, msgVars, poolVars, dirVars, updVars,
       admVars, Gens, Holders
  <1>12. ASSUME ShutdownBegin PROVE (AdminTypes /\ LockInv)'
    BY <1>12, RequestAssumption, SizeAssumption DEF ShutdownBegin,
       ShutdownStep, AdminTypes, LockInv, TypeInv, TypeOK, reqVars, msgVars,
       poolVars, dirVars, updVars, admVars, Gens, Holders
  <1>13. ASSUME \/ \E r \in Requests : Cancel(r)
                \/ \E w \in Workers : StartWorker(w)
                \/ UNCHANGED vars
         PROVE (AdminTypes /\ LockInv)'
    <2>1. UNCHANGED <<pc, dirVars, updVars, admVars>>
      BY <1>13 DEF Cancel, StartWorker, vars, reqVars, msgVars, poolVars,
         dirVars, updVars, admVars
    <2> QED
      BY <1>1, <2>1
  <1> QED
    BY <1>2, <1>3, <1>4, <1>5, <1>6, <1>7, <1>8, <1>9, <1>10, <1>11, <1>12,
       <1>13 DEF Next

LEMMA TypeStep == TypeInv /\ [Next]_vars => TypeInv'
  BY ReqTypesStep, MsgTypesStep, QueueTypesStep, PoolTypesStep, AdminTypesStep
     DEF TypeInv, TypeOK

(* TypeOK for every size of the system: every queue, program counter and   *)
(* lock of the queue layer keeps its type, and the generations an update   *)
(* works on exist.                                                         *)
THEOREM TypeCorrect == Spec => []TypeOK
  <1>1. Init => TypeInv
    BY TypeInit
  <1>2. TypeInv /\ [Next]_vars => TypeInv'
    BY TypeStep
  <1>3. TypeInv => TypeOK
    BY DEF TypeInv
  <1> QED
    BY <1>1, <1>2, <1>3, PTL DEF Spec

-----------------------------------------------------------------------------
(* Generations.  A generation's workers are told to stop when, and only     *)
(* when, it is retired; they run in the current generation, in retired ones *)
(* whose cleanup goroutine still waits, and in the one an update replaces.  *)

Untouched(g) ==
    ~closing[g] /\ sweep[g] = "none" /\ \A s \in Slots : worker[<<g, s>>] = "unborn"

Replacing == updPc \in {"start", "transfer", "cancel"}

(* The numbering of the generations: what has not been created is untouched,*)
(* and who replaces or builds a generation knows which one it replaces.     *)
Numbered ==
    /\ current <= last
    /\ \A g \in Gens : g > last => Untouched(g)
    /\ mutex \in {"free", "remove"} => build = "idle"
    /\ updPc = "replace" => updOld = current
    /\ Replacing => updOld # current /\ updOld <= last

(* What has been told to stop, and what has been waited for.                *)
Told ==
    /\ \A g \in Gens : sweep[g] # "none" => g # current /\ g <= last /\ closing[g]
    /\ \A w \in Workers : worker[w] \in {"draining", "exited"} => closing[w[1]]
    /\ shutPc = "idle" /\ current # 0 /\ remPc \notin {"wait", "sweep", "retired"}
          => ~closing[current]
Awaited ==
    /\ \A g \in Gens : sweep[g] \in {"sweeping", "done"} => Quiet(g)
    /\ remPc \in {"sweep", "retired"} => Quiet(current)
    /\ \A w \in Workers : Alive(w) =>
          w[1] = current \/ w[1] \in Retired \/ (Replacing /\ w[1] = updOld)

GenInv == TypeInv /\ Numbered /\ Told /\ Awaited

-----------------------------------------------------------------------------
(* Steps that create, retire and signal no generation and start no worker.  *)
LEMMA GenKept ==
  ASSUME GenInv, UNCHANGED <<closing, current, last, mutex, sweep, updOld>>,
         build' = build \/ mutex \notin {"free", "remove"},
         updPc' = "replace" => updPc = "replace",
         Replacing' <=> Replacing,
         remPc' \in {"wait", "sweep", "retired"} <=> remPc \in {"wait", "sweep", "retired"},
         remPc' \in {"sweep", "retired"} => Quiet(current),
         shutPc' = "idle" => shutPc = "idle",
         \A w \in Workers : /\ Alive(w)' => Alive(w)
                            /\ worker'[w] \in {"draining", "exited"} => closing[w[1]]
                            /\ worker[w] = "unborn" => worker'[w] = "unborn"
  PROVE  Numbered' /\ Told' /\ Awaited'
<1>1. \A g \in Gens : Quiet(g) => Quiet(g)'
  BY DEF Quiet, Workers
<1>2. Retired' = Retired
  BY DEF Retired
<1>3. \A g \in Gens : Untouched(g) => Untouched(g)'
  BY DEF Untouched, Workers
<1>4. Numbered'
  BY <1>3 DEF GenInv, Numbered
<1>5. Told'
  BY DEF GenInv, Told
<1>6. Awaited'
  <2>1. ASSUME remPc' \in {"sweep", "retired"} PROVE Quiet(current)'
    <3>1. current \in Gens /\ current' = current
      BY <2>1 DEF GenInv, TypeInv, LockInv, TypeOK, AdminTypes, Gens
    <3> QED
      BY <1>1, <2>1, <3>1 DEF Quiet
  <2> QED
    BY <1>1, <1>2, <2>1 DEF GenInv, Awaited
<1> QED
  BY <1>4, <1>5, <1>6

(* Most steps of the clients, the transfers and the sweeps.                 *)
LEMMA GenStill ==
  ASSUME GenInv, UNCHANGED <<closing, worker, current, last, mutex, build, updPc, updOld,
                             sweep, remPc, shutPc>>
  PROVE  Numbered' /\ Told' /\ Awaited'
<1>1. /\ Replacing' <=> Replacing
      /\ \A w \in Workers : /\ Alive(w)' => Alive(w)
                            /\ worker'[w] \in {"draining", "exited"} => closing[w[1]]
                            /\ worker[w] = "unborn" => worker'[w] = "unborn"
  BY DEF Replacing, Alive, GenInv, Told
<1>2. remPc \in {"sweep", "retired"} => Quiet(current)
  BY DEF GenInv, Awaited
<1> QED
  BY <1>1, <1>2, GenKept

(* An administrative operation goes on, and the workers and generations are *)
(* as before.                                                               *)
LEMMA GenAdvance ==
  ASSUME GenInv,
         \/ UpdateBegin \/ TransferFull \/ Instantiated \/ UpdateStarted
         \/ ShutdownBegin \/ ShutdownLoadWaitGroup \/ ShutdownWorkersGone
         \/ ShutdownCleanupsGone \/ ShutdownEnd
         \/ RemoveAbsent \/ RemoveWorkersGone \/ RemoveSweepEnd \/ RemoveConfig
  PROVE  Numbered' /\ Told' /\ Awaited'
<1> USE DEF dirVars, updVars, admVars, poolVars
<1>1. /\ UNCHANGED <<closing, current, last, mutex, sweep, updOld, worker>>
      /\ build' = build \/ mutex \notin {"free", "remove"}
      /\ updPc' = "replace" => updPc = "replace"
      /\ Replacing' <=> Replacing
  BY DEF UpdateBegin, TransferFull, Instantiated, UpdateStarted, ShutdownBegin,
     ShutdownLoadWaitGroup, ShutdownWorkersGone, ShutdownCleanupsGone, ShutdownEnd,
     ShutdownStep, RemoveAbsent, RemoveWorkersGone, RemoveSweepEnd, RemoveConfig,
     RemoveStep, Replacing, GenInv, TypeInv, LockInv, Numbered
<1>2. /\ remPc' \in {"wait", "sweep", "retired"} <=> remPc \in {"wait", "sweep", "retired"}
      /\ remPc' \in {"sweep", "retired"} => Quiet(current)
      /\ shutPc' = "idle" => shutPc = "idle"
  BY DEF UpdateBegin, TransferFull, Instantiated, UpdateStarted, ShutdownBegin,
     ShutdownLoadWaitGroup, ShutdownWorkersGone, ShutdownCleanupsGone, ShutdownEnd,
     ShutdownStep, RemoveAbsent, RemoveWorkersGone, RemoveSweepEnd, RemoveConfig,
     RemoveStep, GenInv, Awaited
<1>3. \A w \in Workers : /\ Alive(w)' => Alive(w)
                         /\ worker'[w] \in {"draining", "exited"} => closing[w[1]]
                         /\ worker[w] = "unborn" => worker'[w] = "unborn"
  BY <1>1 DEF Alive, GenInv, Told
<1> QED
  BY <1>1, <1>2, <1>3, GenKept

(* A worker goes on; it drains only when it has been told to.               *)
LEMMA GenWork ==
  ASSUME GenInv, NEW w \in Workers, Work(w)
  PROVE  Numbered' /\ Told' /\ Awaited'
<1> USE DEF dirVars, updVars, admVars, poolVars
<1>1. CASE DrainOne(w)
  BY <1>1, GenStill DEF DrainOne
<1>2. CASE ~DrainOne(w)
  <2>1. /\ UNCHANGED <<closing, current, last, mutex, sweep, build, updPc, updOld,
                       remPc, shutPc>>
        /\ \E s \in {"idle", "busy", "draining", "exited"} :
              /\ worker' = [worker EXCEPT ![w] = s] /\ Alive(w)
              /\ s \in {"draining", "exited"} => closing[w[1]]
    BY <1>2 DEF Work, TakeJob, SeeDone, Exit, KeyError, Deliver, Abandon, JobDone, Alive,
       GenInv, Told
  <2>2. \A v \in Workers : /\ Alive(v)' => Alive(v)
                           /\ worker'[v] \in {"draining", "exited"} => closing[v[1]]
                           /\ worker[v] = "unborn" => worker'[v] = "unborn"
    BY <2>1 DEF Alive, GenInv, Told, TypeInv, TypeOK, PoolTypes
  <2>3. /\ Replacing' <=> Replacing
        /\ remPc \in {"sweep", "retired"} => Quiet(current)
    BY <2>1 DEF Replacing, GenInv, Awaited
  <2> QED
    BY <2>1, <2>2, <2>3, GenKept
<1> QED
  BY <1>1, <1>2

(* Workers are started in the current generation only, by who holds the     *)
(* provider's lock.                                                         *)
LEMMA GenStart ==
  ASSUME GenInv, NEW w \in Workers, StartWorker(w)
  PROVE  Numbered' /\ Told' /\ Awaited'
<1>1. /\ UNCHANGED <<closing, current, last, mutex, sweep, build, updPc, updOld, remPc, shutPc>>
      /\ build = "start" /\ w[1] = current /\ worker[w] = "unborn"
      /\ worker' = [worker EXCEPT ![w] = "idle"]
  BY DEF StartWorker, dirVars, updVars, admVars
<1>2. /\ remPc \notin {"sweep", "retired"} /\ current \in Gens /\ last \in Nat
      /\ sweep[current] = "none"
  BY <1>1 DEF GenInv, Numbered, Told, TypeInv, TypeOK, AdminTypes, LockInv, Workers
<1>3. \A v \in Workers : worker'[v] = IF v = w THEN "idle" ELSE worker[v]
  BY <1>1 DEF GenInv, TypeInv, TypeOK, PoolTypes
<1>4. Numbered'
  <2>1. \A g \in Gens : g > last => g # current
    BY <1>2 DEF GenInv, Numbered, Gens
  <2>2. \A g \in Gens : g # current /\ Untouched(g) => Untouched(g)'
    BY <1>1, <1>3 DEF Untouched, Workers
  <2> QED
    BY <1>1, <2>1, <2>2 DEF GenInv, Numbered, Replacing
<1>5. Told'
  BY <1>1, <1>3 DEF GenInv, Told
<1>6. Awaited'
  <2>1. \A g \in Gens : g # current /\ Quiet(g) => Quiet(g)'
    BY <1>1, <1>3 DEF Quiet, Alive, Workers
  <2>2. \A v \in Workers : Alive(v)' => Alive(v) \/ v[1] = current
    BY <1>1, <1>3 DEF Alive
  <2> QED
    BY <1>1, <1>2, <2>1, <2>2 DEF GenInv, Awaited, Retired, Replacing
<1> QED
  BY <1>4, <1>5, <1>6

(* A provider that has none gets a new generation.                          *)
LEMMA GenRegister ==
  ASSUME GenInv, UpdateAbsent \/ \E r \in Requests : CreateRegister(r)
  PROVE  Numbered' /\ Told' /\ Awaited'
<1>1. /\ UNCHANGED <<closing, sweep, updOld, worker, remPc, shutPc>>
      /\ current = 0 /\ last' = last + 1 /\ current' = last + 1
      /\ mutex = "free" /\ mutex' \in Requests \cup {"update"} /\ last < MaxGen
      /\ updPc' \in {updPc, "prepare"} /\ (updPc' = updPc \/ updPc = "begun")
  BY SizeAssumption DEF UpdateAbsent, CreateRegister, Register, MayCreate, updVars,
     admVars, poolVars, GenInv, TypeInv, TypeOK, AdminTypes, LockInv
<1>2. /\ last \in Nat /\ last + 1 \in Gens /\ ~Replacing /\ ~Replacing'
      /\ mutex' \notin {"free", "remove"} /\ updPc' # "replace"
      /\ remPc \notin {"wait", "sweep", "retired"}
  BY <1>1, SizeAssumption, RequestAssumption DEF GenInv, TypeInv, TypeOK, AdminTypes,
     LockInv, Replacing, Gens
<1>3. Untouched(last + 1) /\ \A g \in Gens : Untouched(g)' <=> Untouched(g)
  BY <1>1, <1>2 DEF GenInv, Numbered, Untouched
<1>4. Numbered'
  BY <1>1, <1>2, <1>3 DEF GenInv, Numbered, Gens
<1>5. Told'
  BY <1>1, <1>2, <1>3 DEF GenInv, Told, Untouched, Gens
<1>6. Awaited'
  <2>1. /\ \A g \in Gens : Quiet(g)' <=> Quiet(g)
        /\ \A w \in Workers : (Alive(w)' <=> Alive(w)) /\ w[1] \in Gens
        /\ Retired' = Retired /\ 0 \notin Gens
    BY <1>1 DEF Quiet, Alive, Workers, Retired, Gens
  <2> QED
    BY <1>1, <1>2, <2>1 DEF GenInv, Awaited
<1> QED
  BY <1>4, <1>5, <1>6

(* The lock is released: the workers have been started or there are none.   *)
LEMMA GenRelease ==
  ASSUME GenInv, \/ UpdateFailed \/ UpdatePrepared
                 \/ \E r \in Requests : CreateFailed(r) \/ CreateDone(r)
  PROVE  Numbered' /\ Told' /\ Awaited'
<1>1. /\ UNCHANGED <<closing, current, last, sweep, worker, remPc, shutPc>>
      /\ mutex' = "free" /\ build' = "idle"
      /\ mutex \in Requests \cup {"update"}
      /\ UNCHANGED <<updPc, updOld>> \/ updPc' = "idle"
  BY DEF UpdateFailed, UpdatePrepared, UpdateReturn, CreateFailed, CreateDone, updVars,
     admVars, poolVars, GenInv, TypeInv, LockInv
<1>2. ~Replacing /\ ~Replacing' /\ updPc' # "replace"
  BY <1>1, RequestAssumption DEF UpdateFailed, UpdatePrepared, UpdateReturn, CreateFailed,
     CreateDone, updVars, admVars, GenInv, TypeInv, LockInv, Replacing
<1>3. Numbered'
  BY <1>1, <1>2 DEF GenInv, Numbered, Untouched
<1>4. Told'
  BY <1>1 DEF GenInv, Told
<1>5. Awaited'
  BY <1>1, <1>2 DEF GenInv, Awaited, Quiet, Alive, Retired
<1> QED
  BY <1>3, <1>4, <1>5

(* UpdateProvider publishes the new generation; the old one, still untold,  *)
(* is not the current one any more...                                       *)
LEMMA GenPublish == ASSUME GenInv, UpdatePublish PROVE Numbered' /\ Told' /\ Awaited'
<1>1. /\ UNCHANGED <<closing, mutex, sweep, updOld, worker, remPc, shutPc>>
      /\ updPc = "replace" /\ updPc' = "start" /\ updOld = current /\ updOld \in Gens
      /\ last' = last + 1 /\ current' = last + 1 /\ mutex = "update" /\ last < MaxGen
  BY DEF UpdatePublish, admVars, poolVars, GenInv, TypeInv, LockInv, Numbered
<1>2. /\ last \in Nat /\ last + 1 \in Gens /\ current <= last /\ current \in Nat
      /\ remPc \notin {"wait", "sweep", "retired"} /\ Replacing' /\ ~Replacing
  BY <1>1, SizeAssumption DEF GenInv, Numbered, TypeInv, TypeOK, AdminTypes, LockInv,
     Replacing, Gens
<1>3. Untouched(last + 1) /\ \A g \in Gens : Untouched(g)' <=> Untouched(g)
  BY <1>1, <1>2 DEF GenInv, Numbered, Untouched
<1>4. Numbered'
  BY <1>1, <1>2, <1>3 DEF GenInv, Numbered, Gens
<1>5. Told'
  BY <1>1, <1>2, <1>3 DEF GenInv, Told, Untouched, Gens
<1>6. Awaited'
  <2>1. /\ \A g \in Gens : Quiet(g)' <=> Quiet(g)
        /\ \A w \in Workers : Alive(w)' <=> Alive(w)
        /\ Retired' = Retired
    BY <1>1 DEF Quiet, Alive, Workers, Retired
  <2> QED
    BY <1>1, <1>2, <2>1 DEF GenInv, Awaited
<1> QED
  BY <1>4, <1>5, <1>6

(* ...and at last tells the old one and leaves its cleanup goroutine.       *)
LEMMA GenRetire == ASSUME GenInv, UpdateRetire PROVE Numbered' /\ Told' /\ Awaited'
<1> DEFINE old == updOld
<1>1. /\ UNCHANGED <<worker, current, last, remPc, shutPc>> /\ Replacing
      /\ closing' = [closing EXCEPT ![old] = TRUE]
      /\ sweep' = [sweep EXCEPT ![old] = "waiting"]
      /\ mutex' = "free" /\ build' = "idle" /\ updPc' = "idle"
  BY DEF UpdateRetire, UpdateReturn, admVars, poolVars, Replacing
<1>2. /\ old \in Gens /\ old # current /\ old <= last /\ ~Replacing'
      /\ last \in Nat /\ updPc' # "replace"
  BY <1>1 DEF GenInv, Numbered, TypeInv, TypeOK, AdminTypes, LockInv, Replacing
<1>3. \A g \in Gens : /\ closing'[g] <=> closing[g] \/ g = old
                      /\ sweep'[g] = IF g = old THEN "waiting" ELSE sweep[g]
  BY <1>1 DEF GenInv, TypeInv, TypeOK, QueueTypes
<1> HIDE DEF old
<1>4. Numbered'
  <2>1. \A g \in Gens : g > last => g # old
    BY <1>2 DEF Gens
  <2>2. \A g \in Gens : g # old /\ Untouched(g) => Untouched(g)'
    BY <1>1, <1>3 DEF Untouched
  <2> QED
    BY <1>1, <1>2, <2>1, <2>2 DEF GenInv, Numbered
<1>5. Told'
  <2>1. \A g \in Gens : closing[g] => closing'[g]
    BY <1>3
  <2>2. \A w \in Workers : worker[w] \in {"draining", "exited"} => closing'[w[1]]
    BY <2>1 DEF GenInv, Told, Workers
  <2>3. \A g \in Gens : sweep'[g] # "none" => g # current /\ g <= last /\ closing'[g]
    BY <1>2, <1>3 DEF GenInv, Told
  <2>4. shutPc = "idle" /\ current # 0 /\ remPc \notin {"wait", "sweep", "retired"}
          => ~closing'[current]
    <3>1. current # 0 => current \in Gens
      BY DEF GenInv, TypeInv, TypeOK, AdminTypes, Gens
    <3> QED
      BY <1>2, <1>3, <3>1 DEF GenInv, Told
  <2>5. /\ \A g \in Gens : sweep'[g] # "none" => g # current' /\ g <= last' /\ closing'[g]
        /\ \A w \in Workers : worker'[w] \in {"draining", "exited"} => closing'[w[1]]
    BY <1>1, <2>2, <2>3
  <2>6. shutPc' = "idle" /\ current' # 0 /\ remPc' \notin {"wait", "sweep", "retired"}
          => ~closing'[current']
    BY <1>1, <2>4
  <2> QED
    BY <2>5, <2>6, Zenon DEF Told
<1>6. Awaited'
  <2>1. /\ \A g \in Gens : (Quiet(g)' <=> Quiet(g)) /\ (Quiet(current)' <=> Quiet(current))
        /\ \A w \in Workers : (Alive(w)' <=> Alive(w)) /\ w[1] \in Gens
    BY <1>1 DEF Quiet, Alive, Workers
  <2>2. \A g \in Gens : g \in Retired' <=> g \in Retired \/ g = old
    BY <1>3 DEF Retired
  <2>3. \A g \in Gens : sweep'[g] \in {"sweeping", "done"} => sweep[g] \in {"sweeping", "done"}
    BY <1>3
  <2>4. \A w \in Workers : Alive(w) => w[1] = current \/ w[1] \in Retired \/ w[1] = old
    BY DEF GenInv, Awaited, old
  <2>5. ASSUME NEW w \in Workers, Alive(w)' PROVE w[1] = current' \/ w[1] \in Retired'
    <3>1. Alive(w) /\ w[1] \in Gens
      BY <2>1, <2>5
    <3>2. w[1] = current \/ w[1] \in Retired \/ w[1] = old
      BY <2>4, <3>1
    <3>3. w[1] \in Retired \/ w[1] = old => w[1] \in Retired'
      BY <2>2, <3>1
    <3> QED
      BY <1>1, <3>2, <3>3
  <2>6. \A g \in Gens : sweep'[g] \in {"sweeping", "done"} => Quiet(g)'
    BY <2>1, <2>3 DEF GenInv, Awaited
  <2>7. remPc' \in {"sweep", "retired"} => Quiet(current)'
    BY <1>1, <1>2, <2>1 DEF GenInv, Awaited
  <2> QED
    BY <2>5, <2>6, <2>7 DEF Awaited
<1> QED
  BY <1>4, <1>5, <1>6

LEMMA GenLock == ASSUME GenInv, UpdateLock PROVE Numbered' /\ Told' /\ Awaited'
<1>1. /\ UNCHANGED <<closing, worker, current, last, sweep, build, remPc, shutPc>>
      /\ updPc = "begun" /\ updPc' = "replace" /\ updOld' = current /\ mutex' = "update"
  BY DEF UpdateLock, admVars, poolVars
<1>2. ~Replacing /\ ~Replacing'
  BY <1>1 DEF Replacing
<1>3. Numbered'
  BY <1>1, <1>2 DEF GenInv, Numbered, Untouched
<1>4. Told'
  BY <1>1 DEF GenInv, Told
<1>5. Awaited'
  BY <1>1, <1>2 DEF GenInv, Awaited, Quiet, Alive, Retired
<1> QED
  BY <1>3, <1>4, <1>5

(* A cleanup goroutine has waited for the old workers, or ends.             *)
LEMMA GenSweep ==
  ASSUME GenInv, NEW g \in Gens, SweepBegin(g) \/ SweepEnd(g)
  PROVE  Numbered' /\ Told' /\ Awaited'
<1>1. /\ UNCHANGED <<closing, worker, current, last, mutex, build, updPc, updOld, remPc, shutPc>>
      /\ sweep[g] \in {"waiting", "sweeping"} /\ Quiet(g)
      /\ \E s \in {"sweeping", "done"} : sweep' = [sweep EXCEPT ![g] = s]
  BY DEF SweepBegin, SweepEnd, dirVars, updVars, admVars, poolVars, GenInv, Awaited
<1>2. /\ sweep'[g] \in {"sweeping", "done"}
      /\ \A h \in Gens : h # g => sweep'[h] = sweep[h]
  BY <1>1 DEF GenInv, TypeInv, TypeOK, QueueTypes
<1>3. Numbered'
  <2>1. \A h \in Gens : Untouched(h) => Untouched(h)'
    BY <1>1, <1>2 DEF Untouched
  <2> QED
    BY <1>1, <2>1 DEF GenInv, Numbered, Replacing
<1>4. Told'
  BY <1>1, <1>2 DEF GenInv, Told
<1>5. Awaited'
  <2>1. /\ \A h \in Gens : Quiet(h)' <=> Quiet(h)
        /\ \A w \in Workers : (Alive(w)' <=> Alive(w)) /\ w[1] \in Gens
        /\ Quiet(current)' <=> Quiet(current)
    BY <1>1 DEF Quiet, Alive, Workers
  <2>2. \A h \in Gens : h # g => (h \in Retired' <=> h \in Retired)
    BY <1>2 DEF Retired
  <2>3. \A w \in Workers : Alive(w) => w[1] # g
    <3>1. ASSUME NEW w \in Workers, w[1] = g PROVE ~Alive(w)
      <4>1. w = <<g, w[2]>> /\ w[2] \in Slots
        BY <3>1 DEF Workers
      <4> QED
        BY <1>1, <4>1 DEF Quiet
    <3> QED
      BY <3>1
  <2>4. Replacing' <=> Replacing
    BY <1>1 DEF Replacing
  <2>5. \A w \in Workers : Alive(w)' =>
           w[1] = current \/ w[1] \in Retired' \/ (Replacing' /\ w[1] = updOld)
    BY <2>1, <2>2, <2>3, <2>4 DEF GenInv, Awaited
  <2>6. \A h \in Gens : sweep'[h] \in {"sweeping", "done"} => Quiet(h)'
    BY <1>1, <1>2, <2>1 DEF GenInv, Awaited
  <2>7. remPc' \in {"sweep", "retired"} => Quiet(current)'
    BY <1>1, <2>1 DEF GenInv, Awaited
  <2> QED
    BY <1>1, <2>5, <2>6, <2>7 DEF Awaited
<1> QED
  BY <1>3, <1>4, <1>5

(* The removal tells the current workers...                                 *)
LEMMA GenRemove == ASSUME GenInv, RemoveLock PROVE Numbered' /\ Told' /\ Awaited'
<1>1. /\ UNCHANGED <<worker, current, last, sweep, build, updPc, updOld, shutPc>>
      /\ remPc' = "wait" /\ mutex = "free" /\ mutex' = "remove" /\ current # 0
      /\ closing' = [closing EXCEPT ![current] = TRUE]
  BY DEF RemoveLock, updVars, poolVars
<1>2. /\ current \in Gens /\ current <= last /\ last \in Nat
      /\ \A g \in Gens : closing'[g] = IF g = current THEN TRUE ELSE closing[g]
  BY <1>1 DEF GenInv, Numbered, TypeInv, TypeOK, AdminTypes, QueueTypes, Gens
<1>3. Numbered'
  <2>1. \A g \in Gens : g > last => g # current
    BY <1>2 DEF Gens
  <2>2. \A g \in Gens : g # current /\ Untouched(g) => Untouched(g)'
    BY <1>1, <1>2 DEF Untouched
  <2> QED
    BY <1>1, <2>1, <2>2 DEF GenInv, Numbered, Replacing
<1>4. Told'
  <2>1. \A w \in Workers : worker[w] \in {"draining", "exited"} => closing'[w[1]]
    BY <1>2 DEF GenInv, Told, Workers
  <2> QED
    BY <1>1, <1>2, <2>1 DEF GenInv, Told
<1>5. Awaited'
  BY <1>1 DEF GenInv, Awaited, Quiet, Alive, Retired, Replacing
<1> QED
  BY <1>3, <1>4, <1>5

(* ...and, when they have gone, takes the entry out.                        *)
LEMMA GenUnregister == ASSUME GenInv, RemoveUnregister PROVE Numbered' /\ Told' /\ Awaited'
<1>1. /\ UNCHANGED <<closing, worker, last, sweep, build, updPc, updOld, shutPc>>
      /\ remPc = "retired" /\ remPc' = "config" /\ current' = 0 /\ mutex' = "free"
      /\ mutex = "remove"
  BY DEF RemoveUnregister, RemoveStep, updVars, poolVars, GenInv, TypeInv, LockInv
<1>2. /\ last \in Nat /\ 0 \notin Gens /\ ~Replacing /\ ~Replacing' /\ updPc # "replace"
      /\ build = "idle" /\ current \in Gens /\ Quiet(current)
  BY <1>1 DEF GenInv, TypeInv, TypeOK, AdminTypes, LockInv, Numbered, Replacing, Gens,
     Awaited
<1>3. Numbered'
  BY <1>1, <1>2 DEF GenInv, Numbered, Untouched
<1>4. Told'
  BY <1>1, <1>2 DEF GenInv, Told
<1>5. Awaited'
  <2>1. \A w \in Workers : Alive(w) => w[1] # current
    <3>1. ASSUME NEW w \in Workers, w[1] = current PROVE ~Alive(w)
      <4>1. w = <<current, w[2]>> /\ w[2] \in Slots
        BY <3>1 DEF Workers
      <4> QED
        BY <1>2, <4>1 DEF Quiet
    <3> QED
      BY <3>1
  <2>2. /\ \A g \in Gens : Quiet(g)' <=> Quiet(g)
        /\ \A w \in Workers : Alive(w)' <=> Alive(w)
        /\ Retired' = Retired
    BY <1>1 DEF Quiet, Alive, Retired
  <2> QED
    BY <1>1, <1>2, <2>1, <2>2 DEF GenInv, Awaited
<1> QED
  BY <1>3, <1>4, <1>5

LEMMA GenSignal == ASSUME GenInv, ShutdownSignal PROVE Numbered' /\ Told' /\ Awaited'
<1>1. /\ UNCHANGED <<worker, current, last, mutex, sweep, build, updPc, updOld, remPc>>
      /\ shutPc' = "range"
      /\ closing' = [g \in Gens |-> closing[g] \/ g = current]
  BY DEF ShutdownSignal, ShutdownStep, dirVars, updVars, admVars, poolVars
<1>2. \A g \in Gens : closing'[g] <=> closing[g] \/ g = current
  BY <1>1
<1>3. Numbered'
  <2>1. \A g \in Gens : g > last => g # current
    BY DEF GenInv, Numbered, TypeInv, TypeOK, AdminTypes, Gens
  <2>2. \A g \in Gens : g # current /\ Untouched(g) => Untouched(g)'
    BY <1>1, <1>2 DEF Untouched
  <2> QED
    BY <1>1, <2>1, <2>2 DEF GenInv, Numbered, Replacing
<1>4. Told'
  <2>1. \A w \in Workers : worker[w] \in {"draining", "exited"} => closing'[w[1]]
    BY <1>2 DEF GenInv, Told, Workers
  <2> QED
    BY <1>1, <1>2, <2>1 DEF GenInv, Told
<1>5. Awaited'
  BY <1>1 DEF GenInv, Awaited, Quiet, Alive, Retired, Replacing
<1> QED
  BY <1>3, <1>4, <1>5

LEMMA GenInit == Init => GenInv
<1> SUFFICES ASSUME Init PROVE GenInv
  OBVIOUS
<1>1. TypeInv
  BY TypeInit
<1>2. PICK start \in StartStates :
        /\ worker = [w \in Workers |-> IF w[1] = 1 /\ start = "served" THEN "idle" ELSE "unborn"]
        /\ current = IF start = "absent" THEN 0 ELSE 1
        /\ last = IF start = "absent" THEN 0 ELSE 1
  BY DEF Init
<1>3. /\ closing = [g \in Gens |-> FALSE] /\ sweep = [g \in Gens |-> "none"]
      /\ mutex = "free" /\ build = "idle" /\ updPc = "idle" /\ remPc = "idle" /\ shutPc = "idle"
  BY DEF Init
<1>4. Numbered
  <2>1. ASSUME NEW g \in Gens, g > last PROVE Untouched(g)
    <3>1. start = "absent" \/ g # 1
      BY <1>2, <2>1 DEF Gens
    <3>2. \A s \in Slots : <<g, s>> \in Workers /\ worker[<<g, s>>] = "unborn"
      <4>1. ASSUME NEW s \in Slots PROVE <<g, s>> \in Workers /\ <<g, s>>[1] = g
        BY DEF Workers
      <4> QED
        BY <1>2, <3>1, <4>1
    <3> QED
      BY <1>3, <3>2 DEF Untouched
  <2> QED
    BY <1>2, <1>3, <2>1 DEF Numbered, Replacing
<1>5. Told
  BY <1>2, <1>3, SizeAssumption DEF Told, Gens
<1>6. Awaited
  BY <1>2, <1>3 DEF Awaited, Alive
<1> QED
  BY <1>1, <1>4, <1>5, <1>6 DEF GenInv

LEMMA GenNext == GenInv /\ [Next]_vars => GenInv'
<1> SUFFICES ASSUME GenInv, [Next]_vars PROVE GenInv'
  OBVIOUS
<1>1. TypeInv'
  BY TypeStep DEF GenInv
<1> SUFFICES Numbered' /\ Told' /\ Awaited'
  BY <1>1 DEF GenInv
<1> USE DEF dirVars, updVars, admVars, poolVars
<1>2. ASSUME NEW r \in Requests, Client(r) \/ Cancel(r) PROVE Numbered' /\ Told' /\ Awaited'
  <2>1. CASE CreateRegister(r) \/ CreateFailed(r) \/ CreateDone(r)
    BY <2>1, GenRegister, GenRelease
  <2>2. CASE ~(CreateRegister(r) \/ CreateFailed(r) \/ CreateDone(r))
    <3>1. UNCHANGED <<closing, worker, current, last, mutex, build, updPc, updOld, sweep,
                      remPc, shutPc>>
      BY <1>2, <2>2 DEF Client, Cancel, Lookup, CreateFound, CreateUnconfigured,
         ShortCircuit, Proceed, Reroute, RefusedClosing, Enqueue, SendSeesDone,
         SendSeesCtx, DropWhenFull, KeepWhenFull, Recheck, TakeReply, WaitSeesCtx, GiveUp,
         Advance
    <3> QED
      BY <3>1, GenStill
  <2> QED
    BY <2>1, <2>2
<1>3. ASSUME NEW w \in Workers, Work(w) \/ StartWorker(w) PROVE Numbered' /\ Told' /\ Awaited'
  BY <1>3, GenWork, GenStart
<1>4. ASSUME NEW g \in Gens, Sweep(g) PROVE Numbered' /\ Told' /\ Awaited'
  <2>1. CASE SweepOne(g)
    BY <2>1, GenStill DEF SweepOne
  <2> QED
    BY <1>4, <2>1, GenSweep DEF Sweep
<1>5. CASE TransferTake \/ TransferPut \/ CancelRest \/ RemoveSweepOne \/ ShutdownSweepOne
           \/ UNCHANGED vars
  BY <1>5, GenStill DEF TransferTake, TransferPut, CancelRest, RemoveSweepOne,
     ShutdownSweepOne, vars
<1>6. CASE Instantiated \/ UpdateBegin \/ Update
  BY <1>5, <1>6, GenAdvance, GenRegister, GenRelease, GenLock, GenPublish, GenRetire
     DEF Update
<1>7. CASE RemoveAbsent \/ RemoveLock \/ Remove
  BY <1>5, <1>7, GenAdvance, GenRemove, GenUnregister DEF Remove
<1>8. CASE ShutdownBegin \/ Shutdown
  BY <1>5, <1>8, GenAdvance, GenSignal DEF Shutdown
<1> QED
  BY <1>2, <1>3, <1>4, <1>5, <1>6, <1>7, <1>8 DEF Next

LEMMA Generations == Spec => []GenInv
  BY GenInit, GenNext, PTL DEF Spec

(* RemoveProvider returns only when no worker of any generation runs, those *)
(* retired by earlier updates included: its steps 3, 3b and 3c.             *)
THEOREM RemovalStopsAll == Spec => RemoveLeavesNoWorker
<1> DEFINE Ends == mutex = "remove" /\ mutex' # "remove" =>
         \A w \in Workers : ~Alive(w)' /\ (worker[w] = "exited" => closing[w[1]])
<1>1. GenInv /\ [Next]_vars => [Ends]_vars
  <2> SUFFICES ASSUME GenInv, Next, mutex = "remove", mutex' # "remove", NEW w \in Workers
               PROVE  ~Alive(w)' /\ (worker[w] = "exited" => closing[w[1]])
    BY DEF vars, dirVars
  <2>1. updPc \notin {"prepare", "replace", "start", "transfer", "cancel"}
        /\ \A r \in Requests : pc[r] # "prepare"
    BY RequestAssumption DEF GenInv, TypeInv, LockInv
  <2>2. ASSUME NEW r \in Requests, Client(r) \/ Cancel(r) PROVE mutex' = mutex
    BY <2>1, <2>2 DEF dirVars, Client, Cancel, Lookup, CreateFound, CreateUnconfigured,
       CreateRegister, CreateFailed, CreateDone, ShortCircuit, Proceed, Reroute,
       RefusedClosing, Enqueue, SendSeesDone, SendSeesCtx, DropWhenFull, KeepWhenFull,
       Recheck, TakeReply, WaitSeesCtx, GiveUp, Advance
  <2>3. ASSUME NEW v \in Workers, Work(v) \/ StartWorker(v) PROVE mutex' = mutex
    BY <2>3 DEF dirVars, Work, TakeJob, SeeDone, DrainOne, Exit, KeyError, Deliver, Abandon,
       JobDone, StartWorker
  <2>4. ASSUME Instantiated \/ UpdateBegin \/ Update PROVE mutex' = mutex
    BY <2>1, <2>4 DEF dirVars, Instantiated, UpdateBegin, Update, UpdateAbsent, UpdateLock,
       UpdateFailed, UpdatePrepared, UpdatePublish, UpdateStarted, TransferTake,
       TransferPut, TransferFull, CancelRest, UpdateRetire
  <2>5. ASSUME NEW g \in Gens, Sweep(g) PROVE mutex' = mutex
    BY <2>5 DEF dirVars, Sweep, SweepBegin, SweepOne, SweepEnd
  <2>6. ASSUME RemoveAbsent \/ RemoveLock \/ (Remove /\ ~RemoveUnregister)
        PROVE  mutex' = mutex
    BY <2>6 DEF dirVars, RemoveAbsent, RemoveLock, Remove, RemoveWorkersGone,
       RemoveSweepOne, RemoveSweepEnd, RemoveConfig
  <2>7. ASSUME ShutdownBegin \/ Shutdown PROVE mutex' = mutex
    BY <2>7 DEF dirVars, ShutdownBegin, Shutdown, ShutdownSignal, ShutdownLoadWaitGroup,
       ShutdownWorkersGone, ShutdownCleanupsGone, ShutdownSweepOne, ShutdownEnd,
       ShutdownStep
  <2>8. RemoveUnregister
    BY <2>2, <2>3, <2>4, <2>5, <2>6, <2>7 DEF Next
  <2>9. /\ remPc = "retired" /\ Retired = {} /\ UNCHANGED worker /\ ~Replacing
    BY <2>1, <2>8 DEF RemoveUnregister, RemoveStep, poolVars, Replacing
  <2>10. ~Alive(w)
    <3>1. Quiet(current) /\ w = <<w[1], w[2]>> /\ w[2] \in Slots
      BY <2>9 DEF GenInv, Awaited, Workers
    <3>2. w[1] # current => ~Alive(w)
      BY <2>9 DEF GenInv, Awaited
    <3> QED
      BY <3>1, <3>2 DEF Quiet
  <2> QED
    BY <2>9, <2>10 DEF Alive, GenInv, Told
<1> QED
  BY <1>1, Generations, PTL DEF Spec, RemoveLeavesNoWorker

-----------------------------------------------------------------------------
(* An unlocked generation, and the one an update fills, has all its workers.*)
Served ==
    current # 0 /\ (mutex = "free" \/ updPc \in {"transfer", "cancel"})
        => \A s \in Slots : worker[<<current, s>>] # "unborn"

LEMMA ServedKept ==
  ASSUME GenInv, Served, current' = current \/ current' = 0,
         mutex' = "free" \/ updPc' \in {"transfer", "cancel"}
            => mutex = "free" \/ updPc \in {"transfer", "cancel"},
         \A w \in Workers : worker[w] # "unborn" => worker'[w] # "unborn"
  PROVE  Served'
<1> SUFFICES ASSUME current' # 0, mutex' = "free" \/ updPc' \in {"transfer", "cancel"},
                    NEW s \in Slots
             PROVE  worker'[<<current', s>>] # "unborn"
  BY DEF Served
<1>1. current' = current /\ current \in Gens
  BY DEF GenInv, TypeInv, TypeOK, AdminTypes, Gens
<1>2. <<current, s>> \in Workers
  BY <1>1 DEF Workers
<1> QED
  BY <1>1, <1>2 DEF Served

LEMMA ServedNext ==
  ASSUME GenInv, Served, CreateFails = {FALSE}, [Next]_vars
  PROVE  Served'
<1> USE DEF dirVars, updVars, admVars, poolVars
<1>1. ASSUME NEW r \in Requests, Client(r) \/ Cancel(r) PROVE Served'
  <2>1. CASE CreateRegister(r)
    <3>1. mutex' # "free" /\ updPc' \notin {"transfer", "cancel"}
      BY <2>1, RequestAssumption DEF CreateRegister, Register, GenInv, TypeInv, LockInv
    <3> QED
      BY <3>1 DEF Served
  <2>2. CASE CreateDone(r)
    BY <2>2 DEF CreateDone, AllStarted, Served
  <2>3. CASE CreateFailed(r)
    BY <2>3 DEF CreateFailed
  <2>4. CASE ~(CreateRegister(r) \/ CreateFailed(r) \/ CreateDone(r))
    <3>1. UNCHANGED <<worker, current, mutex, updPc>>
      BY <1>1, <2>4 DEF Client, Cancel, Lookup, CreateFound, CreateUnconfigured,
         ShortCircuit, Proceed, Reroute, RefusedClosing, Enqueue, SendSeesDone,
         SendSeesCtx, DropWhenFull, KeepWhenFull, Recheck, TakeReply, WaitSeesCtx, GiveUp,
         Advance
    <3> QED
      BY <3>1, ServedKept
  <2> QED
    BY <2>1, <2>2, <2>3, <2>4
<1>2. ASSUME NEW w \in Workers, Work(w) \/ StartWorker(w) PROVE Served'
  <2>1. /\ UNCHANGED <<current, mutex, updPc>>
        /\ UNCHANGED worker
           \/ \E s \in {"idle", "busy", "draining", "exited"} : worker' = [worker EXCEPT ![w] = s]
    BY <1>2 DEF Work, TakeJob, SeeDone, DrainOne, Exit, KeyError, Deliver, Abandon,
       JobDone, StartWorker
  <2>2. \A v \in Workers : worker[v] # "unborn" => worker'[v] # "unborn"
    BY <2>1 DEF GenInv, TypeInv, TypeOK, PoolTypes
  <2> QED
    BY <2>1, <2>2, ServedKept
<1>3. CASE UpdatePrepared \/ UpdateStarted
  BY <1>3 DEF UpdatePrepared, UpdateStarted, UpdateReturn, AllStarted, Served
<1>4. CASE UpdateAbsent \/ UpdatePublish
  <2>1. mutex' # "free" /\ updPc' \notin {"transfer", "cancel"}
    BY <1>4 DEF UpdateAbsent, Register, UpdatePublish, GenInv, TypeInv, LockInv
  <2> QED
    BY <2>1 DEF Served
<1>5. CASE UpdateFailed
  BY <1>5 DEF UpdateFailed
<1>6. CASE UpdateLock \/ TransferTake \/ TransferPut \/ TransferFull \/ CancelRest
           \/ UpdateRetire \/ UpdateBegin \/ Instantiated
  <2>1. /\ UNCHANGED <<worker, current>>
        /\ mutex' = "free" \/ updPc' \in {"transfer", "cancel"}
              => mutex = "free" \/ updPc \in {"transfer", "cancel"}
    BY <1>6 DEF UpdateLock, TransferTake, TransferPut, TransferFull, CancelRest,
       UpdateRetire, UpdateReturn, UpdateBegin, Instantiated
  <2> QED
    BY <2>1, ServedKept
<1>7. ASSUME \/ \E g \in Gens : Sweep(g)
             \/ RemoveAbsent \/ RemoveLock \/ (Remove /\ ~RemoveUnregister)
             \/ ShutdownBegin \/ Shutdown \/ UNCHANGED vars
      PROVE  Served'
  <2>1. UNCHANGED <<worker, current, updPc>> /\ (mutex' = "free" => mutex = "free")
    BY <1>7 DEF Sweep, SweepBegin, SweepOne, SweepEnd, RemoveAbsent, RemoveLock, Remove,
       RemoveWorkersGone, RemoveSweepOne, RemoveSweepEnd, RemoveConfig, RemoveStep,
       ShutdownBegin, Shutdown, ShutdownSignal, ShutdownLoadWaitGroup,
       ShutdownWorkersGone, ShutdownCleanupsGone, ShutdownSweepOne, ShutdownEnd,
       ShutdownStep, vars
  <2> QED
    BY <2>1, ServedKept
<1>8. CASE RemoveUnregister
  BY <1>8 DEF RemoveUnregister, Served
<1> QED
  BY <1>1, <1>2, <1>3, <1>4, <1>5, <1>6, <1>7, <1>8 DEF Next, Update

(* Who finds a queue under the read lock finds its workers, the ones of the *)
(* replacement included, where createBaseProvider succeeds; without that,   *)
(* prepareProvider leaves an entry that nobody serves.                      *)
THEOREM LookupIsServed ==
  ASSUME CreateFails = {FALSE}, "unserved" \notin StartStates
  PROVE  Spec => []LookupFindsWorkers
<1>1. Init => Served
  <2> SUFFICES ASSUME Init, current # 0, NEW s \in Slots
               PROVE  worker[<<current, s>>] # "unborn"
    BY DEF Served
  <2>1. PICK start \in StartStates :
          /\ worker = [w \in Workers |-> IF w[1] = 1 /\ start = "served" THEN "idle" ELSE "unborn"]
          /\ current = IF start = "absent" THEN 0 ELSE 1
    BY DEF Init
  <2>2. start = "served" /\ current = 1
    BY <2>1, ChoiceAssumption
  <2>3. <<current, s>> \in Workers /\ <<current, s>>[1] = 1
    BY <2>2, SizeAssumption DEF Workers, Gens
  <2> QED
    BY <2>1, <2>2, <2>3
<1>2. GenInv /\ Served /\ [Next]_vars => Served'
  BY ServedNext
<1>3. GenInv /\ Served => LookupFindsWorkers
  <2> SUFFICES ASSUME GenInv, Served, mutex = "free", current # 0, shutPc = "idle",
                      NEW s \in Slots
               PROVE  worker[<<current, s>>] \in {"idle", "busy"}
    BY DEF LookupFindsWorkers
  <2>1. current \in Gens /\ <<current, s>> \in Workers /\ <<current, s>>[1] = current
    BY DEF GenInv, TypeInv, TypeOK, AdminTypes, Gens, Workers
  <2>2. ~closing[current]
    BY DEF GenInv, Told, TypeInv, LockInv
  <2>3. worker[<<current, s>>] \notin {"draining", "exited"}
    BY <2>1, <2>2 DEF GenInv, Told
  <2> QED
    BY <2>1, <2>3 DEF Served, GenInv, TypeInv, TypeOK, PoolTypes
<1> QED
  BY <1>1, <1>2, <1>3, Generations, PTL DEF Spec

-----------------------------------------------------------------------------
(* Where a queue exists from the start and is not removed, Shutdown finds   *)
(* one generation and the retired ones, and no more can come.               *)
Undivided ==
    /\ current # 0 /\ remPc = "idle"
    /\ \A r \in Requests : pc[r] # "prepare"
    /\ updPc # "prepare" /\ (updPc \in {"idle", "begun"} => build = "idle")
    /\ updPc # "idle" => lifecycle = "update"
    /\ shutPc \notin {"idle", "done"} => lifecycle = "shutdown"
    /\ shutPc # "idle" => updPc = "idle"
Stopping ==
    /\ shutPc \notin {"idle", "signal"} => closing[current]
    /\ shutPc = "wait" => shutGen = current
    /\ shutPc \in {"cleanups", "sweep", "done"} => Quiet(current)
    /\ shutPc \in {"sweep", "done"} => Retired = {}
StopInv == Undivided /\ Stopping

LEMMA UndividedNext ==
  ASSUME GenInv, Undivided, "remove" \notin AdminOps, [Next]_vars
  PROVE  Undivided'
<1> USE DEF dirVars, updVars, admVars
<1>1. ASSUME NEW r \in Requests, Client(r) \/ Cancel(r) PROVE Undivided'
  <2>1. UNCHANGED <<current, build, remPc, updPc, lifecycle, shutPc>>
    BY <1>1 DEF Undivided, Client, Cancel, Lookup, CreateFound, CreateUnconfigured,
       CreateRegister, CreateFailed, CreateDone, ShortCircuit, Proceed, Reroute,
       RefusedClosing, Enqueue, SendSeesDone, SendSeesCtx, DropWhenFull, KeepWhenFull,
       Recheck, TakeReply, WaitSeesCtx, GiveUp, Advance
  <2>2. pc \in [Requests -> ReqPcs] /\ current # 0 /\ pc[r] # "prepare"
    BY DEF Undivided, GenInv, TypeInv, TypeOK, ReqTypes
  <2>3. (\A q \in Requests \ {r} : pc'[q] = pc[q]) /\ pc'[r] # "prepare"
    <3>1. CASE Lookup(r) \/ CreateFound(r)
      BY <2>2, <3>1 DEF Lookup, CreateFound
    <3>2. CASE CreateUnconfigured(r) \/ CreateRegister(r) \/ CreateFailed(r) \/ CreateDone(r)
      BY <2>2, <3>2 DEF CreateUnconfigured, CreateRegister, CreateFailed, CreateDone
    <3>3. CASE ShortCircuit(r) \/ Proceed(r) \/ Reroute(r)
      BY <2>2, <3>3 DEF ShortCircuit, Proceed, Reroute, Return
    <3>4. CASE Enqueue(r) \/ KeepWhenFull(r) \/ Recheck(r) \/ Cancel(r)
      BY <2>2, <3>4 DEF Enqueue, KeepWhenFull, Recheck, Cancel, Advance
    <3>5. CASE \/ RefusedClosing(r) \/ SendSeesDone(r) \/ SendSeesCtx(r)
               \/ DropWhenFull(r) \/ WaitSeesCtx(r) \/ TakeReply(r)
      <4>1. pc' = [pc EXCEPT ![r] = "done"]
        BY <3>5 DEF RefusedClosing, SendSeesDone, SendSeesCtx, DropWhenFull, WaitSeesCtx,
           TakeReply, GiveUp, Return
      <4> QED
        BY <2>2, <4>1
    <3> QED
      BY <1>1, <3>1, <3>2, <3>3, <3>4, <3>5 DEF Client
  <2> QED
    BY <2>1, <2>3 DEF Undivided
<1>2. ASSUME \/ \E w \in Workers : Work(w) \/ StartWorker(w)
             \/ \E g \in Gens : Sweep(g)
             \/ TransferTake \/ TransferPut \/ CancelRest \/ ShutdownSweepOne
             \/ ShutdownSignal \/ ShutdownLoadWaitGroup \/ ShutdownWorkersGone
             \/ ShutdownCleanupsGone \/ UNCHANGED vars
      PROVE  Undivided'
  <2>1. UNCHANGED <<pc, current, build, remPc, updPc, lifecycle>>
        /\ (shutPc' = shutPc \/ (shutPc \notin {"idle", "done"} /\ shutPc' \notin {"idle", "done"}))
    BY <1>2 DEF reqVars, Work, TakeJob, SeeDone, DrainOne, Exit, KeyError, Deliver,
       Abandon, JobDone, StartWorker, Sweep, SweepBegin, SweepOne, SweepEnd, TransferTake,
       TransferPut, CancelRest, ShutdownSweepOne, ShutdownSignal, ShutdownLoadWaitGroup,
       ShutdownWorkersGone, ShutdownCleanupsGone, ShutdownStep, vars
  <2> QED
    BY <2>1 DEF Undivided
<1>3. CASE \/ UpdateBegin \/ UpdateLock \/ UpdateFailed \/ UpdatePublish \/ UpdateStarted
           \/ TransferFull \/ UpdateRetire
  <2>1. /\ UNCHANGED <<pc, remPc, shutPc>> /\ current' \in {current, last + 1}
        /\ shutPc = "idle" /\ updPc' # "prepare"
    BY <1>3 DEF Undivided, reqVars, UpdateBegin, UpdateLock, UpdateFailed, UpdateReturn,
       UpdatePublish, UpdateStarted, TransferFull, UpdateRetire
  <2>2. updPc' \in {"idle", "begun"} => build' = "idle"
    BY <1>3 DEF Undivided, UpdateBegin, UpdateLock, UpdateFailed, UpdateReturn,
       UpdatePublish, UpdateStarted, TransferFull, UpdateRetire
  <2>3. updPc' # "idle" => lifecycle' = "update"
    BY <1>3 DEF Undivided, UpdateBegin, UpdateLock, UpdateFailed, UpdateReturn,
       UpdatePublish, UpdateStarted, TransferFull, UpdateRetire
  <2>4. last \in Nat
    BY DEF GenInv, TypeInv, TypeOK, AdminTypes
  <2>5. current' # 0
    BY <2>1, <2>4 DEF Undivided
  <2> QED
    BY <2>1, <2>2, <2>3, <2>5 DEF Undivided
<1>4. CASE UpdateAbsent \/ UpdatePrepared \/ RemoveAbsent \/ RemoveLock \/ Remove
  BY <1>4 DEF Undivided, UpdateAbsent, UpdatePrepared, RemoveAbsent, RemoveLock, Remove,
     RemoveWorkersGone, RemoveSweepOne, RemoveSweepEnd, RemoveUnregister, RemoveConfig,
     RemoveStep
<1>5. CASE ShutdownBegin \/ ShutdownEnd
  <2>1. /\ UNCHANGED <<pc, current, build, remPc, updPc>> /\ updPc = "idle"
        /\ shutPc' = "signal" => lifecycle' = "shutdown"
        /\ shutPc' \in {"signal", "done"}
    BY <1>5 DEF Undivided, reqVars, ShutdownBegin, ShutdownEnd, ShutdownStep
  <2> QED
    BY <2>1 DEF Undivided
<1>6. CASE Instantiated
  <2>1. UNCHANGED <<pc, current, lifecycle, shutPc, remPc, updPc>> /\ build = "instantiate"
    BY <1>6 DEF reqVars, Instantiated
  <2> QED
    BY <2>1 DEF Undivided
<1> QED
  BY <1>1, <1>2, <1>3, <1>4, <1>5, <1>6 DEF Next, Update, Shutdown

(* Once Shutdown runs nothing is started, and what is quiet stays quiet.    *)
LEMMA StoppingNext ==
  ASSUME GenInv, Undivided, Stopping, Undivided', "remove" \notin AdminOps, [Next]_vars
  PROVE  Stopping'
<1> USE DEF dirVars, updVars, admVars, poolVars
<1>0. current \in Gens
  BY DEF Undivided, GenInv, TypeInv, TypeOK, AdminTypes, Gens
<1>1. CASE shutPc' \in {"idle", "signal"}
  BY <1>1 DEF Stopping
<1>2. CASE shutPc' \notin {"idle", "signal"} /\ Shutdown
  <2>1. UNCHANGED <<worker, current, sweep>>
    BY <1>2 DEF Shutdown, ShutdownSignal, ShutdownLoadWaitGroup, ShutdownWorkersGone,
       ShutdownCleanupsGone, ShutdownSweepOne, ShutdownEnd, ShutdownStep
  <2>2. Retired' = Retired /\ (Quiet(current)' <=> Quiet(current))
    BY <2>1 DEF Retired, Quiet, Alive
  <2>3. CASE ShutdownSignal
    BY <1>0, <2>1, <2>3 DEF ShutdownSignal, ShutdownStep, Stopping
  <2>4. CASE ~ShutdownSignal
    <3>1. UNCHANGED closing /\ shutPc \notin {"idle", "signal"}
      BY <1>2, <2>4 DEF Shutdown, ShutdownLoadWaitGroup, ShutdownWorkersGone,
         ShutdownCleanupsGone, ShutdownSweepOne, ShutdownEnd, ShutdownStep
    <3>2. closing'[current']
      BY <2>1, <3>1 DEF Stopping
    <3>3. shutPc' = "wait" => shutGen' = current'
      BY <1>2, <2>1, <2>4 DEF Shutdown, ShutdownLoadWaitGroup, ShutdownWorkersGone,
         ShutdownCleanupsGone, ShutdownSweepOne, ShutdownEnd, ShutdownStep, Stopping
    <3>4. shutPc' \in {"cleanups", "sweep", "done"} => Quiet(current)
      BY <1>2, <2>4 DEF Shutdown, ShutdownLoadWaitGroup, ShutdownWorkersGone,
         ShutdownCleanupsGone, ShutdownSweepOne, ShutdownEnd, ShutdownStep, Stopping,
         Undivided
    <3>5. shutPc' \in {"sweep", "done"} => Retired = {}
      BY <1>2, <2>4 DEF Shutdown, ShutdownLoadWaitGroup, ShutdownWorkersGone,
         ShutdownCleanupsGone, ShutdownSweepOne, ShutdownEnd, ShutdownStep, Stopping
    <3> QED
      BY <2>2, <3>2, <3>3, <3>4, <3>5 DEF Stopping
  <2> QED
    BY <2>3, <2>4
<1>3. CASE shutPc' \notin {"idle", "signal"} /\ ~Shutdown
  <2>1. UNCHANGED <<shutPc, shutGen>> /\ updPc = "idle" /\ updPc' = "idle" /\ build = "idle"
        /\ remPc = "idle"
    <3>1. UNCHANGED <<shutPc, shutGen>>
      <4>1. ASSUME NEW r \in Requests, Client(r) \/ Cancel(r) PROVE UNCHANGED <<shutPc, shutGen>>
        BY <4>1 DEF Client, Cancel, Lookup, CreateFound, CreateUnconfigured,
           CreateRegister, CreateFailed, CreateDone, ShortCircuit, Proceed, Reroute,
           RefusedClosing, Enqueue, SendSeesDone, SendSeesCtx, DropWhenFull, KeepWhenFull,
           Recheck, TakeReply, WaitSeesCtx, GiveUp, Advance
      <4>2. ASSUME \/ \E w \in Workers : Work(w) \/ StartWorker(w)
                   \/ \E g \in Gens : Sweep(g)
                   \/ Instantiated \/ UpdateBegin \/ UNCHANGED vars
            PROVE  UNCHANGED <<shutPc, shutGen>>
        BY <4>2 DEF Work, TakeJob, SeeDone, DrainOne, Exit, KeyError, Deliver, Abandon,
           JobDone, StartWorker, Sweep, SweepBegin, SweepOne, SweepEnd, Instantiated,
           UpdateBegin, vars
      <4>3. ASSUME Update PROVE UNCHANGED <<shutPc, shutGen>>
        BY <4>3 DEF Update, UpdateAbsent, UpdateLock, UpdateFailed, UpdatePrepared,
           UpdateReturn, UpdatePublish, UpdateStarted, TransferTake, TransferPut,
           TransferFull, CancelRest, UpdateRetire
      <4>4. ~(RemoveAbsent \/ RemoveLock \/ Remove)
        BY DEF Undivided, RemoveAbsent, RemoveLock, Remove, RemoveWorkersGone,
           RemoveSweepOne, RemoveSweepEnd, RemoveUnregister, RemoveConfig, RemoveStep
      <4>5. ~ShutdownBegin
        BY <1>3 DEF ShutdownBegin, ShutdownStep
      <4> QED
        BY <1>3, <4>1, <4>2, <4>3, <4>4, <4>5 DEF Next
    <3> QED
      BY <1>3, <3>1 DEF Undivided
  <2>2. /\ UNCHANGED <<current, closing>>
        /\ \A w \in Workers : Alive(w)' => Alive(w)
        /\ Retired' \subseteq Retired
    <3>1. ASSUME NEW r \in Requests, Client(r) \/ Cancel(r)
          PROVE  UNCHANGED <<current, closing, worker, sweep>>
      BY <3>1 DEF Undivided, Client, Cancel, Lookup, CreateFound, CreateUnconfigured,
         CreateRegister, CreateFailed, CreateDone, ShortCircuit, Proceed, Reroute,
         RefusedClosing, Enqueue, SendSeesDone, SendSeesCtx, DropWhenFull, KeepWhenFull,
         Recheck, TakeReply, WaitSeesCtx, GiveUp, Advance
    <3>2. ASSUME NEW w \in Workers, Work(w)
          PROVE  /\ UNCHANGED <<current, closing, sweep>>
                 /\ \A v \in Workers : Alive(v)' => Alive(v)
      <4>1. /\ UNCHANGED <<current, closing, sweep>>
            /\ \/ UNCHANGED worker
               \/ Alive(w) /\ \E s \in {"idle", "busy", "draining", "exited"} :
                                 worker' = [worker EXCEPT ![w] = s]
        BY <3>2 DEF Work, TakeJob, SeeDone, DrainOne, Exit, KeyError, Deliver, Abandon,
           JobDone, Alive
      <4> QED
        BY <4>1 DEF Alive, GenInv, TypeInv, TypeOK, PoolTypes
    <3>3. ASSUME NEW g \in Gens, Sweep(g)
          PROVE  UNCHANGED <<current, closing, worker>> /\ Retired' \subseteq Retired
      BY <3>3 DEF Sweep, SweepBegin, SweepOne, SweepEnd, Retired, GenInv, TypeInv, TypeOK,
         QueueTypes
    <3>4. ~(\E w \in Workers : StartWorker(w)) /\ ~Instantiated /\ ~UpdateBegin /\ ~Update
      <4>1. ~UpdateBegin
        BY <2>1 DEF UpdateBegin
      <4>2. ~Update
        BY <2>1 DEF Update, UpdateAbsent, UpdateLock, UpdateFailed, UpdatePrepared,
           UpdatePublish, UpdateStarted, TransferTake, TransferPut, TransferFull,
           CancelRest, UpdateRetire, GenInv, TypeInv, Numbered
      <4> QED
        BY <2>1, <4>1, <4>2 DEF StartWorker, Instantiated
    <3>5. ~(RemoveAbsent \/ RemoveLock \/ Remove) /\ ~ShutdownBegin
      BY <1>3, <2>1 DEF RemoveAbsent, RemoveLock, Remove, RemoveWorkersGone, RemoveSweepOne,
         RemoveSweepEnd, RemoveUnregister, RemoveConfig, RemoveStep, ShutdownBegin,
         ShutdownStep
    <3>6. CASE UNCHANGED <<current, closing, worker, sweep>>
      BY <3>6 DEF Alive, Retired
    <3>7. UNCHANGED sweep => Retired' = Retired
      BY DEF Retired
    <3>8. UNCHANGED worker => \A v \in Workers : Alive(v)' => Alive(v)
      BY DEF Alive
    <3> QED
      BY <1>3, <3>1, <3>2, <3>3, <3>4, <3>5, <3>6, <3>7, <3>8 DEF Next, vars
  <2>3. Quiet(current) => Quiet(current)'
    BY <1>0, <2>2 DEF Quiet, Workers
  <2> QED
    BY <1>3, <2>1, <2>2, <2>3 DEF Stopping
<1> QED
  BY <1>1, <1>2, <1>3

LEMMA ShutdownInvariant ==
  ASSUME "remove" \notin AdminOps, "absent" \notin StartStates
  PROVE  Spec => [](GenInv /\ StopInv)
<1>1. Init => StopInv
  BY DEF Init, StopInv, Undivided, Stopping
<1>2. GenInv /\ StopInv /\ [Next]_vars => StopInv'
  BY UndividedNext, StoppingNext DEF StopInv
<1> QED
  BY <1>1, <1>2, Generations, PTL DEF Spec

(* When Shutdown has returned no worker of any generation runs, where it    *)
(* finds a queue and nobody removes it: Shutdown takes no provider lock, so *)
(* it cannot exclude that a removed one is created again.                   *)
THEOREM ShutdownStops ==
  ASSUME "remove" \notin AdminOps, "absent" \notin StartStates
  PROVE  Spec => []ShutdownStopsWorkers
<1>1. GenInv /\ StopInv => ShutdownStopsWorkers
  <2> SUFFICES ASSUME GenInv, StopInv, shutPc = "done", NEW w \in Workers PROVE ~Alive(w)
    BY DEF ShutdownStopsWorkers
  <2>1. Retired = {} /\ Quiet(current) /\ ~Replacing
    BY DEF StopInv, Stopping, Undivided, Replacing
  <2>2. w[1] # current => ~Alive(w)
    BY <2>1 DEF GenInv, Awaited
  <2>3. w = <<w[1], w[2]>> /\ w[2] \in Slots
    BY DEF Workers
  <2> QED
    BY <2>1, <2>2, <2>3 DEF Quiet
<1> QED
  BY <1>1, ShutdownInvariant, PTL

(* Under the same conditions whatever Shutdown waits for has been told to   *)
(* stop, by itself or by the update that retired it.                        *)
THEOREM ShutdownTold ==
  ASSUME "remove" \notin AdminOps, "absent" \notin StartStates
  PROVE  Spec => []ShutdownWaitsForTold
<1>1. GenInv /\ StopInv => ShutdownWaitsForTold
  <2> SUFFICES ASSUME GenInv, StopInv, NEW w \in Workers,
                      \/ shutPc = "wait" /\ w[1] = shutGen
                      \/ shutPc = "cleanups" /\ w[1] \in Retired
               PROVE  closing[w[1]]
    BY DEF ShutdownWaitsForTold
  <2>1. CASE shutPc = "wait" /\ w[1] = shutGen
    BY <2>1 DEF StopInv, Stopping
  <2>2. CASE shutPc = "cleanups" /\ w[1] \in Retired
    BY <2>2 DEF GenInv, Told, Retired
  <2> QED
    BY <2>1, <2>2
<1> QED
  BY <1>1, ShutdownInvariant, PTL

-----------------------------------------------------------------------------
(* Who owns a message: in every state a message is in one place at most -  *)
(* in one queue, once; with one worker; or in the hand of an update - and  *)
(* only its owner may answer it.  From that follow AtMostOnce, NothingLost *)
(* and ReleasedIsUnreferenced, and that the queue layer implements         *)
(* RequestService.                                                         *)

Elems(s)    == {s[i] : i \in 1..Len(s)}
Distinct(s) == \A i, j \in 1..Len(s) : s[i] = s[j] => i = j
In(g)       == Elems(queue[g])
Busy(w)     == worker[w] = "busy"

(* The places are apart.                                                   *)
QueuesApart ==
    \A g \in Gens : /\ Distinct(queue[g])
                    /\ \A h \in Gens, r \in In(g) : r \in In(h) => g = h
JobsApart ==
    \A w \in Workers : Busy(w) =>
        /\ job[w] \in Requests /\ job[w] # hand
        /\ \A g \in Gens : job[w] \notin In(g)
        /\ \A v \in Workers : Busy(v) /\ job[v] = job[w] => v = w
HandApart == \A g \in Gens : hand \notin In(g)
Apart == QueuesApart /\ JobsApart /\ HandApart

Fresh(r) == replies[r] = <<>> /\ calls[r] = 0 /\ postHooks[r] = 0 /\ ~released[r]

(* A message that somebody holds has not been answered, run or billed, and *)
(* its caller waits or has left on its context; a waiting caller without   *)
(* an answer is one whose message is held, or whose context has ended.     *)
Owned(r) ==
    /\ Held(r) => Fresh(r) /\ pc[r] \in {"wait", "done"}
    /\ pc[r] \notin {"wait", "done"} => Fresh(r)
    /\ pc[r] = "wait" => ~released[r] /\ (replies[r] # <<>> => postHooks[r] = 0)
    /\ pc[r] = "wait" /\ ~ctxDone[r] => replies[r] # <<>> \/ Held(r)
    /\ Len(replies[r]) <= 1 /\ calls[r] <= 1 /\ postHooks[r] <= 1

(* A caller with a message to send, and an update that transfers messages, *)
(* have a generation to put them into.                                     *)
Aimed ==
    /\ \A r \in Requests :
          /\ pc[r] \in {"hooks", "send", "recheck", "block"} => target[r] # 0
          /\ pc[r] = "prepare" => current # 0
    /\ updPc \in {"start", "transfer", "cancel"} => current # 0

OwnInv == TypeInv /\ Aimed /\ Apart /\ \A r \in Requests : Owned(r)

-----------------------------------------------------------------------------
(* Sequences without repetition.                                           *)

LEMMA TailElems ==
  ASSUME NEW S, NEW s \in Seq(S), s # <<>>, Distinct(s)
  PROVE  /\ Head(s) \in Elems(s)
         /\ Elems(Tail(s)) = Elems(s) \ {Head(s)}
         /\ Distinct(Tail(s))
<1>1. /\ Len(s) \in Nat \ {0} /\ Len(Tail(s)) = Len(s) - 1 /\ Head(s) = s[1]
      /\ \A i \in 1..Len(Tail(s)) : Tail(s)[i] = s[i + 1]
  OBVIOUS
<1>2. Head(s) \in Elems(s)
  BY <1>1 DEF Elems
<1>3. Distinct(Tail(s))
  BY <1>1 DEF Distinct
<1>4. ASSUME NEW x \in Elems(Tail(s)) PROVE x \in Elems(s) \ {Head(s)}
  <2>1. PICK i \in 1..Len(Tail(s)) : x = Tail(s)[i]
    BY <1>4 DEF Elems
  <2>2. x = s[i + 1] /\ i + 1 \in 1..Len(s) /\ 1 \in 1..Len(s) /\ i + 1 # 1
    BY <1>1, <2>1
  <2> QED
    BY <1>1, <2>2 DEF Elems, Distinct
<1>5. ASSUME NEW x \in Elems(s) \ {Head(s)} PROVE x \in Elems(Tail(s))
  <2>1. PICK i \in 1..Len(s) : x = s[i]
    BY <1>5 DEF Elems
  <2>2. i # 1 /\ i - 1 \in 1..Len(Tail(s)) /\ Tail(s)[i - 1] = s[(i - 1) + 1]
    BY <1>1, <1>5, <2>1
  <2>3. (i - 1) + 1 = i
    BY <2>1
  <2> QED
    BY <2>1, <2>2, <2>3 DEF Elems
<1> QED
  BY <1>2, <1>3, <1>4, <1>5

LEMMA AppendElems ==
  ASSUME NEW S, NEW s \in Seq(S), NEW x \in S, x \notin Elems(s), Distinct(s)
  PROVE  /\ Elems(Append(s, x)) = Elems(s) \cup {x}
         /\ Distinct(Append(s, x))
<1>1. /\ Len(s) \in Nat /\ Len(Append(s, x)) = Len(s) + 1
      /\ \A i \in 1..Len(s) : Append(s, x)[i] = s[i]
      /\ Append(s, x)[Len(s) + 1] = x
  OBVIOUS
<1>2. 1..(Len(s) + 1) = 1..Len(s) \cup {Len(s) + 1}
  BY <1>1
<1>3. \A i \in 1..Len(s) : s[i] # x
  BY DEF Elems
<1>4. Elems(Append(s, x)) = Elems(s) \cup {x}
  BY <1>1, <1>2 DEF Elems
<1>5. Distinct(Append(s, x))
  BY <1>1, <1>2, <1>3 DEF Distinct
<1> QED
  BY <1>4, <1>5

LEMMA HeldIs ==
  ASSUME NEW r
  PROVE  Held(r) <=> \/ \E g \in Gens : r \in In(g)
                     \/ \E w \in Workers : Busy(w) /\ job[w] = r
                     \/ hand = r
  BY DEF Held, Queued, Carried, In, Elems, Busy

(* The same in the next state.                                             *)
LEMMA HeldIsNext ==
  ASSUME NEW r
  PROVE  Held(r)' <=> \/ \E g \in Gens : r \in In(g)'
                      \/ \E w \in Workers : Busy(w)' /\ job'[w] = r
                      \/ hand' = r
  BY DEF Held, Queued, Carried, In, Elems, Busy

(* What a step does to the queues.                                         *)
LEMMA PopElems ==
  ASSUME TypeOK, QueuesApart, NEW g \in Gens, queue[g] # <<>>,
         queue' = [queue EXCEPT ![g] = Tail(@)]
  PROVE  /\ Head(queue[g]) \in Requests /\ Head(queue[g]) \in In(g)
         /\ \A h \in Gens : /\ Distinct(queue'[h])
                            /\ In(h)' = IF h = g THEN In(g) \ {Head(queue[g])}
                                        ELSE In(h)
<1>1. queue[g] \in Seq(Requests) /\ Distinct(queue[g])
  BY DEF TypeOK, QueueTypes, QueuesApart
<1>2. \A h \in Gens : queue'[h] = IF h = g THEN Tail(queue[g]) ELSE queue[h]
  BY DEF TypeOK, QueueTypes
<1>3. /\ Head(queue[g]) \in Elems(queue[g])
      /\ Elems(Tail(queue[g])) = Elems(queue[g]) \ {Head(queue[g])}
      /\ Distinct(Tail(queue[g]))
  BY <1>1, TailElems
<1>4. Head(queue[g]) \in Requests
  BY <1>1
<1>5. ASSUME NEW h \in Gens
      PROVE  /\ Distinct(queue'[h])
             /\ Elems(queue'[h]) = IF h = g THEN Elems(queue[g]) \ {Head(queue[g])}
                                   ELSE Elems(queue[h])
  <2>1. CASE h = g
    BY <1>2, <1>3, <2>1
  <2>2. CASE h # g
    BY <1>2, <2>2 DEF QueuesApart
  <2> QED
    BY <2>1, <2>2
<1> QED
  BY <1>3, <1>4, <1>5 DEF In

LEMMA PushElems ==
  ASSUME TypeOK, QueuesApart, NEW g \in Gens, NEW r \in Requests, r \notin In(g),
         queue' = [queue EXCEPT ![g] = Append(@, r)]
  PROVE  \A h \in Gens : /\ Distinct(queue'[h])
                         /\ In(h)' = IF h = g THEN In(g) \cup {r} ELSE In(h)
<1>1. queue[g] \in Seq(Requests) /\ Distinct(queue[g])
  BY DEF TypeOK, QueueTypes, QueuesApart
<1>2. \A h \in Gens : queue'[h] = IF h = g THEN Append(queue[g], r) ELSE queue[h]
  BY DEF TypeOK, QueueTypes
<1>3. /\ Elems(Append(queue[g], r)) = Elems(queue[g]) \cup {r}
      /\ Distinct(Append(queue[g], r))
  BY <1>1, AppendElems DEF In
<1>4. ASSUME NEW h \in Gens
      PROVE  /\ Distinct(queue'[h])
             /\ Elems(queue'[h]) = IF h = g THEN Elems(queue[g]) \cup {r}
                                   ELSE Elems(queue[h])
  <2>1. CASE h = g
    BY <1>2, <1>3, <2>1
  <2>2. CASE h # g
    BY <1>2, <2>2 DEF QueuesApart
  <2> QED
    BY <2>1, <2>2
<1> QED
  BY <1>4 DEF In

LEMMA InRequests == ASSUME TypeOK PROVE \A g \in Gens : In(g) \subseteq Requests
  BY DEF TypeOK, QueueTypes, In, Elems

-----------------------------------------------------------------------------
(* Moves.  Places that only lose messages stay apart...                    *)
LEMMA ApartShrinks ==
  ASSUME TypeOK, Apart, hand' \in {hand, NoRequest},
         \A g \in Gens : Distinct(queue'[g]) /\ In(g)' \subseteq In(g),
         \A w \in Workers : Busy(w)' => Busy(w) /\ job'[w] = job[w]
  PROVE  Apart'
<1>1. QueuesApart'
  BY DEF Apart, QueuesApart
<1>2. JobsApart'
  BY RequestAssumption DEF Apart, JobsApart
<1>3. HandApart'
  BY InRequests, RequestAssumption DEF Apart, HandApart
<1> QED
  BY <1>1, <1>2, <1>3 DEF Apart

(* ...and keep what they hold when none loses a message.                   *)
LEMMA NoMove ==
  ASSUME TypeOK, Apart, UNCHANGED <<queue, hand>>,
         \A w \in Workers : /\ Busy(w)' <=> Busy(w)
                            /\ Busy(w) => job'[w] = job[w]
  PROVE  Apart' /\ \A r : Held(r)' <=> Held(r)
<1>1. \A g \in Gens : Distinct(queue'[g]) /\ In(g)' = In(g)
  BY DEF In, Apart, QueuesApart
<1>2. Apart'
  BY <1>1, ApartShrinks
<1>3. \A r : Held(r)' <=> Held(r)
  BY <1>1, HeldIs, HeldIsNext
<1> QED
  BY <1>2, <1>3

(* The head of a queue leaves it for good: a drain or a sweep.             *)
LEMMA HeadLeaves ==
  ASSUME TypeOK, Apart, NEW g \in Gens, queue[g] # <<>>,
         queue' = [queue EXCEPT ![g] = Tail(@)],
         UNCHANGED <<worker, job, hand>>
  PROVE  /\ Head(queue[g]) \in Requests /\ Held(Head(queue[g]))
         /\ Apart' /\ \A r : Held(r)' <=> Held(r) /\ r # Head(queue[g])
<1> DEFINE m == Head(queue[g])
<1>1. /\ m \in Requests /\ m \in In(g)
      /\ \A h \in Gens : /\ Distinct(queue'[h])
                         /\ In(h)' = IF h = g THEN In(g) \ {m} ELSE In(h)
  BY PopElems DEF Apart
<1> HIDE DEF m
<1>2. Apart'
  <2>1. \A h \in Gens : Distinct(queue'[h]) /\ In(h)' \subseteq In(h)
    BY <1>1
  <2>2. \A w \in Workers : Busy(w)' => Busy(w) /\ job'[w] = job[w]
    BY DEF Busy
  <2> QED
    BY <2>1, <2>2, ApartShrinks
<1>3. Held(m)
  BY <1>1, HeldIs
<1>4. ASSUME NEW r PROVE Held(r)' <=> Held(r) /\ r # m
  <2>1. (\E h \in Gens : r \in In(h)') <=> (\E h \in Gens : r \in In(h)) /\ r # m
    BY <1>1 DEF Apart, QueuesApart
  <2>2. ASSUME NEW w \in Workers, Busy(w), job[w] = r PROVE r # m
    BY <1>1, <2>2 DEF Apart, JobsApart
  <2>3. hand = r => r # m
    BY <1>1 DEF Apart, HandApart
  <2>4. \A w \in Workers : Busy(w)' <=> Busy(w)
    BY DEF Busy
  <2> QED
    BY <2>1, <2>2, <2>3, <2>4, HeldIs, HeldIsNext
<1> QED
  BY <1>1, <1>2, <1>3, <1>4 DEF m

(* A producer puts its message into a queue.                               *)
LEMMA MessageEnters ==
  ASSUME TypeOK, Apart, NEW g \in Gens, NEW m \in Requests, ~Held(m),
         queue' = [queue EXCEPT ![g] = Append(@, m)],
         UNCHANGED <<worker, job, hand>>
  PROVE  Apart' /\ \A r : Held(r)' <=> Held(r) \/ r = m
<1>1. /\ \A h \in Gens : m \notin In(h)
      /\ \A w \in Workers : Busy(w) => job[w] # m
      /\ hand # m
  BY HeldIs
<1>2. \A h \in Gens : /\ Distinct(queue'[h])
                      /\ In(h)' = IF h = g THEN In(g) \cup {m} ELSE In(h)
  BY <1>1, PushElems DEF Apart
<1>3. \A w \in Workers : Busy(w)' <=> Busy(w)
  BY DEF Busy
<1>4. Apart'
  <2>1. QueuesApart'
    BY <1>1, <1>2 DEF Apart, QueuesApart
  <2>2. JobsApart'
    BY <1>1, <1>2, <1>3 DEF Apart, JobsApart
  <2>3. HandApart'
    BY <1>1, <1>2 DEF Apart, HandApart
  <2> QED
    BY <2>1, <2>2, <2>3 DEF Apart
<1>5. \A r : Held(r)' <=> Held(r) \/ r = m
  BY <1>2, <1>3, HeldIs, HeldIsNext
<1> QED
  BY <1>4, <1>5

(* A worker takes the head of its queue.                                   *)
LEMMA HeadTaken ==
  ASSUME TypeOK, Apart, NEW w \in Workers, worker[w] = "idle",
         queue[w[1]] # <<>>,
         queue' = [queue EXCEPT ![w[1]] = Tail(@)],
         worker' = [worker EXCEPT ![w] = "busy"],
         job' = [job EXCEPT ![w] = Head(queue[w[1]])],
         UNCHANGED hand
  PROVE  Apart' /\ \A r : Held(r)' <=> Held(r)
<1> DEFINE g == w[1]
           m == Head(queue[g])
<1>0. g \in Gens
  BY DEF Workers
<1>1. /\ m \in Requests /\ m \in In(g)
      /\ \A h \in Gens : /\ Distinct(queue'[h])
                         /\ In(h)' = IF h = g THEN In(g) \ {m} ELSE In(h)
  BY <1>0, PopElems DEF Apart
<1>2. /\ Busy(w)' /\ ~Busy(w) /\ job'[w] = m
      /\ \A v \in Workers \ {w} : (Busy(v)' <=> Busy(v)) /\ job'[v] = job[v]
  BY DEF Busy, TypeOK, PoolTypes
<1> HIDE DEF m, g
<1>3. Apart'
  <2>1. QueuesApart'
    BY <1>1 DEF Apart, QueuesApart
  <2>2. JobsApart'
    <3>1. hand # m /\ \A v \in Workers : Busy(v) => job[v] # m
      BY <1>0, <1>1 DEF Apart, HandApart, JobsApart
    <3>2. \A h \in Gens : m \notin In(h)'
      BY <1>0, <1>1 DEF Apart, QueuesApart
    <3>3. ASSUME NEW v \in Workers \ {w}, Busy(v)'
          PROVE  /\ job'[v] \in Requests /\ job'[v] # hand'
                 /\ \A h \in Gens : job'[v] \notin In(h)'
                 /\ \A u \in Workers : Busy(u)' /\ job'[u] = job'[v] => u = v
      BY <1>0, <1>1, <1>2, <3>1, <3>3 DEF Apart, JobsApart
    <3>4. /\ job'[w] \in Requests /\ job'[w] # hand'
          /\ \A h \in Gens : job'[w] \notin In(h)'
          /\ \A u \in Workers : Busy(u)' /\ job'[u] = job'[w] => u = w
      BY <1>1, <1>2, <3>1, <3>2
    <3> QED
      BY <3>3, <3>4 DEF JobsApart
  <2>3. HandApart'
    BY <1>1 DEF Apart, HandApart
  <2> QED
    BY <2>1, <2>2, <2>3 DEF Apart
<1>4. ASSUME NEW r PROVE Held(r)' <=> Held(r)
  <2>1. (\E h \in Gens : r \in In(h)') \/ r = m <=> \E h \in Gens : r \in In(h)
    BY <1>0, <1>1 DEF Apart, QueuesApart
  <2>2. (\E v \in Workers : Busy(v)' /\ job'[v] = r)
          <=> (\E v \in Workers : Busy(v) /\ job[v] = r) \/ r = m
    BY <1>2
  <2> QED
    BY <2>1, <2>2, HeldIs, HeldIsNext
<1> QED
  BY <1>3, <1>4

(* A worker is through with its message.                                   *)
LEMMA JobLeaves ==
  ASSUME TypeOK, Apart, NEW w \in Workers, Busy(w),
         worker' = [worker EXCEPT ![w] = "idle"],
         job' = [job EXCEPT ![w] = NoRequest],
         UNCHANGED <<queue, hand>>
  PROVE  /\ job[w] \in Requests /\ Held(job[w])
         /\ Apart' /\ \A r : Held(r)' <=> Held(r) /\ r # job[w]
<1>1. ~Busy(w)' /\ \A v \in Workers \ {w} : (Busy(v)' <=> Busy(v)) /\ job'[v] = job[v]
  BY DEF Busy, TypeOK, PoolTypes
<1>2. \A g \in Gens : Distinct(queue'[g]) /\ In(g)' = In(g)
  BY DEF In, Apart, QueuesApart
<1>3. Apart'
  BY <1>1, <1>2, ApartShrinks
<1>4. job[w] \in Requests /\ Held(job[w])
  BY HeldIs DEF Apart, JobsApart
<1>5. ASSUME NEW r PROVE Held(r)' <=> Held(r) /\ r # job[w]
  <2>1. /\ \A g \in Gens : job[w] \notin In(g)
        /\ job[w] # hand
        /\ \A v \in Workers : Busy(v) /\ job[v] = job[w] => v = w
    BY DEF Apart, JobsApart
  <2> QED
    BY <1>1, <1>2, <2>1, HeldIs, HeldIsNext
<1> QED
  BY <1>3, <1>4, <1>5

(* UpdateProvider takes the head of the old queue in its hand...           *)
LEMMA HandTakes ==
  ASSUME TypeOK, Apart, NEW g \in Gens, queue[g] # <<>>, hand = NoRequest,
         hand' = Head(queue[g]),
         queue' = [queue EXCEPT ![g] = Tail(@)],
         UNCHANGED <<worker, job>>
  PROVE  Apart' /\ \A r \in Requests : Held(r)' <=> Held(r)
<1> DEFINE m == Head(queue[g])
<1>1. /\ m \in Requests /\ m \in In(g)
      /\ \A h \in Gens : /\ Distinct(queue'[h])
                         /\ In(h)' = IF h = g THEN In(g) \ {m} ELSE In(h)
  BY PopElems DEF Apart
<1>2. hand' = m /\ \A v \in Workers : Busy(v)' <=> Busy(v)
  BY DEF Busy
<1> HIDE DEF m
<1>3. Apart'
  <2>1. QueuesApart'
    BY <1>1 DEF Apart, QueuesApart
  <2>2. JobsApart'
    BY <1>1, <1>2 DEF Apart, JobsApart
  <2>3. HandApart'
    BY <1>1, <1>2 DEF Apart, HandApart, QueuesApart
  <2> QED
    BY <2>1, <2>2, <2>3 DEF Apart
<1>4. ASSUME NEW r \in Requests PROVE Held(r)' <=> Held(r)
  <2>1. (\E h \in Gens : r \in In(h)') \/ r = m <=> \E h \in Gens : r \in In(h)
    BY <1>1 DEF Apart, QueuesApart
  <2> QED
    BY <1>2, <2>1, HeldIs, HeldIsNext, RequestAssumption
<1> QED
  BY <1>3, <1>4

(* ...puts it into the new one...                                          *)
LEMMA HandPuts ==
  ASSUME TypeOK, Apart, NEW g \in Gens, hand \in Requests, hand' = NoRequest,
         queue' = [queue EXCEPT ![g] = Append(@, hand)],
         UNCHANGED <<worker, job>>
  PROVE  Apart' /\ \A r \in Requests : Held(r)' <=> Held(r)
<1>1. /\ \A h \in Gens : hand \notin In(h)
      /\ \A w \in Workers : Busy(w) => job[w] # hand /\ job[w] \in Requests
  BY DEF Apart, HandApart, JobsApart
<1>2. \A h \in Gens : /\ Distinct(queue'[h])
                      /\ In(h)' = IF h = g THEN In(g) \cup {hand} ELSE In(h)
  BY <1>1, PushElems DEF Apart
<1>3. \A w \in Workers : Busy(w)' <=> Busy(w)
  BY DEF Busy
<1>4. Apart'
  <2>1. QueuesApart'
    BY <1>1, <1>2 DEF Apart, QueuesApart
  <2>2. JobsApart'
    BY <1>1, <1>2, <1>3, RequestAssumption DEF Apart, JobsApart
  <2>3. HandApart'
    BY <1>2, InRequests, RequestAssumption DEF HandApart
  <2> QED
    BY <2>1, <2>2, <2>3 DEF Apart
<1>5. \A r \in Requests : Held(r)' <=> Held(r)
  BY <1>2, <1>3, HeldIs, HeldIsNext, RequestAssumption
<1> QED
  BY <1>4, <1>5

(* ...or refuses it.                                                       *)
LEMMA HandLeaves ==
  ASSUME TypeOK, Apart, hand \in Requests, hand' = NoRequest,
         UNCHANGED <<queue, worker, job>>
  PROVE  /\ Held(hand)
         /\ Apart' /\ \A r \in Requests : Held(r)' <=> Held(r) /\ r # hand
<1>1. \A g \in Gens : Distinct(queue'[g]) /\ In(g)' = In(g) /\ hand \notin In(g)
  BY DEF In, Apart, QueuesApart, HandApart
<1>2. \A w \in Workers : (Busy(w)' <=> Busy(w)) /\ (Busy(w) => job[w] # hand)
  BY DEF Busy, Apart, JobsApart
<1>3. Apart'
  BY <1>1, <1>2, ApartShrinks
<1>4. \A r \in Requests : Held(r)' <=> Held(r) /\ r # hand
  BY <1>1, <1>2, HeldIs, HeldIsNext, RequestAssumption
<1> QED
  BY <1>3, <1>4, HeldIs

-----------------------------------------------------------------------------
(* The rights and duties of owners.                                        *)

OwnStep == Apart' /\ \A r \in Requests : Owned(r)'

(* A request that nothing happens to, except that its caller may go from   *)
(* one step before the send to another, or see its context end.            *)
LEMMA OwnedSame ==
  ASSUME NEW r \in Requests, Owned(r), Held(r)' <=> Held(r),
         replies'[r] = replies[r], calls'[r] = calls[r],
         postHooks'[r] = postHooks[r], released'[r] = released[r],
         ctxDone[r] => ctxDone'[r],
         pc'[r] = pc[r] \/ {pc[r], pc'[r]} \cap {"wait", "done"} = {}
  PROVE  Owned(r)'
<1>1. Fresh(r)' <=> Fresh(r)
  BY DEF Fresh
<1> QED
  BY <1>1 DEF Owned

(* A refused request has its one answer, or its context has ended.         *)
LEMMA OwnedRefused ==
  ASSUME TypeOK, NEW r \in Requests, Owned(r), Held(r), ~Held(r)',
         NEW a \in Replies, Refuse(r, a),
         UNCHANGED <<pc, ctxDone, calls, postHooks, released>>
  PROVE  /\ Owned(r)'
         /\ \A s \in Requests \ {r} : replies'[s] = replies[s]
<1>1. Fresh(r) /\ pc[r] \in {"wait", "done"} /\ replies \in [Requests -> Seq(Replies)]
  BY DEF Owned, TypeOK, MsgTypes
<1>2. CASE replies' = [replies EXCEPT ![r] = Append(@, a)]
  <2>1. replies'[r] = <<a>> /\ Len(<<a>>) = 1 /\ <<a>> # <<>>
    BY <1>1, <1>2 DEF Fresh
  <2> QED
    BY <1>1, <1>2, <2>1 DEF Owned, Fresh
<1>3. CASE ctxDone[r] /\ UNCHANGED replies
  BY <1>1, <1>3 DEF Owned, Fresh
<1> QED
  BY <1>2, <1>3 DEF Refuse

(* Steps that touch no message.                                            *)
LEMMA StillStep ==
  ASSUME OwnInv, UNCHANGED <<queue, hand, job, replies, released, calls, postHooks>>,
         \A w \in Workers : Busy(w)' <=> Busy(w),
         \A r \in Requests :
            /\ ctxDone[r] => ctxDone'[r]
            /\ pc'[r] = pc[r] \/ {pc[r], pc'[r]} \cap {"wait", "done"} = {}
  PROVE  OwnStep
<1>1. TypeOK /\ Apart /\ \A r \in Requests : Owned(r)
  BY DEF OwnInv, TypeInv
<1>2. Apart' /\ \A r : Held(r)' <=> Held(r)
  BY <1>1, NoMove
<1>3. ASSUME NEW r \in Requests PROVE Owned(r)'
  BY <1>1, <1>2, OwnedSame
<1> QED
  BY <1>2, <1>3 DEF OwnStep

(* A caller returns before its message was sent.                           *)
LEMMA ReturnStep ==
  ASSUME OwnInv, NEW r \in Requests, pc[r] \notin {"wait", "done"},
         pc' = [pc EXCEPT ![r] = "done"],
         released' \in {released, [released EXCEPT ![r] = TRUE]},
         UNCHANGED <<ctxDone, queue, hand, worker, job, replies, calls, postHooks>>
  PROVE  OwnStep
<1>1. TypeOK /\ Apart /\ \A s \in Requests : Owned(s)
  BY DEF OwnInv, TypeInv
<1>2. Apart' /\ \A s : Held(s)' <=> Held(s)
  BY <1>1, NoMove DEF Busy
<1>3. pc \in [Requests -> ReqPcs] /\ released \in [Requests -> BOOLEAN]
  BY <1>1 DEF TypeOK, ReqTypes, MsgTypes
<1>4. ASSUME NEW s \in Requests, s # r PROVE Owned(s)'
  <2>1. pc'[s] = pc[s] /\ released'[s] = released[s]
    BY <1>3, <1>4
  <2> QED
    BY <1>1, <1>2, <2>1, OwnedSame
<1>5. Owned(r)'
  <2>1. pc'[r] = "done" /\ ~Held(r) /\ Fresh(r)
    BY <1>1, <1>3 DEF Owned
  <2>2. replies'[r] = <<>> /\ calls'[r] = 0 /\ postHooks'[r] = 0 /\ Len(<<>>) = 0
    BY <2>1 DEF Fresh
  <2> QED
    BY <1>2, <2>1, <2>2 DEF Owned
<1> QED
  BY <1>2, <1>4, <1>5 DEF OwnStep

LEMMA EnqueueStep == ASSUME OwnInv, NEW r \in Requests, Enqueue(r) PROVE OwnStep
<1>1. TypeOK /\ Apart /\ \A s \in Requests : Owned(s)
  BY DEF OwnInv, TypeInv
<1>2. /\ pc \in [Requests -> ReqPcs] /\ target \in [Requests -> 0..MaxGen]
      /\ pc[r] \in {"send", "block"}
      /\ pc' = [pc EXCEPT ![r] = "wait"]
      /\ UNCHANGED <<ctxDone, replies, released, calls, postHooks, worker, job, hand>>
      /\ queue' = [queue EXCEPT ![target[r]] = Append(@, r)]
  BY <1>1 DEF TypeOK, ReqTypes, Enqueue, msgVars, poolVars, updVars
<1>3. ~Held(r) /\ Fresh(r)
  BY <1>1, <1>2 DEF Owned
<1>4. target[r] \in Gens
  BY <1>2, SizeAssumption DEF OwnInv, Aimed, Gens
<1>5. Apart' /\ \A s : Held(s)' <=> Held(s) \/ s = r
  BY <1>1, <1>2, <1>3, <1>4, MessageEnters
<1>6. ASSUME NEW s \in Requests, s # r PROVE Owned(s)'
  <2>1. pc'[s] = pc[s]
    BY <1>2, <1>6
  <2> QED
    BY <1>1, <1>2, <1>5, <1>6, <2>1, OwnedSame
<1>7. Owned(r)'
  <2>1. pc'[r] = "wait" /\ Fresh(r)' /\ Held(r)'
    BY <1>2, <1>3, <1>5 DEF Fresh
  <2>2. Len(replies'[r]) <= 1 /\ calls'[r] <= 1 /\ postHooks'[r] <= 1
    BY <2>1 DEF Fresh
  <2> QED
    BY <2>1, <2>2 DEF Owned, Fresh
<1> QED
  BY <1>5, <1>6, <1>7 DEF OwnStep

(* The waiting caller takes its answer, leaves, or sees its context end.   *)
LEMMA TakeReplyStep == ASSUME OwnInv, NEW r \in Requests, TakeReply(r) PROVE OwnStep
<1>1. TypeOK /\ Apart /\ \A s \in Requests : Owned(s)
  BY DEF OwnInv, TypeInv
<1>2. /\ pc \in [Requests -> ReqPcs] /\ released \in [Requests -> BOOLEAN]
      /\ postHooks \in [Requests -> Nat]
      /\ pc[r] = "wait" /\ replies[r] # <<>>
      /\ pc' = [pc EXCEPT ![r] = "done"]
      /\ released' = [released EXCEPT ![r] = TRUE]
      /\ postHooks' \in {postHooks, [postHooks EXCEPT ![r] = @ + 1]}
      /\ UNCHANGED <<ctxDone, replies, calls, queue, worker, job, hand>>
  BY <1>1 DEF TypeOK, ReqTypes, MsgTypes, TakeReply, Return, poolVars, updVars
<1>3. Apart' /\ \A s : Held(s)' <=> Held(s)
  BY <1>1, <1>2, NoMove DEF Busy
<1>4. ASSUME NEW s \in Requests, s # r PROVE Owned(s)'
  <2>1. pc'[s] = pc[s] /\ released'[s] = released[s] /\ postHooks'[s] = postHooks[s]
    BY <1>2, <1>4
  <2> QED
    BY <1>1, <1>2, <1>3, <2>1, OwnedSame
<1>5. Owned(r)'
  <2>1. ~Held(r) /\ postHooks[r] = 0 /\ Len(replies[r]) <= 1 /\ calls[r] <= 1
    BY <1>1, <1>2 DEF Owned, Fresh
  <2>2. pc'[r] = "done" /\ postHooks'[r] <= 1
    BY <1>2, <2>1
  <2> QED
    BY <1>2, <1>3, <2>1, <2>2 DEF Owned
<1> QED
  BY <1>3, <1>4, <1>5 DEF OwnStep

LEMMA WaitSeesCtxStep ==
  ASSUME OwnInv, NEW r \in Requests, WaitSeesCtx(r)
  PROVE  OwnStep
<1>1. TypeOK /\ Apart /\ \A s \in Requests : Owned(s)
  BY DEF OwnInv, TypeInv
<1>2. /\ pc \in [Requests -> ReqPcs] /\ pc[r] = "wait"
      /\ pc' = [pc EXCEPT ![r] = "done"]
      /\ UNCHANGED <<ctxDone, replies, calls, released, postHooks, queue, worker,
                     job, hand>>
  BY <1>1 DEF TypeOK, ReqTypes, WaitSeesCtx, Return, msgVars, poolVars, updVars
<1>3. Apart' /\ \A s : Held(s)' <=> Held(s)
  BY <1>1, <1>2, NoMove DEF Busy
<1>4. ASSUME NEW s \in Requests, s # r PROVE Owned(s)'
  <2>1. pc'[s] = pc[s]
    BY <1>2, <1>4
  <2> QED
    BY <1>1, <1>2, <1>3, <2>1, OwnedSame
<1>5. Owned(r)'
  <2>1. Owned(r) /\ pc'[r] = "done" /\ (Fresh(r)' <=> Fresh(r))
    BY <1>1, <1>2 DEF Fresh
  <2> QED
    BY <1>2, <1>3, <2>1 DEF Owned
<1> QED
  BY <1>3, <1>4, <1>5 DEF OwnStep

(* A message is refused: by a drain loop or sweep of generation g...       *)
LEMMA RefuseHeadStep ==
  ASSUME OwnInv, NEW g \in Gens, NEW a \in Replies, RefuseHead(g, a),
         UNCHANGED <<pc, ctxDone, worker, job, hand>>
  PROVE  OwnStep
<1>1. TypeOK /\ Apart /\ \A s \in Requests : Owned(s)
  BY DEF OwnInv, TypeInv
<1>2. /\ queue[g] # <<>> /\ queue' = [queue EXCEPT ![g] = Tail(@)]
      /\ Refuse(Head(queue[g]), a) /\ UNCHANGED <<released, calls, postHooks>>
  BY DEF RefuseHead
<1>3. /\ Head(queue[g]) \in Requests /\ Held(Head(queue[g])) /\ Apart'
      /\ \A s : Held(s)' <=> Held(s) /\ s # Head(queue[g])
  BY <1>1, <1>2, HeadLeaves
<1>4. PICK m \in Requests : m = Head(queue[g])
  BY <1>3
<1>5. Owned(m)' /\ \A s \in Requests \ {m} : replies'[s] = replies[s]
  BY <1>1, <1>2, <1>3, <1>4, OwnedRefused
<1>6. ASSUME NEW s \in Requests, s # m PROVE Owned(s)'
  BY <1>1, <1>2, <1>3, <1>4, <1>5, <1>6, OwnedSame
<1> QED
  BY <1>3, <1>5, <1>6 DEF OwnStep

(* ...or by the update that has it in its hand.                            *)
LEMMA TransferFullStep == ASSUME OwnInv, TransferFull PROVE OwnStep
<1>1. TypeOK /\ Apart /\ \A s \in Requests : Owned(s)
  BY DEF OwnInv, TypeInv
<1>2. /\ hand \in Requests /\ hand' = NoRequest /\ Refuse(hand, "queue_full")
      /\ UNCHANGED <<pc, ctxDone, queue, worker, job, released, calls, postHooks>>
      /\ "queue_full" \in Replies
  BY <1>1 DEF TransferFull, TypeOK, AdminTypes, reqVars, poolVars, Replies
<1>3. Held(hand) /\ Apart' /\ \A s \in Requests : Held(s)' <=> Held(s) /\ s # hand
  BY <1>1, <1>2, HandLeaves
<1>4. PICK m \in Requests : m = hand
  BY <1>2
<1>5. Owned(m)' /\ \A s \in Requests \ {m} : replies'[s] = replies[s]
  BY <1>1, <1>2, <1>3, <1>4, OwnedRefused
<1>6. ASSUME NEW s \in Requests, s # m PROVE Owned(s)'
  BY <1>1, <1>2, <1>3, <1>4, <1>5, <1>6, OwnedSame
<1> QED
  BY <1>3, <1>5, <1>6 DEF OwnStep

(* A message changes hands.                                                *)
LEMMA HandOverStep ==
  ASSUME OwnInv, Apart', \A r \in Requests : Held(r)' <=> Held(r),
         UNCHANGED <<pc, ctxDone, replies, calls, postHooks, released>>
  PROVE  OwnStep
  BY OwnedSame DEF OwnInv, OwnStep

LEMMA TakeJobStep == ASSUME OwnInv, NEW w \in Workers, TakeJob(w) PROVE OwnStep
<1>1. Apart' /\ \A r : Held(r)' <=> Held(r)
  BY HeadTaken DEF OwnInv, TypeInv, TakeJob, updVars
<1> QED
  BY <1>1, HandOverStep DEF TakeJob, reqVars, msgVars

LEMMA TransferTakeStep == ASSUME OwnInv, TransferTake PROVE OwnStep
<1>1. /\ updOld \in Gens /\ queue[updOld] # <<>> /\ hand = NoRequest
      /\ hand' = Head(queue[updOld]) /\ queue' = [queue EXCEPT ![updOld] = Tail(@)]
      /\ UNCHANGED <<worker, job, pc, ctxDone, replies, calls, postHooks, released>>
  BY DEF OwnInv, TypeInv, LockInv, TransferTake, reqVars, msgVars, poolVars
<1>2. Apart' /\ \A r \in Requests : Held(r)' <=> Held(r)
  BY <1>1, HandTakes DEF OwnInv, TypeInv
<1> QED
  BY <1>1, <1>2, HandOverStep

LEMMA TransferPutStep == ASSUME OwnInv, TransferPut PROVE OwnStep
<1>1. /\ current \in Gens /\ hand \in Requests /\ hand' = NoRequest
      /\ queue' = [queue EXCEPT ![current] = Append(@, hand)]
      /\ UNCHANGED <<worker, job, pc, ctxDone, replies, calls, postHooks, released>>
  BY SizeAssumption DEF OwnInv, TypeInv, TypeOK, AdminTypes, Aimed, TransferPut,
     reqVars, msgVars, poolVars, Gens
<1>2. Apart' /\ \A r \in Requests : Held(r)' <=> Held(r)
  BY <1>1, HandPuts DEF OwnInv, TypeInv
<1> QED
  BY <1>1, <1>2, HandOverStep

(* A worker ends its job: it answers the message, or bills it itself.      *)
LEMMA JobDoneStep ==
  ASSUME OwnInv, NEW w \in Workers, KeyError(w) \/ Deliver(w) \/ Abandon(w)
  PROVE  OwnStep
<1>1. TypeOK /\ Apart /\ \A s \in Requests : Owned(s)
  BY DEF OwnInv, TypeInv
<1>2. /\ Busy(w) /\ worker' = [worker EXCEPT ![w] = "idle"]
      /\ job' = [job EXCEPT ![w] = NoRequest]
      /\ UNCHANGED <<pc, ctxDone, queue, hand, released>>
  BY DEF KeyError, Deliver, Abandon, JobDone, Busy, reqVars, updVars
<1>3. /\ job[w] \in Requests /\ Held(job[w]) /\ Apart'
      /\ \A s : Held(s)' <=> Held(s) /\ s # job[w]
  BY <1>1, <1>2, JobLeaves
<1>4. PICK m \in Requests : m = job[w]
  BY <1>3
<1>5. Fresh(m) /\ pc[m] \in {"wait", "done"} /\ ~Held(m)'
  BY <1>1, <1>3, <1>4 DEF Owned
<1>6. /\ replies \in [Requests -> Seq(Replies)]
      /\ calls \in [Requests -> Nat] /\ postHooks \in [Requests -> Nat]
  BY <1>1 DEF TypeOK, MsgTypes
<1>7. CASE KeyError(w) \/ Deliver(w)
  <2>1. PICK a \in Replies : replies' = [replies EXCEPT ![m] = Append(@, a)]
    BY <1>4, <1>7 DEF KeyError, Deliver, Replies
  <2>2. /\ UNCHANGED postHooks
        /\ calls' \in {calls, [calls EXCEPT ![m] = @ + 1]}
    BY <1>4, <1>7 DEF KeyError, Deliver
  <2>3. replies'[m] = <<a>> /\ Len(<<a>>) = 1 /\ <<a>> # <<>>
    BY <1>5, <1>6, <2>1 DEF Fresh
  <2>4. postHooks'[m] = 0 /\ calls'[m] <= 1
    BY <1>5, <1>6, <2>2 DEF Fresh
  <2>5. Owned(m)'
    BY <1>2, <1>5, <2>3, <2>4 DEF Owned, Fresh
  <2>6. ASSUME NEW s \in Requests, s # m PROVE Owned(s)'
    <3>1. replies'[s] = replies[s] /\ calls'[s] = calls[s]
      BY <1>6, <2>1, <2>2, <2>6
    <3> QED
      BY <1>1, <1>2, <1>3, <1>4, <2>2, <2>6, <3>1, OwnedSame
  <2> QED
    BY <1>3, <2>5, <2>6 DEF OwnStep
<1>8. CASE Abandon(w)
  <2>1. /\ UNCHANGED replies /\ ctxDone[m]
        /\ calls' = [calls EXCEPT ![m] = @ + 1]
        /\ postHooks' \in {postHooks, [postHooks EXCEPT ![m] = @ + 1]}
    BY <1>4, <1>8 DEF Abandon
  <2>2. replies'[m] = <<>> /\ Len(<<>>) = 0 /\ calls'[m] <= 1 /\ postHooks'[m] <= 1
    BY <1>5, <1>6, <2>1 DEF Fresh
  <2>3. Owned(m)'
    BY <1>2, <1>5, <2>1, <2>2 DEF Owned, Fresh
  <2>4. ASSUME NEW s \in Requests, s # m PROVE Owned(s)'
    <3>1. calls'[s] = calls[s] /\ postHooks'[s] = postHooks[s]
      BY <1>6, <2>1, <2>4
    <3> QED
      BY <1>1, <1>2, <1>3, <1>4, <2>1, <2>4, <3>1, OwnedSame
  <2> QED
    BY <1>3, <2>3, <2>4 DEF OwnStep
<1> QED
  BY <1>7, <1>8

-----------------------------------------------------------------------------
LEMMA AimedStep == TypeInv /\ Aimed /\ [Next]_vars => Aimed'
<1> SUFFICES ASSUME TypeInv, Aimed, [Next]_vars PROVE Aimed'
  OBVIOUS
<1> USE DEF Aimed
<1>0. /\ pc \in [Requests -> ReqPcs] /\ target \in [Requests -> 0..MaxGen]
      /\ last \in Nat
  BY SizeAssumption DEF TypeInv, TypeOK, ReqTypes, AdminTypes
<1>1. ASSUME NEW r \in Requests, Client(r) PROVE Aimed'
  <2> USE <1>0
  <2>1. CASE Lookup(r) \/ CreateFound(r)
    BY <2>1 DEF Lookup, CreateFound, dirVars, updVars
  <2>2. CASE CreateRegister(r)
    BY <2>2 DEF CreateRegister, Register, updVars
  <2>3. CASE CreateDone(r)
    BY <2>3 DEF CreateDone, updVars
  <2>4. CASE CreateUnconfigured(r) \/ CreateFailed(r) \/ ShortCircuit(r)
             \/ TakeReply(r) \/ WaitSeesCtx(r)
    BY <2>4 DEF CreateUnconfigured, CreateFailed, ShortCircuit, TakeReply,
       WaitSeesCtx, Return, dirVars, updVars
  <2>5. CASE Proceed(r) \/ Reroute(r) \/ Enqueue(r)
    BY <2>5 DEF Proceed, Reroute, CanReroute, Enqueue, dirVars, updVars
  <2>6. CASE RefusedClosing(r) \/ SendSeesDone(r) \/ SendSeesCtx(r) \/ DropWhenFull(r)
    BY <2>6 DEF RefusedClosing, SendSeesDone, SendSeesCtx, DropWhenFull, GiveUp,
       Return, dirVars, updVars
  <2>7. CASE KeepWhenFull(r) \/ Recheck(r)
    BY <2>7 DEF KeepWhenFull, WouldBlock, Recheck, Advance, dirVars, updVars
  <2> QED
    BY <1>1, <2>1, <2>2, <2>3, <2>4, <2>5, <2>6, <2>7 DEF Client
<1>2. CASE Update
  <2> USE <1>0 DEF reqVars
  <2>1. CASE UpdateAbsent
    BY <2>1 DEF UpdateAbsent, Register
  <2>2. CASE UpdateLock
    BY <2>2 DEF UpdateLock
  <2>3. CASE UpdateFailed \/ UpdatePrepared \/ UpdateRetire
    BY <2>3 DEF UpdateFailed, UpdatePrepared, UpdateRetire, UpdateReturn
  <2>4. CASE UpdatePublish
    BY <2>4 DEF UpdatePublish
  <2>5. CASE UpdateStarted
    BY <2>5 DEF UpdateStarted
  <2>6. CASE TransferTake \/ TransferPut \/ TransferFull \/ CancelRest
    BY <2>6 DEF TransferTake, TransferPut, TransferFull, CancelRest, dirVars, updVars
  <2> QED
    BY <1>2, <2>1, <2>2, <2>3, <2>4, <2>5, <2>6 DEF Update
<1>3. CASE RemoveUnregister
  <2>1. /\ mutex = "remove" /\ UNCHANGED <<pc, target, updPc>>
    BY <1>3 DEF RemoveUnregister, RemoveStep, TypeInv, LockInv, reqVars, updVars
  <2>2. /\ \A r \in Requests : pc[r] # "prepare"
        /\ updPc \notin {"start", "transfer", "cancel"}
    BY <2>1, RequestAssumption DEF TypeInv, LockInv
  <2> QED
    BY <2>1, <2>2
<1>4. ASSUME NEW r \in Requests, Cancel(r) PROVE Aimed'
  BY <1>4 DEF Cancel, dirVars, updVars
<1>5. ASSUME NEW w \in Workers, Work(w) \/ StartWorker(w) PROVE Aimed'
  BY <1>5 DEF Work, TakeJob, SeeDone, DrainOne, Exit, KeyError, Deliver, Abandon,
     JobDone, StartWorker, reqVars, dirVars, updVars
<1>6. CASE Instantiated \/ UpdateBegin
  BY <1>6 DEF Instantiated, UpdateBegin, reqVars, dirVars, updVars
<1>7. ASSUME NEW g \in Gens, Sweep(g) PROVE Aimed'
  BY <1>7 DEF Sweep, SweepBegin, SweepOne, SweepEnd, reqVars, dirVars, updVars
<1>8. CASE RemoveAbsent \/ RemoveLock
  BY <1>8 DEF RemoveAbsent, RemoveLock, reqVars, dirVars, updVars
<1>9. CASE RemoveWorkersGone \/ RemoveSweepOne \/ RemoveSweepEnd \/ RemoveConfig
  BY <1>9 DEF RemoveWorkersGone, RemoveSweepOne, RemoveSweepEnd, RemoveConfig,
     RemoveStep, reqVars, dirVars, updVars
<1>10. CASE ShutdownBegin \/ Shutdown
  BY <1>10 DEF ShutdownBegin, Shutdown, ShutdownSignal, ShutdownLoadWaitGroup,
     ShutdownWorkersGone, ShutdownCleanupsGone, ShutdownSweepOne, ShutdownEnd,
     ShutdownStep, reqVars, dirVars, updVars
<1>11. CASE UNCHANGED vars
  BY <1>11 DEF vars, reqVars, dirVars, updVars
<1> QED
  BY <1>1, <1>2, <1>3, <1>4, <1>5, <1>6, <1>7, <1>8, <1>9, <1>10, <1>11 DEF Next, Remove

(* Steps before the send keep the caller there.                            *)
LEMMA ApproachStep ==
  ASSUME OwnInv, NEW r \in Requests,
         \/ Lookup(r) \/ CreateFound(r) \/ CreateRegister(r) \/ CreateDone(r)
         \/ Proceed(r) \/ Reroute(r) \/ KeepWhenFull(r) \/ Recheck(r)
  PROVE  OwnStep
<1>1. /\ UNCHANGED <<queue, hand, worker, job, replies, released, calls, postHooks,
                     ctxDone>>
      /\ pc[r] \notin {"wait", "done"}
      /\ \E to \in ReqPcs \ {"wait", "done"} : pc' = [pc EXCEPT ![r] = to]
  BY DEF Lookup, CreateFound, CreateRegister, Register, CreateDone, Proceed, Reroute,
     KeepWhenFull, WouldBlock, Recheck, Advance, ReqPcs, msgVars, poolVars, updVars
<1>2. \A s \in Requests :
         pc'[s] = pc[s] \/ {pc[s], pc'[s]} \cap {"wait", "done"} = {}
  BY <1>1 DEF OwnInv, TypeInv, TypeOK, ReqTypes
<1> QED
  BY <1>1, <1>2, StillStep DEF Busy

LEMMA RefusalStep ==
  ASSUME OwnInv, NEW r \in Requests,
         \/ CreateUnconfigured(r) \/ CreateFailed(r) \/ ShortCircuit(r)
         \/ RefusedClosing(r) \/ SendSeesDone(r) \/ SendSeesCtx(r)
         \/ DropWhenFull(r)
  PROVE  OwnStep
<1>1. /\ pc[r] \notin {"wait", "done"} /\ pc' = [pc EXCEPT ![r] = "done"]
      /\ released' \in {released, [released EXCEPT ![r] = TRUE]}
      /\ UNCHANGED <<ctxDone, queue, hand, worker, job, replies, calls, postHooks>>
  BY DEF CreateUnconfigured, CreateFailed, ShortCircuit, RefusedClosing, SendSeesDone,
     SendSeesCtx, DropWhenFull, WouldBlock, GiveUp, Return, msgVars, poolVars, updVars
<1> QED
  BY <1>1, ReturnStep

LEMMA CancelStep == ASSUME OwnInv, NEW r \in Requests, Cancel(r) PROVE OwnStep
<1>1. /\ UNCHANGED <<queue, hand, worker, job, replies, released, calls, postHooks, pc>>
      /\ ctxDone' = [ctxDone EXCEPT ![r] = TRUE]
      /\ ctxDone \in [Requests -> BOOLEAN]
  BY DEF Cancel, OwnInv, TypeInv, TypeOK, ReqTypes, msgVars, poolVars, updVars
<1>2. \A s \in Requests : ctxDone[s] => ctxDone'[s]
  BY <1>1
<1> QED
  BY <1>1, <1>2, StillStep DEF Busy

(* Workers that start, see the signal or exit hold no message.             *)
LEMMA WorkerStep ==
  ASSUME OwnInv, NEW w \in Workers, StartWorker(w) \/ SeeDone(w) \/ Exit(w)
  PROVE  OwnStep
<1>1. /\ UNCHANGED <<queue, hand, job, replies, released, calls, postHooks, pc, ctxDone>>
      /\ worker[w] # "busy"
      /\ \E to \in {"idle", "draining", "exited"} : worker' = [worker EXCEPT ![w] = to]
  BY DEF StartWorker, SeeDone, Exit, reqVars, msgVars, updVars
<1>2. \A v \in Workers : Busy(v)' <=> Busy(v)
  BY <1>1 DEF Busy, OwnInv, TypeInv, TypeOK, PoolTypes
<1> QED
  BY <1>1, <1>2, StillStep

(* The steps of the administration that touch no message.                  *)
LEMMA AdminStep ==
  ASSUME OwnInv,
         \/ Instantiated \/ UpdateBegin
         \/ UpdateAbsent \/ UpdateLock \/ UpdateFailed \/ UpdatePrepared
         \/ UpdatePublish \/ UpdateStarted \/ UpdateRetire
         \/ (\E g \in Gens : SweepBegin(g) \/ SweepEnd(g))
         \/ RemoveAbsent \/ RemoveLock \/ RemoveWorkersGone \/ RemoveSweepEnd
         \/ RemoveUnregister \/ RemoveConfig
         \/ ShutdownBegin \/ ShutdownSignal \/ ShutdownLoadWaitGroup
         \/ ShutdownWorkersGone \/ ShutdownCleanupsGone \/ ShutdownEnd
         \/ UNCHANGED vars
  PROVE  OwnStep
<1>1. UNCHANGED <<queue, hand, worker, job, replies, released, calls, postHooks, pc,
                  ctxDone>>
  BY DEF Instantiated, UpdateBegin, UpdateAbsent, UpdateLock, UpdateFailed,
     UpdatePrepared, UpdatePublish, UpdateStarted, UpdateRetire, UpdateReturn,
     SweepBegin, SweepEnd, RemoveAbsent, RemoveLock, RemoveWorkersGone, RemoveSweepEnd,
     RemoveUnregister, RemoveConfig, RemoveStep, ShutdownBegin, ShutdownSignal,
     ShutdownLoadWaitGroup, ShutdownWorkersGone, ShutdownCleanupsGone, ShutdownEnd,
     ShutdownStep, vars, reqVars, msgVars, poolVars, updVars
<1> QED
  BY <1>1, StillStep DEF Busy

(* A drain loop or sweep takes one message.                                *)
LEMMA SweepStep ==
  ASSUME OwnInv,
         \/ \E w \in Workers : DrainOne(w)
         \/ \E g \in Gens : SweepOne(g)
         \/ CancelRest \/ RemoveSweepOne \/ ShutdownSweepOne
  PROVE  OwnStep
<1>1. /\ UNCHANGED <<pc, ctxDone, worker, job, hand>>
      /\ \E g \in Gens, a \in Replies : RefuseHead(g, a)
  <2>1. CASE \E w \in Workers : DrainOne(w)
    BY <2>1 DEF DrainOne, Workers, Replies, reqVars, poolVars, updVars
  <2>2. CASE \E g \in Gens : SweepOne(g)
    BY <2>2 DEF SweepOne, Replies, reqVars, poolVars, updVars
  <2>3. CASE CancelRest
    BY <2>3 DEF CancelRest, OwnInv, TypeInv, LockInv, Replies, reqVars, poolVars, updVars
  <2>4. CASE RemoveSweepOne
    <3>1. current \in Gens
      BY <2>4, SizeAssumption DEF RemoveSweepOne, OwnInv, TypeInv, TypeOK, AdminTypes,
         LockInv, Gens
    <3> QED
      BY <2>4, <3>1 DEF RemoveSweepOne, Replies, reqVars, poolVars, updVars
  <2>5. CASE ShutdownSweepOne
    <3>1. current \in Gens
      BY <2>5, SizeAssumption DEF ShutdownSweepOne, OwnInv, TypeInv, TypeOK, AdminTypes,
         Gens
    <3> QED
      BY <2>5, <3>1 DEF ShutdownSweepOne, Replies, reqVars, poolVars, updVars
  <2> QED
    BY <2>1, <2>2, <2>3, <2>4, <2>5
<1> QED
  BY <1>1, RefuseHeadStep

LEMMA OwnNext == OwnInv /\ [Next]_vars => OwnInv'
<1> SUFFICES ASSUME OwnInv, [Next]_vars PROVE OwnInv'
  OBVIOUS
<1>1. TypeInv' /\ Aimed'
  BY TypeStep, AimedStep DEF OwnInv
<1>2. ASSUME NEW r \in Requests, Client(r) PROVE OwnStep
  BY <1>2, ApproachStep, RefusalStep, EnqueueStep, TakeReplyStep, WaitSeesCtxStep
     DEF Client
<1>3. ASSUME NEW w \in Workers, Work(w) \/ StartWorker(w) PROVE OwnStep
  BY <1>3, TakeJobStep, WorkerStep, SweepStep, JobDoneStep DEF Work
<1>4. ASSUME Update PROVE OwnStep
  BY <1>4, AdminStep, TransferTakeStep, TransferPutStep, TransferFullStep, SweepStep
     DEF Update
<1>5. ASSUME NEW g \in Gens, Sweep(g) PROVE OwnStep
  BY <1>5, AdminStep, SweepStep DEF Sweep
<1>6. ASSUME RemoveAbsent \/ RemoveLock \/ Remove PROVE OwnStep
  BY <1>6, AdminStep, SweepStep DEF Remove
<1>7. ASSUME ShutdownBegin \/ Shutdown PROVE OwnStep
  BY <1>7, AdminStep, SweepStep DEF Shutdown
<1>8. ASSUME Instantiated \/ UpdateBegin \/ UNCHANGED vars PROVE OwnStep
  BY <1>8, AdminStep
<1>9. OwnStep
  BY <1>2, <1>3, <1>4, <1>5, <1>6, <1>7, <1>8, CancelStep DEF Next
<1> QED
  BY <1>1, <1>9 DEF OwnStep, OwnInv

LEMMA OwnInit == Init => OwnInv
<1> SUFFICES ASSUME Init PROVE OwnInv
  OBVIOUS
<1>1. TypeInv
  BY TypeInit
<1>2. \A g \in Gens : queue[g] = <<>> /\ In(g) = {} /\ Distinct(queue[g])
  BY DEF Init, In, Elems, Distinct
<1>3. \A w \in Workers : ~Busy(w)
  BY DEF Init, Busy
<1>4. Aimed /\ Apart
  BY <1>2, <1>3 DEF Init, Aimed, Apart, QueuesApart, JobsApart, HandApart
<1>5. ASSUME NEW r \in Requests PROVE Owned(r)
  <2>1. ~Held(r)
    BY <1>2, <1>3, HeldIs, RequestAssumption DEF Init
  <2>2. Fresh(r) /\ pc[r] = "start" /\ Len(<<>>) = 0
    BY DEF Init, Fresh
  <2> QED
    BY <2>1, <2>2 DEF Owned, Fresh
<1> QED
  BY <1>1, <1>4, <1>5 DEF OwnInv

LEMMA Ownership == Spec => []OwnInv
  BY OwnInit, OwnNext, PTL DEF Spec

(* A request is answered, run and billed at most once.                     *)
THEOREM AnsweredOnce == Spec => []AtMostOnce
<1>1. OwnInv => AtMostOnce
  BY DEF OwnInv, Owned, AtMostOnce
<1> QED
  BY <1>1, Ownership, PTL

(* The message of a waiting caller with a live context is held by somebody *)
(* who can answer it, exactly until it is answered, and no queue, worker   *)
(* or transfer refers to a message that is back in the pool.               *)
THEOREM NoneLost == Spec => []MessagesAccounted
<1>1. OwnInv => NothingLost
  BY DEF OwnInv, Owned, Fresh, NothingLost
<1>2. OwnInv => ReleasedIsUnreferenced
  BY DEF OwnInv, Owned, Fresh, ReleasedIsUnreferenced
<1> QED
  BY <1>1, <1>2, Ownership, PTL DEF MessagesAccounted

-----------------------------------------------------------------------------
(* The refinement.  Phase is the mapping of pc in ProviderQueue's Service. *)

Phase == [r \in Requests |-> CASE pc[r] = "wait" -> "accepted"
                               [] pc[r] = "done" -> "returned"
                               [] OTHER -> "open"]

ServiceStep == [Service!Next]_(Service!vars)

LEMMA PhaseIs ==
  ASSUME NEW r \in Requests
  PROVE  /\ Phase[r] = "accepted" <=> pc[r] = "wait"
         /\ Phase[r] = "returned" <=> pc[r] = "done"
         /\ Phase[r] = "open" <=> pc[r] \notin {"wait", "done"}
  BY DEF Phase

LEMMA PhaseStep ==
  ASSUME pc \in [Requests -> ReqPcs], NEW r \in Requests, NEW to,
         pc' = [pc EXCEPT ![r] = to]
  PROVE  /\ to = "wait" => Phase' = [Phase EXCEPT ![r] = "accepted"]
         /\ to = "done" => Phase' = [Phase EXCEPT ![r] = "returned"]
         /\ {pc[r], to} \cap {"wait", "done"} = {} => Phase' = Phase
<1>1. \A s \in Requests : pc'[s] = IF s = r THEN to ELSE pc[s]
  OBVIOUS
<1>2. ASSUME to = "wait" PROVE Phase' = [Phase EXCEPT ![r] = "accepted"]
  BY <1>1, <1>2 DEF Phase
<1>3. ASSUME to = "done" PROVE Phase' = [Phase EXCEPT ![r] = "returned"]
  BY <1>1, <1>3 DEF Phase
<1>4. ASSUME {pc[r], to} \cap {"wait", "done"} = {} PROVE Phase' = Phase
  BY <1>1, <1>4 DEF Phase
<1> QED
  BY <1>2, <1>3, <1>4

LEMMA ServiceStutters ==
  ASSUME UNCHANGED <<Phase, ctxDone, calls, replies, outcome>>
  PROVE  ServiceStep
  BY DEF ServiceStep, Service!vars, Phase

(* A refused call.                                                         *)
LEMMA RefusedServes ==
  ASSUME OwnInv, NEW r \in Requests,
         \/ CreateUnconfigured(r) \/ CreateFailed(r) \/ ShortCircuit(r)
         \/ RefusedClosing(r) \/ SendSeesDone(r) \/ SendSeesCtx(r)
         \/ DropWhenFull(r)
  PROVE  ServiceStep
<1>1. /\ pc[r] \notin {"wait", "done"} /\ pc' = [pc EXCEPT ![r] = "done"]
      /\ UNCHANGED <<ctxDone, replies, calls>>
      /\ \E what \in {"unavailable", "short_circuit", "shutting_down", "queue_full",
                      "cancelled"} :
            outcome' = [outcome EXCEPT ![r] = what]
  BY DEF CreateUnconfigured, CreateFailed, ShortCircuit, RefusedClosing, SendSeesDone,
     SendSeesCtx, DropWhenFull, WouldBlock, GiveUp, Return, msgVars
<1>2. Phase[r] = "open" /\ Phase' = [Phase EXCEPT ![r] = "returned"]
  BY <1>1, PhaseIs, PhaseStep DEF OwnInv, TypeInv, TypeOK, ReqTypes
<1>3. Service!Refuse(r)
  BY <1>1, <1>2 DEF Service!Refuse, Service!ReturnWith, Phase
<1> QED
  BY <1>3 DEF ServiceStep, Service!Next

(* A caller on its way to the send, and steps of the queues, pools and     *)
(* administration that answer nobody, are no steps of the service.         *)
LEMMA ApproachServes ==
  ASSUME OwnInv, NEW r \in Requests,
         \/ Lookup(r) \/ CreateFound(r) \/ CreateRegister(r) \/ CreateDone(r)
         \/ Proceed(r) \/ Reroute(r) \/ KeepWhenFull(r) \/ Recheck(r)
  PROVE  ServiceStep
<1>1. /\ UNCHANGED <<ctxDone, calls, replies, outcome>>
      /\ pc[r] \notin {"wait", "done"}
      /\ \E to \in ReqPcs \ {"wait", "done"} : pc' = [pc EXCEPT ![r] = to]
  BY DEF Lookup, CreateFound, CreateRegister, Register, CreateDone, Proceed, Reroute,
     KeepWhenFull, WouldBlock, Recheck, Advance, ReqPcs, msgVars
<1>2. PICK to \in ReqPcs \ {"wait", "done"} : pc' = [pc EXCEPT ![r] = to]
  BY <1>1
<1>3. {pc[r], to} \cap {"wait", "done"} = {} /\ pc \in [Requests -> ReqPcs]
  BY <1>1, <1>2 DEF OwnInv, TypeInv, TypeOK, ReqTypes
<1>4. Phase' = Phase
  BY <1>2, <1>3, PhaseStep
<1> QED
  BY <1>1, <1>4, ServiceStutters

LEMMA SilentServes ==
  ASSUME UNCHANGED <<pc, ctxDone, calls, replies, outcome>>
  PROVE  ServiceStep
  BY ServiceStutters DEF Phase

LEMMA AdminServes ==
  ASSUME \/ Instantiated \/ UpdateBegin
         \/ UpdateAbsent \/ UpdateLock \/ UpdateFailed \/ UpdatePrepared
         \/ UpdatePublish \/ UpdateStarted \/ UpdateRetire
         \/ TransferTake \/ TransferPut
         \/ (\E g \in Gens : SweepBegin(g) \/ SweepEnd(g))
         \/ (\E w \in Workers : StartWorker(w) \/ TakeJob(w) \/ SeeDone(w) \/ Exit(w))
         \/ RemoveAbsent \/ RemoveLock \/ RemoveWorkersGone \/ RemoveSweepEnd
         \/ RemoveUnregister \/ RemoveConfig
         \/ ShutdownBegin \/ ShutdownSignal \/ ShutdownLoadWaitGroup
         \/ ShutdownWorkersGone \/ ShutdownCleanupsGone \/ ShutdownEnd
         \/ UNCHANGED vars
  PROVE  ServiceStep
<1>1. UNCHANGED <<pc, ctxDone, calls, replies, outcome>>
  BY DEF Instantiated, UpdateBegin, UpdateAbsent, UpdateLock, UpdateFailed,
     UpdatePrepared, UpdatePublish, UpdateStarted, UpdateRetire, UpdateReturn,
     TransferTake, TransferPut, SweepBegin, SweepEnd, StartWorker, TakeJob, SeeDone,
     Exit, RemoveAbsent, RemoveLock, RemoveWorkersGone, RemoveSweepEnd,
     RemoveUnregister, RemoveConfig, RemoveStep, ShutdownBegin, ShutdownSignal,
     ShutdownLoadWaitGroup, ShutdownWorkersGone, ShutdownCleanupsGone, ShutdownEnd,
     ShutdownStep, vars, reqVars, msgVars
<1> QED
  BY <1>1, SilentServes

(* The caller's own steps from the send on.                                *)
LEMMA EnqueueServes == ASSUME OwnInv, NEW r \in Requests, Enqueue(r) PROVE ServiceStep
<1>1. /\ pc[r] \in {"send", "block"} /\ pc' = [pc EXCEPT ![r] = "wait"]
      /\ UNCHANGED <<ctxDone, calls, replies, outcome>>
  BY DEF Enqueue, msgVars
<1>2. Phase[r] = "open" /\ Phase' = [Phase EXCEPT ![r] = "accepted"]
  BY <1>1, PhaseIs, PhaseStep DEF OwnInv, TypeInv, TypeOK, ReqTypes
<1>3. Service!Accept(r)
  BY <1>1, <1>2 DEF Service!Accept, Phase
<1> QED
  BY <1>3 DEF ServiceStep, Service!Next

LEMMA CancelServes == ASSUME NEW r \in Requests, Cancel(r) PROVE ServiceStep
<1>1. /\ ~ctxDone[r] /\ pc[r] # "done"
      /\ ctxDone' = [ctxDone EXCEPT ![r] = TRUE]
      /\ UNCHANGED <<pc, calls, replies, outcome>>
  BY DEF Cancel, msgVars
<1>2. Phase[r] # "returned" /\ Phase' = Phase
  BY <1>1, PhaseIs DEF Phase
<1>3. Service!End(r)
  BY <1>1, <1>2 DEF Service!End, Phase
<1> QED
  BY <1>3 DEF ServiceStep, Service!Next

LEMMA WaitServes ==
  ASSUME OwnInv, NEW r \in Requests, TakeReply(r) \/ WaitSeesCtx(r)
  PROVE  ServiceStep
<1>1. /\ pc[r] = "wait" /\ pc' = [pc EXCEPT ![r] = "done"]
      /\ UNCHANGED <<ctxDone, calls, replies>>
  BY DEF TakeReply, WaitSeesCtx, Return, msgVars
<1>2. Phase[r] = "accepted" /\ Phase' = [Phase EXCEPT ![r] = "returned"]
  BY <1>1, PhaseIs, PhaseStep DEF OwnInv, TypeInv, TypeOK, ReqTypes
<1>3. CASE TakeReply(r)
  <2>1. replies[r] # <<>> /\ outcome' = [outcome EXCEPT ![r] = Head(replies[r])]
    BY <1>3 DEF TakeReply, Return
  <2>2. Service!Answer(r)
    BY <1>1, <1>2, <2>1 DEF Service!Answer, Service!ReturnWith, Phase
  <2> QED
    BY <2>2 DEF ServiceStep, Service!Next
<1>4. CASE WaitSeesCtx(r)
  <2>1. ctxDone[r] /\ outcome' = [outcome EXCEPT ![r] = "cancelled"]
    BY <1>4 DEF WaitSeesCtx, Return
  <2>2. Service!Leave(r)
    BY <1>1, <1>2, <2>1 DEF Service!Leave, Service!ReturnWith, Phase
  <2> QED
    BY <2>2 DEF ServiceStep, Service!Next
<1> QED
  BY <1>3, <1>4

(* A message that is held is turned away, or its ended caller is left      *)
(* without an answer.                                                      *)
LEMMA TurnedAwayServes ==
  ASSUME TypeOK, NEW m \in Requests, Fresh(m), pc[m] \in {"wait", "done"},
         NEW a \in {"error", "shutting_down", "queue_full"}, Refuse(m, a),
         UNCHANGED <<pc, ctxDone, calls, outcome>>
  PROVE  ServiceStep
<1>1. CASE replies' = [replies EXCEPT ![m] = Append(@, a)]
  <2>1. replies[m] = <<>> /\ calls[m] = 0 /\ Phase[m] # "open" /\ Phase' = Phase
    BY PhaseIs DEF Fresh, Phase
  <2>2. replies' = [replies EXCEPT ![m] = <<a>>]
    BY <1>1, <2>1
  <2>3. Service!TurnAway(m)
    BY <2>1, <2>2 DEF Service!TurnAway, Phase
  <2> QED
    BY <2>3 DEF ServiceStep, Service!Next
<1>2. CASE UNCHANGED replies
  BY <1>2, SilentServes
<1> QED
  BY <1>1, <1>2 DEF Refuse

LEMMA SweepServes ==
  ASSUME OwnInv,
         \/ \E w \in Workers : DrainOne(w)
         \/ \E g \in Gens : SweepOne(g)
         \/ CancelRest \/ RemoveSweepOne \/ ShutdownSweepOne
  PROVE  ServiceStep
<1>1. /\ UNCHANGED <<pc, ctxDone, outcome>>
      /\ \E g \in Gens, a \in {"shutting_down", "queue_full"} : RefuseHead(g, a)
  <2>1. CASE \E w \in Workers : DrainOne(w)
    BY <2>1 DEF DrainOne, Workers, reqVars
  <2>2. CASE \E g \in Gens : SweepOne(g)
    BY <2>2 DEF SweepOne, reqVars
  <2>3. CASE CancelRest
    BY <2>3 DEF CancelRest, OwnInv, TypeInv, LockInv, reqVars
  <2>4. CASE RemoveSweepOne
    <3>1. current \in Gens
      BY <2>4, SizeAssumption DEF RemoveSweepOne, OwnInv, TypeInv, TypeOK, AdminTypes,
         LockInv, Gens
    <3> QED
      BY <2>4, <3>1 DEF RemoveSweepOne, reqVars
  <2>5. CASE ShutdownSweepOne
    <3>1. current \in Gens
      BY <2>5, SizeAssumption DEF ShutdownSweepOne, OwnInv, TypeInv, TypeOK, AdminTypes,
         Gens
    <3> QED
      BY <2>5, <3>1 DEF ShutdownSweepOne, reqVars
  <2> QED
    BY <2>1, <2>2, <2>3, <2>4, <2>5
<1>2. PICK g \in Gens, a \in {"shutting_down", "queue_full"} : RefuseHead(g, a)
  BY <1>1
<1>3. /\ queue[g] # <<>> /\ queue' = [queue EXCEPT ![g] = Tail(@)]
      /\ Refuse(Head(queue[g]), a) /\ UNCHANGED calls
  BY <1>2 DEF RefuseHead
<1>4. Head(queue[g]) \in Requests /\ Head(queue[g]) \in In(g)
  BY <1>3, PopElems DEF OwnInv, TypeInv, Apart
<1>5. PICK m \in Requests : m = Head(queue[g])
  BY <1>4
<1>6. Fresh(m) /\ pc[m] \in {"wait", "done"}
  BY <1>4, <1>5, HeldIs DEF OwnInv, Owned
<1> QED
  BY <1>1, <1>3, <1>5, <1>6, TurnedAwayServes DEF OwnInv, TypeInv

LEMMA TransferFullServes == ASSUME OwnInv, TransferFull PROVE ServiceStep
<1>1. /\ hand \in Requests /\ Refuse(hand, "queue_full")
      /\ UNCHANGED <<pc, ctxDone, calls, outcome>>
  BY DEF OwnInv, TypeInv, TransferFull, TypeOK, AdminTypes, reqVars
<1>2. PICK m \in Requests : m = hand
  BY <1>1
<1>3. Fresh(m) /\ pc[m] \in {"wait", "done"}
  BY <1>2, HeldIs DEF OwnInv, Owned
<1> QED
  BY <1>1, <1>2, <1>3, TurnedAwayServes DEF OwnInv, TypeInv

(* A worker answers, or runs the request of a caller that has left.        *)
LEMMA JobServes ==
  ASSUME OwnInv, NEW w \in Workers, KeyError(w) \/ Deliver(w) \/ Abandon(w)
  PROVE  ServiceStep
<1>1. /\ Busy(w) /\ UNCHANGED <<pc, ctxDone, outcome>>
  BY DEF KeyError, Deliver, Abandon, JobDone, Busy, reqVars
<1>2. job[w] \in Requests
  BY <1>1 DEF OwnInv, Apart, JobsApart
<1>3. PICK m \in Requests : m = job[w]
  BY <1>2
<1>4. Fresh(m) /\ pc[m] \in {"wait", "done"}
  BY <1>1, <1>3, HeldIs DEF OwnInv, Owned
<1>5. replies[m] = <<>> /\ calls[m] = 0 /\ Phase[m] # "open" /\ Phase' = Phase
  BY <1>1, <1>4, PhaseIs DEF Fresh, Phase
<1>6. calls[m] + 1 = 1 /\ calls[job[w]] = calls[m]
  BY <1>3, <1>5
<1>7. CASE KeyError(w)
  <2>1. UNCHANGED calls /\ Refuse(m, "error")
    BY <1>3, <1>7 DEF KeyError, Refuse
  <2> QED
    BY <1>1, <1>4, <2>1, TurnedAwayServes DEF OwnInv, TypeInv
<1>8. CASE Deliver(w)
  <2>1. PICK a \in {"result", "error"} : replies' = [replies EXCEPT ![m] = Append(@, a)]
    BY <1>3, <1>8 DEF Deliver
  <2>2. replies' = [replies EXCEPT ![m] = <<a>>]
    BY <1>5, <2>1
  <2>3. calls' = [calls EXCEPT ![m] = 1]
    BY <1>3, <1>8, <1>6 DEF Deliver
  <2>4. Service!Serve(m)
    BY <1>1, <1>5, <2>2, <2>3 DEF Service!Serve, Phase
  <2> QED
    BY <2>4 DEF ServiceStep, Service!Next
<1>9. CASE Abandon(w)
  <2>1. UNCHANGED replies /\ ctxDone[m] /\ calls' = [calls EXCEPT ![m] = 1]
    BY <1>3, <1>9, <1>6 DEF Abandon
  <2>2. Service!ServeNobody(m)
    BY <1>1, <1>5, <2>1 DEF Service!ServeNobody, Phase
  <2> QED
    BY <2>2 DEF ServiceStep, Service!Next
<1> QED
  BY <1>7, <1>8, <1>9

LEMMA ServiceInit == Init => Service!Init
  BY DEF Init, Service!Init

LEMMA ServiceNext == OwnInv /\ [Next]_vars => ServiceStep
<1> SUFFICES ASSUME OwnInv, [Next]_vars PROVE ServiceStep
  OBVIOUS
<1>1. ASSUME NEW r \in Requests, Client(r) PROVE ServiceStep
  BY <1>1, ApproachServes, RefusedServes, EnqueueServes, WaitServes DEF Client
<1>2. ASSUME NEW w \in Workers, Work(w) \/ StartWorker(w) PROVE ServiceStep
  BY <1>2, AdminServes, SweepServes, JobServes DEF Work
<1>3. ASSUME Update PROVE ServiceStep
  BY <1>3, AdminServes, TransferFullServes, SweepServes DEF Update
<1>4. ASSUME NEW g \in Gens, Sweep(g) PROVE ServiceStep
  BY <1>4, AdminServes, SweepServes DEF Sweep
<1>5. ASSUME RemoveAbsent \/ RemoveLock \/ Remove PROVE ServiceStep
  BY <1>5, AdminServes, SweepServes DEF Remove
<1>6. ASSUME ShutdownBegin \/ Shutdown PROVE ServiceStep
  BY <1>6, AdminServes, SweepServes DEF Shutdown
<1>7. ASSUME Instantiated \/ UpdateBegin \/ UNCHANGED vars PROVE ServiceStep
  BY <1>7, AdminServes
<1> QED
  BY <1>1, <1>2, <1>3, <1>4, <1>5, <1>6, <1>7, CancelServes DEF Next

(* tryRequest, tryStreamRequest, the workers and the administration        *)
(* together keep RequestService's promise.                                 *)
THEOREM Implements == Spec => ImplementsService
<1>1. Init => Service!Init
  BY ServiceInit
<1>2. OwnInv /\ [Next]_vars => [Service!Next]_(Service!vars)
  BY ServiceNext DEF ServiceStep
<1> QED
  BY <1>1, <1>2, Ownership, PTL DEF Spec, ImplementsService, Service!Spec
=============================================================================
