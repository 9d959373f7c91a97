------------------------------ MODULE StreamGate ------------------------------
(***************************************************************************)
(* The pause/resume/end gate of one streaming response: the provider's     *)
(* goroutine (GateSendChunk and CloseStream in core/providers/utils), the  *)
(* gate and its flusher goroutine (framework/streaming/gate.go), the       *)
(* reaping of the accumulator that carries the gate                        *)
(* (framework/streaming/accumulator.go), and a plugin that pauses, resumes *)
(* and ends the stream at any time.                                        *)
(*                                                                         *)
(* The accumulator map has at most one entry for the stream, but whoever   *)
(* uses it after it was reaped creates another: a gate is one              *)
(* StreamAccumulator, and current is the map entry (0: none).              *)
(***************************************************************************)
EXTENDS Naturals, Sequences

CONSTANTS
    MaxChunks,  \* bound: the chunks a provider sends at most
    Cap,        \* how many chunks the replay buffer holds (100 MB)
    MaxOps,     \* bound: how often the plugin calls PauseStream, ...
    MaxGates,   \* bound: accumulators created (never more than 3)
    Reaps       \* whether a post-hook reaps the accumulator at the last chunk

ASSUME GateAssumption ==
    /\ {MaxChunks, Cap} \subseteq Nat \ {0}
    /\ MaxGates \in Nat /\ MaxGates > 2
    /\ MaxOps \in Nat
    /\ Reaps \subseteq BOOLEAN /\ Reaps # {}

Gates  == 1..MaxGates
Chunks == 1..MaxChunks
Error  == MaxChunks + 1   \* the chunk made of EndStream's error
None   == MaxChunks + 2

VARIABLES
    gate,       \* the gates
    current,    \* the streamAccumulators entry
    made,       \* gates created so far
    gated,      \* UnifAIContextKeyStreamGated
    prod,       \* step of the provider's goroutine
    chunk,      \* the chunk it is at
    final,      \* that chunk ends the stream
    via,        \* the accumulator it has looked up
    ctl, op, at,  \* the plugin: step, call, accumulator looked up
    ops,        \* calls made
    ctxDone,    \* the request's context has ended
    closed,     \* the response channel is closed
    completed,  \* the transport's trace completer has run
    delivered,  \* what was sent into the response channel
    cut,        \* history: the chunk the provider was at when EndStream ended it
    spared      \* history: the chunks being sent when the gate was paused

prodVars == <<prod, chunk, final, via>>
ctlVars  == <<ctl, op, at, ops>>
mapVars  == <<gate, current, made>>
histVars == <<cut, spared>>
vars == <<mapVars, gated, prodVars, ctlVars, ctxDone, closed, completed,
          delivered, histVars>>

NewGate == [state |-> "active", buf |-> <<>>, terminal |-> FALSE,
            error |-> FALSE, cached |-> FALSE, flusher |-> "none",
            hand |-> None, reap |-> FALSE]

TypeOK ==
    /\ gate \in [Gates ->
          [state : {"active", "paused", "ended"}, buf : Seq(Chunks),
           terminal : BOOLEAN, error : BOOLEAN, cached : BOOLEAN,
           flusher : {"none", "wait", "check", "send", "error", "exit",
                      "exited"},
           hand : Chunks \cup {None}, reap : BOOLEAN]]
    /\ current \in 0..MaxGates /\ made \in 0..MaxGates
    /\ {gated, final, ctxDone, closed, completed} \subseteq BOOLEAN
    /\ prod \in {"next", "hooks", "choose", "direct", "gate", "closing", "end",
                 "wait", "drain", "done"}
    /\ chunk \in 0..MaxChunks /\ via \in 0..MaxGates
    /\ ctl \in {"idle", "engaged", "found"} /\ at \in 0..MaxGates
    /\ op \in {"pause", "resume", "end", "fail"} /\ ops \in 0..MaxOps
    /\ delivered \in Seq(Chunks \cup {Error})
    /\ cut \in Chunks \cup {0, None} /\ spared \subseteq Chunks

(* A plugin's pre-hook has created the accumulator.                        *)
Init ==
    /\ gate = [g \in Gates |-> NewGate]
    /\ current = 1 /\ made = 1
    /\ gated = FALSE
    /\ prod = "next" /\ chunk = 0 /\ final = FALSE /\ via = 0
    /\ ctl = "idle" /\ op = "pause" /\ at = 0 /\ ops = 0
    /\ ctxDone = FALSE /\ closed = FALSE /\ completed = FALSE
    /\ delivered = <<>>
    /\ cut = None /\ spared = {}

-----------------------------------------------------------------------------
(* getOrCreateStreamAccumulator.                                           *)
Found == IF current = 0 THEN made + 1 ELSE current
Find  == current' = Found /\ made' = IF current = 0 THEN made + 1 ELSE made

FlusherOn(g) == gate[g].flusher \notin {"none", "exited"}

(* The flusher starts unless it is running: gateFlusherOn = true.          *)
Started(gt) == [gt EXCEPT !.flusher = IF @ \in {"none", "exited"} THEN "wait" ELSE @]

Set(g, gt) == gate' = [gate EXCEPT ![g] = gt]

(* Variant: the accumulator is deleted although its gate is busy. *)
ReapAtOnce ==
    current' = 0 /\ UNCHANGED <<gate, made>>

(* cleanupStreamAccumulator(id, false), deferred while the gate is busy.   *)
Reap ==
    IF current = 0 THEN UNCHANGED mapVars
    ELSE IF FlusherOn(current) \/ gate[current].state = "paused"
    THEN Set(current, [gate[current] EXCEPT !.reap = TRUE]) /\ UNCHANGED <<current, made>>
    ELSE current' = 0 /\ UNCHANGED <<gate, made>>

(* sendOrCancel: a send into a closed channel panics and is recovered; the *)
(* channel's buffer and a slow reader only delay a send.                   *)
Send(c)   == ~closed /\ delivered' = Append(delivered, c)
Unsent    == (ctxDone \/ closed) /\ UNCHANGED delivered

-----------------------------------------------------------------------------
(* The provider's goroutine.                                               *)

(* The next chunk; the last one may be an error or the answer to the end   *)
(* of the context.                                                         *)
NextChunk ==
    /\ prod = "next"
    /\ chunk' = chunk + 1
    /\ final' \in IF chunk + 1 = MaxChunks THEN {TRUE} ELSE BOOLEAN
    /\ prod' = IF final' THEN "hooks" ELSE "choose"
    /\ UNCHANGED <<mapVars, gated, via, ctlVars, ctxDone, closed, completed,
                   delivered, histVars>>

(* The post-hooks of the last chunk: CleanupStreamAccumulator drops the    *)
(* last reference.                                                         *)
FinalHooks ==
    /\ prod = "hooks"
    /\ \/ TRUE \in Reaps /\ Reap
       \/ FALSE \in Reaps /\ UNCHANGED mapVars
    /\ prod' = "choose"
    /\ UNCHANGED <<gated, chunk, final, via, ctlVars, ctxDone, closed, completed,
                   delivered, histVars>>

(* GateSendChunk: past the gate unless a plugin has engaged it.            *)
Choose ==
    /\ prod = "choose"
    /\ IF gated THEN prod' = "gate" /\ via' = Found /\ Find /\ UNCHANGED gate
       ELSE prod' = "direct" /\ UNCHANGED <<mapVars, via>>
    /\ UNCHANGED <<gated, chunk, final, ctlVars, ctxDone, closed, completed,
                   delivered, histVars>>

(* Variant: the provider reads on after the last chunk. *)
AfterAnyChunk == prod' = "next"

AfterChunk == prod' = IF final THEN "closing" ELSE "next"

Direct ==
    /\ prod = "direct"
    /\ Send(chunk) \/ Unsent
    /\ AfterChunk
    /\ UNCHANGED <<mapVars, gated, chunk, final, via, ctlVars, ctxDone, closed,
                   completed, histVars>>

(* What GateSend does with the chunk, given the gate it has locked.        *)
Appended(gt)   == [gt EXCEPT !.buf = Append(@, chunk)]
Overflowed(gt) == Started([gt EXCEPT !.state = "ended", !.error = TRUE])

(* Variant: the last chunk only looks at the buffer. *)
BusyBuffer(gt) == gt.buf # <<>>

(* Chunks are still to be delivered before the last one.                   *)
Busy(gt) == gt.flusher \notin {"none", "exited"} \/ gt.buf # <<>>

Buffer(gt) ==
    /\ Set(via, gt)
    /\ AfterChunk

PassThrough(gt) ==
    /\ Set(via, gt)
    /\ prod' = "direct"

(* Variant: an ended gate is not looked at. *)
GateSendEnded(gt) == gt.state = "ended" /\ PassThrough(gt)

GateDrops(gt) == gt.state = "ended" /\ Buffer(gt)

GateHolds(gt) ==
    /\ gt.state = "paused"
    /\ IF Len(gt.buf) >= Cap THEN Buffer(Overflowed(gt))
       ELSE Buffer(Started([Appended(gt) EXCEPT !.terminal = @ \/ final]))

GateFinal(gt) ==
    /\ gt.state = "active" /\ final
    /\ IF Busy(gt) THEN Buffer([Appended(gt) EXCEPT !.state = "ended"])
       ELSE PassThrough([gt EXCEPT !.state = "ended"])

GateLive(gt) ==
    /\ gt.state = "active" /\ ~final
    /\ IF gt.buf # <<>> THEN Buffer(Appended(gt)) ELSE PassThrough(gt)

GateSend ==
    /\ prod = "gate"
    /\ LET gt == [gate[via] EXCEPT !.cached = TRUE]
       IN  GateDrops(gt) \/ GateHolds(gt) \/ GateFinal(gt) \/ GateLive(gt)
    /\ UNCHANGED <<current, made, gated, chunk, final, via, ctlVars, ctxDone,
                   closed, completed, delivered, histVars>>

(* End: an error, or buffered chunks, need a flusher to reach the client.  *)
Ended(gt, failed) ==
    LET g1 == [gt EXCEPT !.state = "ended", !.error = @ \/ failed]
    IN  IF gt.state = "ended" THEN gt
        ELSE IF g1.cached /\ (g1.buf # <<>> \/ g1.error) THEN Started(g1) ELSE g1

(* CloseStream.                                                            *)
Close ==
    /\ closed' = TRUE /\ prod' = "done"

CloseUngated ==
    /\ prod = "closing" /\ ~gated
    /\ Close
    /\ UNCHANGED <<mapVars, gated, chunk, final, via, ctlVars, ctxDone, completed,
                   delivered, histVars>>

CloseFind ==
    /\ prod = "closing" /\ gated
    /\ Find /\ via' = Found /\ prod' = "end"
    /\ UNCHANGED <<gate, gated, chunk, final, ctlVars, ctxDone, closed, completed,
                   delivered, histVars>>

(* Variant: does not end the gate before it waits. *)
CloseWithoutEnd ==
    /\ prod = "end"
    /\ prod' = "wait"
    /\ UNCHANGED <<mapVars, gated, chunk, final, via, ctlVars, ctxDone, closed,
                   completed, delivered, histVars>>

CloseEnd ==
    /\ prod = "end"
    /\ Set(via, Ended(gate[via], FALSE)) /\ prod' = "wait"
    /\ UNCHANGED <<current, made, gated, chunk, final, via, ctlVars, ctxDone,
                   closed, completed, delivered, histVars>>

(* WaitForFlusher looks the accumulator up again, without creating one.    *)
CloseWait ==
    /\ prod = "wait"
    /\ IF current # 0 /\ FlusherOn(current)
       THEN prod' = "drain" /\ via' = current /\ UNCHANGED closed
       ELSE Close /\ UNCHANGED via
    /\ UNCHANGED <<mapVars, gated, chunk, final, ctlVars, ctxDone, completed,
                   delivered, histVars>>

CloseDrained ==
    /\ prod = "drain" /\ gate[via].flusher = "exited"
    /\ Close
    /\ UNCHANGED <<mapVars, gated, chunk, final, via, ctlVars, ctxDone, completed,
                   delivered, histVars>>

Provider == \/ NextChunk \/ FinalHooks \/ Choose \/ Direct \/ GateSend
            \/ CloseUngated \/ CloseFind \/ CloseEnd \/ CloseWait \/ CloseDrained

-----------------------------------------------------------------------------
(* The flusher.  It sends without the lock and takes it for each check.    *)

FlushStep(g, gt) ==
    /\ Set(g, gt)
    /\ UNCHANGED <<current, made, gated, prodVars, ctlVars, ctxDone, closed,
                   completed, histVars>>

(* gateCond.Wait.                                                          *)
FlusherWakes(g) ==
    /\ gate[g].flusher = "wait"
    /\ \/ gate[g].state = "ended"
       \/ gate[g].state = "active" /\ gate[g].buf # <<>>
    /\ FlushStep(g, [gate[g] EXCEPT !.flusher = "check"])
    /\ UNCHANGED delivered

(* Variant: goes on draining a paused gate. *)
DrainsPaused(g) == gate[g].buf # <<>>

Drains(g) == gate[g].state # "paused" /\ gate[g].buf # <<>>

(* Variant: the chunk stays in the buffer while it is sent. *)
FlusherPeeks(g) ==
    /\ gate[g].flusher = "check" /\ Drains(g)
    /\ FlushStep(g, [gate[g] EXCEPT !.flusher = "send", !.hand = Head(gate[g].buf)])
    /\ UNCHANGED delivered

FlusherTakes(g) ==
    /\ gate[g].flusher = "check" /\ Drains(g)
    /\ FlushStep(g, [gate[g] EXCEPT !.flusher = "send", !.hand = Head(gate[g].buf),
                                    !.buf = Tail(@)])
    /\ UNCHANGED delivered

FlusherSends(g) ==
    /\ gate[g].flusher = "send"
    /\ \/ /\ Send(gate[g].hand)
          /\ FlushStep(g, [gate[g] EXCEPT !.flusher = "check", !.hand = None])
       \/ /\ Unsent
          /\ FlushStep(g, [gate[g] EXCEPT !.flusher = "check", !.hand = None,
                                          !.buf = <<>>, !.state = "ended"])

(* The end of a drain: a last chunk that came while the gate was paused    *)
(* ends it now.                                                            *)
FlusherDrained(g) ==
    /\ gate[g].flusher = "check" /\ ~Drains(g)
    /\ LET last == gate[g].terminal /\ gate[g].state = "active"
           gt == IF last THEN [gate[g] EXCEPT !.state = "ended", !.terminal = FALSE]
                 ELSE gate[g]
       IN  FlushStep(g, [gt EXCEPT !.flusher =
               IF gt.state # "ended" THEN "wait"
               ELSE IF gt.error THEN "error" ELSE "exit"])
    /\ UNCHANGED delivered

FlusherSendsError(g) ==
    /\ gate[g].flusher = "error"
    /\ Send(Error) \/ Unsent
    /\ FlushStep(g, [gate[g] EXCEPT !.flusher = "exit", !.error = FALSE])

(* The deferred function: a reaping that was put off is done now.          *)
FlusherExits(g) ==
    /\ gate[g].flusher = "exit"
    /\ LET busy == /\ current \notin {0, g}
                   /\ FlusherOn(current) \/ gate[current].state = "paused"
           left == [gate EXCEPT ![g].flusher = "exited"]
       IN  IF ~gate[g].reap THEN gate' = left /\ UNCHANGED current
           ELSE IF busy
           THEN gate' = [left EXCEPT ![current].reap = TRUE] /\ UNCHANGED current
           ELSE gate' = left /\ current' = 0
    /\ UNCHANGED <<made, gated, prodVars, ctlVars, ctxDone, closed, completed,
                   delivered, histVars>>

Flusher(g) == \/ FlusherWakes(g) \/ FlusherTakes(g) \/ FlusherSends(g)
              \/ FlusherDrained(g) \/ FlusherSendsError(g) \/ FlusherExits(g)

-----------------------------------------------------------------------------
(* A plugin's PauseStream, ResumeStream and EndStream.                     *)

Engage ==
    /\ ctl = "idle" /\ ops < MaxOps
    /\ op' \in {"pause", "resume", "end", "fail"}
    /\ ops' = ops + 1 /\ gated' = TRUE /\ ctl' = "engaged"
    /\ UNCHANGED <<mapVars, prodVars, at, ctxDone, closed, completed, delivered,
                   histVars>>

LookUp ==
    /\ ctl = "engaged"
    /\ Find /\ at' = Found /\ ctl' = "found"
    /\ UNCHANGED <<gate, gated, prodVars, op, ops, ctxDone, closed, completed,
                   delivered, histVars>>

Applied ==
    /\ ctl = "found" /\ ctl' = "idle"
    /\ UNCHANGED <<current, made, gated, prodVars, op, at, ops, ctxDone, closed,
                   completed, delivered>>

(* What is being sent into the channel.                                    *)
InFlight == (IF prod = "direct" THEN {chunk} ELSE {})
            \cup {gate[g].hand : g \in {h \in Gates : gate[h].flusher = "send"}}

Pause ==
    /\ op = "pause" /\ Applied
    /\ IF gate[at].state = "active"
       THEN Set(at, [gate[at] EXCEPT !.state = "paused"]) /\ spared' = InFlight
       ELSE UNCHANGED <<gate, spared>>
    /\ UNCHANGED cut

Resume ==
    /\ op = "resume" /\ Applied
    /\ IF gate[at].state = "paused"
       THEN Set(at, [gate[at] EXCEPT !.state = "active"])
       ELSE UNCHANGED gate
    /\ UNCHANGED histVars

EndByPlugin ==
    /\ op \in {"end", "fail"} /\ Applied
    /\ Set(at, Ended(gate[at], op = "fail"))
    /\ cut' = IF cut = None THEN chunk ELSE cut
    /\ UNCHANGED spared

Plugin == LookUp \/ Pause \/ Resume \/ EndByPlugin

-----------------------------------------------------------------------------
(* The transport and the client.                                           *)

Cancel ==
    /\ ~ctxDone /\ ~closed
    /\ ctxDone' = TRUE
    /\ UNCHANGED <<mapVars, gated, prodVars, ctlVars, closed, completed, delivered,
                   histVars>>

(* ForceCleanupStreamAccumulator, when the stream is drained or abandoned: *)
(* what is buffered is dropped.                                            *)
Complete ==
    /\ ~completed /\ (closed \/ ctxDone)
    /\ completed' = TRUE
    /\ current' = 0
    /\ IF current = 0 \/ gate[Found].state = "ended" THEN UNCHANGED gate
       ELSE Set(current, [gate[current] EXCEPT !.state = "ended", !.buf = <<>>,
                                               !.terminal = FALSE, !.error = FALSE])
    /\ UNCHANGED <<made, gated, prodVars, ctlVars, ctxDone, closed, delivered,
                   histVars>>

Next == \/ Provider \/ (\E g \in Gates : Flusher(g)) \/ Engage \/ Plugin
        \/ Cancel \/ Complete

Spec == Init /\ [][Next]_vars

-----------------------------------------------------------------------------
DeliveredSet == {delivered[i] : i \in 1..Len(delivered)}

(* "Any chunks buffered while paused (including a terminal chunk that      *)
(* arrived during pause) reach the consumer before EOS": when the channel  *)
(* is closed, a live client has got every chunk of a stream that no plugin *)
(* ended, or the error that says the replay buffer overflowed.             *)
NothingDropped ==
    closed /\ ~ctxDone /\ cut = None =>
        1..chunk \subseteq DeliveredSet \/ Error \in DeliveredSet

(* Neither a flusher next to the live path, nor a reaped accumulator, nor  *)
(* an overflow delivers a chunk twice to a client that is still there; nor *)
(* is the terminal error, until the last chunk's post-hooks have run:      *)
(* EndStream, "idempotent", may then meet a new gate.                      *)
OnceOnly ==
    ~ctxDone => \A i, j \in 1..Len(delivered) :
        delivered[i] = delivered[j] /\ (final => delivered[i] # Error) => i = j

(* "The final chunk is appended so it's delivered after pending chunks":   *)
(* no chunk of the provider follows the stream's last one to a live client.*)
FinalIsLast ==
    ~ctxDone => \A i \in 1..Len(delivered) :
        final /\ delivered[i] = chunk =>
            \A j \in (i + 1)..Len(delivered) : delivered[j] = Error

(* "After EndStream, all further provider chunks are dropped", but for the *)
(* very last chunk of the stream, which finds a new, active gate when the  *)
(* post-hooks that see it have reaped the ended one, and for what is sent  *)
(* to a client that is gone.                                               *)
EndDropsLater ==
    ~ctxDone => \A i \in 1..Len(delivered) :
        cut # None /\ cut < delivered[i] =>
            delivered[i] = Error \/ (final /\ delivered[i] = chunk)

(* What the client receives: every chunk, once, and nothing after the end. *)
StreamIsWhole == NothingDropped /\ OnceOnly /\ FinalIsLast /\ EndDropsLater

(* "While paused, chunks are buffered (not delivered)": what reaches the   *)
(* client while the gate is paused was being sent when the pause began,    *)
(* unless the plugin pauses a stream that it has ended.                    *)
PauseHolds ==
    [][/\ delivered' # delivered /\ ~ctxDone /\ cut = None
       /\ current # 0 /\ gate[current].state = "paused"
       => delivered'[Len(delivered')] \in spared]_vars

(* The provider's goroutine never waits for a flusher that waits for a     *)
(* plugin, and no flusher is left waiting when the channel is closed, even *)
(* if nobody resumes what was paused.  (When the client has left, a pause  *)
(* can reach an accumulator that nobody will look up, and end, again.)     *)
FlushersRelease ==
    \A g \in Gates :
        /\ gate[g].flusher = "wait"
        /\ (prod = "drain" /\ via = g) \/ (closed /\ ~ctxDone)
        => gate[g].state = "ended"

(* "Buffered chunks are flushed to the client in order, then live          *)
(* streaming continues", and EndStream's error "is then delivered as a     *)
(* terminal error chunk".                                                  *)
InOrder ==
    \A i, j \in 1..Len(delivered) : i < j => delivered[i] < delivered[j]
=============================================================================
