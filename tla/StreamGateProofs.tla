-------------------------- MODULE StreamGateProofs --------------------------
(***************************************************************************)
(* What StreamGate promises for any number of chunks and plugin calls, and *)
(* any size of the replay buffer: its types, that the stream is whole, that*)
(* a pause holds, and that no flusher is left waiting.                     *)
(***************************************************************************)
EXTENDS StreamGate, TLAPS

Live  == ~ctxDone /\ ~closed
Ready == prod \in {"hooks", "choose", "gate", "direct"}
Loaded(g) == {gate[g].buf[i] : i \in 1..Len(gate[g].buf)}

(***************************************************************************)
(* The gates.                                                              *)
(***************************************************************************)
(* What a flusher does and leaves.  Once it has left its loop the gate has *)
(* ended, is empty and stays so.                                           *)
Shape(g) ==
    /\ gate[g].flusher # "send" => gate[g].hand = None
    /\ gate[g].flusher = "send" => gate[g].hand \in Chunks
    /\ gate[g].flusher \in {"error", "exit", "exited"} =>
          gate[g].state = "ended" /\ gate[g].buf = <<>>
    /\ gate[g].flusher \in {"exit", "exited"} => ~gate[g].error
    /\ gate[g].buf # <<>> => FlusherOn(g)
    /\ FlusherOn(g) => gate[g].cached

(* Nothing happens at a gate before a plugin has engaged it.               *)
Untouched(g) ==
    /\ gate[g].flusher = "none" /\ gate[g].state # "paused"
    /\ ~gate[g].cached /\ ~gate[g].error

Shaped ==
    /\ \A g \in Gates : Shape(g)
    /\ ~gated => /\ ctl = "idle" /\ prod \notin {"gate", "end", "wait", "drain"}
                 /\ \A g \in Gates : Untouched(g)

(* The reaping that was put off is one gate's.                             *)
Token(g) == gate[g].reap /\ gate[g].flusher # "exited"
Unreaped == ~final \/ prod = "hooks"
Reaping  == Unreaped \/ \E g \in Gates : Token(g)

(* The entry is deleted twice at most, by the reaping and by the           *)
(* transport's completion, so that three gates are created at most.        *)
Numbered ==
    /\ 1 <= made /\ current <= made /\ via <= made /\ at <= made
    /\ made <= (IF current = 0 THEN 0 ELSE 1) + (IF Reaping THEN 0 ELSE 1)
               + (IF completed THEN 1 ELSE 0)
    /\ \A g \in Gates : g > made => gate[g] = NewGate
    /\ Unreaped => \A g \in Gates : ~gate[g].reap
    /\ \A g, h \in Gates : Token(g) /\ Token(h) => g = h

(* Where the provider and the plugin are.                                  *)
Phases ==
    /\ ctl = "found" => at # 0
    /\ prod \in {"gate", "end", "wait", "drain"} => via # 0
    /\ prod = "next" => ~final
    /\ prod \in {"hooks", "closing", "end", "wait", "drain", "done"} => final
    /\ chunk = 0 => prod = "next"
    /\ chunk = MaxChunks => final
    /\ closed <=> prod = "done"
    /\ completed => closed \/ ctxDone

(* CloseStream has ended the gate that it waits for, and every other whose *)
(* flusher runs: one that is created meanwhile is never engaged.           *)
Closing ==
    /\ prod \in {"end", "wait", "drain"} =>
          current \in {0, via} \/ ~gate[current].cached
    /\ prod \in {"wait", "drain"} => gate[via].state = "ended"
    /\ ~ctxDone /\ prod \in {"wait", "drain", "done"} =>
          \A g \in Gates : FlusherOn(g) => gate[g].state = "ended"

(***************************************************************************)
(* The chunks, until the channel is closed or the client has left.         *)
(***************************************************************************)
(* What is held is in the current gate; one that was reaped has at most an *)
(* error to deliver, and drops what comes late.                            *)
Stale ==
    Live =>
      /\ \A g \in Gates : g # current =>
            /\ gate[g].buf = <<>> /\ gate[g].flusher # "send" /\ ~Token(g)
            /\ FlusherOn(g) => gate[g].state = "ended"
      /\ prod \in {"gate", "end"} => via = current \/ gate[via].state = "ended"

(* No chunk is ahead of the provider.                                      *)
Behind ==
    /\ \A i \in 1..Len(delivered) : delivered[i] = Error \/ delivered[i] <= chunk
    /\ \A g \in Gates :
          /\ \A i \in 1..Len(gate[g].buf) : gate[g].buf[i] <= chunk
          /\ gate[g].flusher = "send" => gate[g].hand <= chunk

(* A chunk is in one place: with the provider, in a buffer, in a flusher's *)
(* hand, or delivered.                                                     *)
Apart ==
    Live =>
      /\ \A i, j \in 1..Len(delivered) :
            delivered[i] = delivered[j] /\ delivered[i] # Error => i = j
      /\ \A g \in Gates :
            /\ \A i \in 1..Len(gate[g].buf) :
                  /\ gate[g].buf[i] \notin DeliveredSet
                  /\ gate[g].flusher = "send" => gate[g].hand < gate[g].buf[i]
                  /\ \A j \in 1..Len(gate[g].buf) :
                        i < j => gate[g].buf[i] < gate[g].buf[j]
            /\ gate[g].flusher = "send" => gate[g].hand \notin DeliveredSet
      /\ Ready =>
            /\ chunk \notin DeliveredSet
            /\ \A g \in Gates : chunk \notin Loaded(g) /\ gate[g].hand # chunk

(* Before the last chunk there is one gate, which sends one error.         *)
ErrorOnce ==
    Live /\ ~final =>
      /\ Error \in DeliveredSet => gate[1].flusher \in {"exit", "exited"}
      /\ \A i, j \in 1..Len(delivered) :
            delivered[i] = Error /\ delivered[j] = Error => i = j

(* When the last chunk is on its way the others have been delivered or     *)
(* dropped.                                                                *)
LastSent == \/ prod = "direct" \/ chunk \in DeliveredSet
            \/ \E g \in Gates : gate[g].hand = chunk
LastAlone ==
    Live /\ final /\ LastSent =>
      \A g \in Gates : gate[g].buf = <<>> /\ gate[g].hand \in {None, chunk}

(* After EndStream only the last chunk can still enter a gate.             *)
CutOff(c) == c > cut => final /\ c = chunk
CutHolds ==
    Live /\ cut # None =>
      /\ gated
      /\ Unreaped => gate[1].state = "ended"
      /\ \A i \in 1..Len(delivered) : delivered[i] # Error => CutOff(delivered[i])
      /\ \A g \in Gates :
            /\ \A i \in 1..Len(gate[g].buf) : CutOff(gate[g].buf[i])
            /\ gate[g].flusher = "send" => CutOff(gate[g].hand)
      /\ prod = "direct" => CutOff(chunk)

(* While no plugin has ended the stream: nothing is dropped without an     *)
(* error, and a pause holds.                                               *)
Failing == Error \in DeliveredSet \/ \E g \in Gates : gate[g].error
Somewhere(c) == \/ Ready /\ c = chunk
                \/ c \in DeliveredSet
                \/ \E g \in Gates : c \in Loaded(g) \/ gate[g].hand = c
Uncut ==
    Live /\ cut = None =>
      /\ \A g \in Gates :
            /\ FlusherOn(g) => g = current
            /\ gate[g].error => FlusherOn(g)
            /\ gate[g].terminal => prod \in {"closing", "end", "wait", "drain"}
            /\ /\ gate[g].state = "ended"
               /\ \/ prod \in {"next", "hooks", "choose", "gate"}
                  \/ prod = "direct" /\ ~final
               => Failing
      /\ Failing \/ \A c \in 1..chunk : Somewhere(c)
Paused ==
    Live /\ cut = None /\ current # 0 /\ gate[current].state = "paused"
      => InFlight \subseteq spared

IInv ==
    /\ TypeOK /\ Shaped /\ Numbered /\ Phases /\ Closing
    /\ Behind /\ Stale /\ Apart /\ ErrorOnce /\ LastAlone /\ CutHolds /\ Uncut /\ Paused
    /\ StreamIsWhole

USE DEF prodVars, ctlVars, mapVars, histVars

-----------------------------------------------------------------------------
(* The chunks are numbers; the error and no chunk are two further ones.    *)
LEMMA Numbers ==
  /\ MaxChunks \in Nat /\ MaxChunks > 0 /\ Cap \in Nat /\ MaxGates \in Nat /\ MaxGates > 2
  /\ \A c : c \in Chunks <=> c \in Nat /\ 1 <= c /\ c <= MaxChunks
  /\ Error \in Nat /\ None \in Nat /\ Error > MaxChunks /\ None > MaxChunks
  /\ Error \notin Chunks /\ None \notin Chunks /\ Error # None
  /\ \A g : g \in Gates <=> g \in Nat /\ 1 <= g /\ g <= MaxGates
  BY GateAssumption DEF Chunks, Error, None, Gates

(* What appending and taking do to a sequence.                             *)
LEMMA AppendGives ==
  ASSUME NEW S, NEW s \in Seq(S), NEW e \in S
  PROVE  /\ Append(s, e) \in Seq(S) /\ Append(s, e) # <<>>
         /\ Len(s) \in Nat /\ Len(Append(s, e)) = Len(s) + 1
         /\ \A i \in 1..Len(s) : Append(s, e)[i] = s[i]
         /\ Append(s, e)[Len(s) + 1] = e
  OBVIOUS

(* What taking the first element leaves of a sequence.                     *)
LEMMA TailGives ==
  ASSUME NEW S, NEW s \in Seq(S), s # <<>>
  PROVE  /\ Head(s) \in S /\ Tail(s) \in Seq(S) /\ Head(s) = s[1]
         /\ Len(s) \in Nat /\ Len(s) > 0 /\ Len(Tail(s)) = Len(s) - 1
         /\ \A i \in 1..(Len(s) - 1) : Tail(s)[i] = s[i + 1]
<1>1. Len(s) \in Nat /\ Len(s) > 0
  OBVIOUS
<1> QED
  BY <1>1

(* A buffer is empty or has a first chunk.                                 *)
LEMMA EmptyOrNot ==
  ASSUME NEW S, NEW s \in Seq(S)
  PROVE  /\ Len(s) \in Nat /\ (s = <<>> <=> Len(s) = 0)
         /\ \A i \in 1..Len(s) : s[i] \in S
  OBVIOUS

-----------------------------------------------------------------------------
(* A gate's fields, and a step that changes one gate.                      *)
GateRec ==
    [state : {"active", "paused", "ended"}, buf : Seq(Chunks),
     terminal : BOOLEAN, error : BOOLEAN, cached : BOOLEAN,
     flusher : {"none", "wait", "check", "send", "error", "exit", "exited"},
     hand : Chunks \cup {None}, reap : BOOLEAN]

(* The step leaves every other gate alone and gives this one the fields.   *)
Turns(g, s, b, t, e, c, f, h, r) ==
    /\ gate' \in [Gates -> GateRec]
    /\ \A k \in Gates : k # g => gate'[k] = gate[k]
    /\ gate'[g].state = s /\ gate'[g].buf = b /\ gate'[g].hand = h
    /\ (gate'[g].terminal <=> t) /\ (gate'[g].error <=> e)
    /\ (gate'[g].cached <=> c) /\ (gate'[g].reap <=> r)
    /\ gate'[g].flusher = f

(* The flusher's step once it is started.                                  *)
On(f) == IF f \in {"none", "exited"} THEN "wait" ELSE f

(* The fields of a gate, each with its type.                               *)
LEMMA GateFields ==
  ASSUME gate \in [Gates -> GateRec], NEW g \in Gates
  PROVE  /\ gate[g] \in GateRec
         /\ gate[g].state \in {"active", "paused", "ended"}
         /\ gate[g].buf \in Seq(Chunks)
         /\ gate[g].terminal \in BOOLEAN /\ gate[g].error \in BOOLEAN
         /\ gate[g].cached \in BOOLEAN /\ gate[g].reap \in BOOLEAN
         /\ gate[g].flusher \in {"none", "wait", "check", "send", "error", "exit", "exited"}
         /\ gate[g].hand \in Chunks \cup {None}
  BY DEF GateRec

(* Setting a gate to a record changes that gate to its fields.             *)
LEMMA SetTurns ==
  ASSUME gate \in [Gates -> GateRec], NEW g \in Gates, NEW x \in GateRec, Set(g, x)
  PROVE  Turns(g, x.state, x.buf, x.terminal, x.error, x.cached, x.flusher, x.hand, x.reap)
  BY DEF Set, Turns

(* Starting a flusher changes nothing else of the gate.                    *)
LEMMA StartedFields ==
  ASSUME NEW x \in GateRec
  PROVE  /\ Started(x) \in GateRec
         /\ Started(x).state = x.state /\ Started(x).buf = x.buf
         /\ Started(x).terminal = x.terminal /\ Started(x).error = x.error
         /\ Started(x).cached = x.cached /\ Started(x).hand = x.hand
         /\ Started(x).reap = x.reap /\ Started(x).flusher = On(x.flusher)
  BY DEF Started, GateRec, On

(* What a call of the plugin or of CloseStream that ends a gate does.      *)
LEMMA EndedTurns ==
  ASSUME gate \in [Gates -> GateRec], NEW g \in Gates, NEW failed \in BOOLEAN,
         Set(g, Ended(gate[g], failed))
  PROVE  \/ gate[g].state = "ended" /\ gate' = gate
         \/ /\ gate[g].state # "ended"
            /\ Turns(g, "ended", gate[g].buf, gate[g].terminal, gate[g].error \/ failed,
                     gate[g].cached,
                     IF gate[g].cached /\ (gate[g].buf # <<>> \/ gate[g].error \/ failed)
                     THEN On(gate[g].flusher) ELSE gate[g].flusher,
                     gate[g].hand, gate[g].reap)
<1> DEFINE x == [gate[g] EXCEPT !.state = "ended", !.error = @ \/ failed]
<1>1. /\ x \in GateRec /\ x.state = "ended" /\ x.buf = gate[g].buf
      /\ x.terminal = gate[g].terminal /\ (x.error <=> gate[g].error \/ failed)
      /\ x.cached = gate[g].cached /\ x.hand = gate[g].hand
      /\ x.reap = gate[g].reap /\ x.flusher = gate[g].flusher
  <2>1. gate[g] \in GateRec
    OBVIOUS
  <2> QED
    BY <2>1 DEF GateRec
<1>2. CASE gate[g].state = "ended"
  BY <1>2 DEF Ended, Set
<1>3. CASE gate[g].state # "ended"
  <2>1. Ended(gate[g], failed) = IF x.cached /\ (x.buf # <<>> \/ x.error) THEN Started(x) ELSE x
    BY <1>3 DEF Ended
  <2> HIDE DEF x
  <2>2. CASE x.cached /\ (x.buf # <<>> \/ x.error)
    <3>1. Set(g, Started(x)) /\ Started(x) \in GateRec
      BY <2>1, <2>2, <1>1, StartedFields
    <3> HIDE <2>1
    <3>2. Turns(g, Started(x).state, Started(x).buf, Started(x).terminal, Started(x).error,
                Started(x).cached, Started(x).flusher, Started(x).hand, Started(x).reap)
      BY <3>1, SetTurns
    <3> QED
      BY <1>1, <1>3, <2>2, <3>2, StartedFields DEF Turns
  <2>3. CASE ~(x.cached /\ (x.buf # <<>> \/ x.error))
    <3>1. Turns(g, x.state, x.buf, x.terminal, x.error, x.cached, x.flusher, x.hand, x.reap)
      BY <1>1, <2>1, <2>3, SetTurns
    <3> QED
      BY <1>1, <1>3, <2>3, <3>1 DEF Turns
  <2> QED
    BY <2>2, <2>3
<1> QED
  BY <1>2, <1>3

(* What GateSend does with a chunk.                                        *)
LEMMA GateSendTurns ==
  ASSUME gate \in [Gates -> GateRec], via \in Gates, chunk \in Chunks, final \in BOOLEAN,
         GateSend
  PROVE  LET v == gate[via]
             Holds(s, t, f) == Turns(via, s, Append(v.buf, chunk), t, v.error, TRUE, f,
                                     v.hand, v.reap)
             Keeps(s, e, f) == Turns(via, s, v.buf, v.terminal, e, TRUE, f, v.hand, v.reap)
         IN  \/ v.state = "ended" /\ AfterChunk /\ Keeps("ended", v.error, v.flusher)
             \/ v.state = "paused" /\ AfterChunk /\ Keeps("ended", TRUE, On(v.flusher))
             \/ v.state = "paused" /\ AfterChunk /\ Holds("paused", v.terminal \/ final, On(v.flusher))
             \/ /\ v.state = "active" /\ final /\ AfterChunk
                /\ v.flusher \notin {"none", "exited"} \/ v.buf # <<>>
                /\ Holds("ended", v.terminal, v.flusher)
             \/ /\ v.state = "active" /\ final /\ prod' = "direct"
                /\ v.flusher \in {"none", "exited"} /\ v.buf = <<>>
                /\ Keeps("ended", v.error, v.flusher)
             \/ /\ v.state = "active" /\ ~final /\ AfterChunk /\ v.buf # <<>>
                /\ Holds("active", v.terminal, v.flusher)
             \/ /\ v.state = "active" /\ ~final /\ prod' = "direct" /\ v.buf = <<>>
                /\ Keeps("active", v.error, v.flusher)
<1> DEFINE gt == [gate[via] EXCEPT !.cached = TRUE]
<1>1. /\ gt \in GateRec /\ gt.state = gate[via].state /\ gt.buf = gate[via].buf
      /\ gt.terminal = gate[via].terminal /\ gt.error = gate[via].error
      /\ gt.cached = TRUE /\ gt.flusher = gate[via].flusher
      /\ gt.hand = gate[via].hand /\ gt.reap = gate[via].reap
  <2>1. gate[via] \in GateRec
    OBVIOUS
  <2> QED
    BY <2>1 DEF GateRec
<1>2. GateDrops(gt) \/ GateHolds(gt) \/ GateFinal(gt) \/ GateLive(gt)
  BY DEF GateSend
<1>3. ASSUME NEW x \in GateRec, Set(via, x)
      PROVE  Turns(via, x.state, x.buf, x.terminal, x.error, x.cached, x.flusher, x.hand, x.reap)
  BY <1>3, SetTurns
<1> HIDE DEF gt
<1>4. /\ Appended(gt) \in GateRec /\ Appended(gt).state = gt.state
      /\ Appended(gt).buf = Append(gt.buf, chunk) /\ Appended(gt).terminal = gt.terminal
      /\ Appended(gt).error = gt.error /\ Appended(gt).cached = gt.cached
      /\ Appended(gt).flusher = gt.flusher /\ Appended(gt).hand = gt.hand
      /\ Appended(gt).reap = gt.reap
  <2>1. Append(gt.buf, chunk) \in Seq(Chunks)
    BY <1>1, AppendGives DEF GateRec
  <2> QED
    BY <1>1, <2>1 DEF Appended, GateRec
<1>5. CASE GateDrops(gt)
  <2>1. gt.state = "ended" /\ Set(via, gt) /\ AfterChunk
    BY <1>5 DEF GateDrops, Buffer
  <2> QED
    BY <1>1, <1>3, <2>1 DEF Turns
<1>6. CASE GateHolds(gt)
  <2>1. CASE Len(gt.buf) >= Cap
    <3> DEFINE x == [gt EXCEPT !.state = "ended", !.error = TRUE]
    <3>1. /\ x \in GateRec /\ x.state = "ended" /\ x.buf = gt.buf /\ x.terminal = gt.terminal
          /\ x.error = TRUE /\ x.cached = gt.cached /\ x.flusher = gt.flusher
          /\ x.hand = gt.hand /\ x.reap = gt.reap
      BY <1>1 DEF GateRec
    <3>2. gt.state = "paused" /\ Set(via, Started(x)) /\ AfterChunk
      BY <1>6, <2>1 DEF GateHolds, Buffer, Overflowed
    <3> HIDE DEF x
    <3>3. Turns(via, Started(x).state, Started(x).buf, Started(x).terminal, Started(x).error,
                Started(x).cached, Started(x).flusher, Started(x).hand, Started(x).reap)
      BY <1>3, <3>1, <3>2, StartedFields
    <3>4. Turns(via, "ended", gate[via].buf, gate[via].terminal, TRUE, TRUE,
                On(gate[via].flusher), gate[via].hand, gate[via].reap)
      BY <1>1, <3>1, <3>3, StartedFields DEF Turns
    <3> QED
      BY <1>1, <3>2, <3>4
  <2>2. CASE ~(Len(gt.buf) >= Cap)
    <3> DEFINE a == Appended(gt)
               x == [a EXCEPT !.terminal = @ \/ final]
    <3>1. /\ x \in GateRec /\ x.state = a.state /\ x.buf = a.buf
          /\ (x.terminal <=> a.terminal \/ final)
          /\ x.error = a.error /\ x.cached = a.cached /\ x.flusher = a.flusher
          /\ x.hand = a.hand /\ x.reap = a.reap
      <4>1. a \in GateRec
        BY <1>4
      <4> HIDE DEF a
      <4> QED
        BY <4>1 DEF GateRec
    <3>2. gt.state = "paused" /\ Set(via, Started(x)) /\ AfterChunk
      BY <1>6, <2>2 DEF GateHolds, Buffer
    <3> HIDE DEF x
    <3>3. Turns(via, Started(x).state, Started(x).buf, Started(x).terminal, Started(x).error,
                Started(x).cached, Started(x).flusher, Started(x).hand, Started(x).reap)
      BY <1>3, <3>1, <3>2, StartedFields
    <3>4. Turns(via, "paused", Append(gate[via].buf, chunk), gate[via].terminal \/ final,
                gate[via].error, TRUE, On(gate[via].flusher), gate[via].hand, gate[via].reap)
      BY <1>1, <1>4, <3>1, <3>2, <3>3, StartedFields DEF Turns
    <3> QED
      BY <1>1, <3>2, <3>4
  <2> QED
    BY <2>1, <2>2
<1>7. CASE GateFinal(gt)
  <2> DEFINE a == Appended(gt)
             x == [a EXCEPT !.state = "ended"]
             y == [gt EXCEPT !.state = "ended"]
  <2>1. /\ x \in GateRec /\ x.state = "ended" /\ x.buf = a.buf /\ x.terminal = a.terminal
        /\ x.error = a.error /\ x.cached = a.cached /\ x.flusher = a.flusher
        /\ x.hand = a.hand /\ x.reap = a.reap
    <3>1. a \in GateRec
      BY <1>4
    <3> HIDE DEF a
    <3> QED
      BY <3>1 DEF GateRec
  <2>2. /\ y \in GateRec /\ y.state = "ended" /\ y.buf = gt.buf /\ y.terminal = gt.terminal
        /\ y.error = gt.error /\ y.cached = gt.cached /\ y.flusher = gt.flusher
        /\ y.hand = gt.hand /\ y.reap = gt.reap
    BY <1>1 DEF GateRec
  <2>3. /\ gt.state = "active" /\ final
        /\ \/ Busy(gt) /\ Set(via, x) /\ AfterChunk
           \/ ~Busy(gt) /\ Set(via, y) /\ prod' = "direct"
    BY <1>7 DEF GateFinal, Buffer, PassThrough
  <2> HIDE DEF x, y
  <2>4. CASE Busy(gt) /\ Set(via, x) /\ AfterChunk
    <3>1. Turns(via, x.state, x.buf, x.terminal, x.error, x.cached, x.flusher, x.hand, x.reap)
      BY <1>3, <2>1, <2>4
    <3>2. Turns(via, "ended", Append(gate[via].buf, chunk), gate[via].terminal,
                gate[via].error, TRUE, gate[via].flusher, gate[via].hand, gate[via].reap)
      BY <1>1, <1>4, <2>1, <3>1 DEF Turns
    <3> QED
      BY <1>1, <2>3, <2>4, <3>2 DEF Busy
  <2>5. CASE ~Busy(gt) /\ Set(via, y) /\ prod' = "direct"
    <3>1. Turns(via, y.state, y.buf, y.terminal, y.error, y.cached, y.flusher, y.hand, y.reap)
      BY <1>3, <2>2, <2>5
    <3> QED
      BY <1>1, <2>2, <2>3, <2>5, <3>1 DEF Busy, Turns
  <2> QED
    BY <2>3, <2>4, <2>5
<1>8. CASE GateLive(gt)
  <2>1. CASE gt.buf # <<>>
    <3>1. gt.state = "active" /\ ~final /\ Set(via, Appended(gt)) /\ AfterChunk
      BY <1>8, <2>1 DEF GateLive, Buffer
    <3> QED
      BY <1>1, <1>3, <1>4, <2>1, <3>1 DEF Turns
  <2>2. CASE gt.buf = <<>>
    <3>1. gt.state = "active" /\ ~final /\ Set(via, gt) /\ prod' = "direct"
      BY <1>8, <2>2 DEF GateLive, PassThrough
    <3> QED
      BY <1>1, <1>3, <2>2, <3>1 DEF Turns
  <2> QED
    BY <2>1, <2>2
<1> QED
  BY <1>2, <1>5, <1>6, <1>7, <1>8

(* What each step of a flusher does to its gate.                           *)
LEMMA FlusherTurns ==
  ASSUME gate \in [Gates -> GateRec], NEW g \in Gates
  PROVE  LET v == gate[g]
             Moves(f) == Turns(g, v.state, v.buf, v.terminal, v.error, v.cached, f, v.hand, v.reap)
         IN  /\ FlusherWakes(g) => Moves("check")
             /\ FlusherTakes(g) =>
                  Turns(g, v.state, Tail(v.buf), v.terminal, v.error, v.cached, "send",
                        Head(v.buf), v.reap)
             /\ FlusherSends(g) =>
                  \/ Send(v.hand) /\ Turns(g, v.state, v.buf, v.terminal, v.error, v.cached,
                                           "check", None, v.reap)
                  \/ Unsent /\ Turns(g, "ended", <<>>, v.terminal, v.error, v.cached,
                                     "check", None, v.reap)
             /\ FlusherDrained(g) =>
                  \/ v.state # "ended" /\ Moves("wait") /\ ~(v.terminal /\ v.state = "active")
                  \/ v.state = "ended" /\ Moves(IF v.error THEN "error" ELSE "exit")
                  \/ /\ v.terminal /\ v.state = "active"
                     /\ Turns(g, "ended", v.buf, FALSE, v.error, v.cached,
                              IF v.error THEN "error" ELSE "exit", v.hand, v.reap)
             /\ FlusherSendsError(g) =>
                  Turns(g, v.state, v.buf, v.terminal, FALSE, v.cached, "exit", v.hand, v.reap)
<1>1. gate[g] \in GateRec
  OBVIOUS
<1>2. ASSUME NEW x \in GateRec, Set(g, x)
      PROVE  Turns(g, x.state, x.buf, x.terminal, x.error, x.cached, x.flusher, x.hand, x.reap)
  BY <1>2, SetTurns
<1> DEFINE v == gate[g]
<1>3. ASSUME NEW f \in {"wait", "check", "exit", "error"}, Set(g, [v EXCEPT !.flusher = f])
      PROVE  Turns(g, v.state, v.buf, v.terminal, v.error, v.cached, f, v.hand, v.reap)
  <2> DEFINE x == [v EXCEPT !.flusher = f]
  <2>1. /\ x \in GateRec /\ x.state = v.state /\ x.buf = v.buf /\ x.terminal = v.terminal
        /\ x.error = v.error /\ x.cached = v.cached /\ x.flusher = f
        /\ x.hand = v.hand /\ x.reap = v.reap
    BY <1>1 DEF GateRec
  <2> HIDE DEF x
  <2>2. Set(g, x)
    BY <1>3 DEF x
  <2> QED
    BY <1>2, <2>1, <2>2 DEF Turns
<1>4. ASSUME FlusherWakes(g)
      PROVE  Turns(g, v.state, v.buf, v.terminal, v.error, v.cached, "check", v.hand, v.reap)
  BY <1>3, <1>4 DEF FlusherWakes, FlushStep
<1>5. ASSUME FlusherTakes(g)
      PROVE  Turns(g, v.state, Tail(v.buf), v.terminal, v.error, v.cached, "send", Head(v.buf), v.reap)
  <2> DEFINE x == [v EXCEPT !.flusher = "send", !.hand = Head(v.buf), !.buf = Tail(@)]
  <2>0. Head(v.buf) \in Chunks /\ Tail(v.buf) \in Seq(Chunks)
    <3>1. v.buf \in Seq(Chunks) /\ v.buf # <<>>
      BY <1>1, <1>5 DEF GateRec, FlusherTakes, Drains
    <3> HIDE DEF v
    <3> QED
      BY <3>1, TailGives
  <2>1. /\ x \in GateRec /\ x.state = v.state /\ x.buf = Tail(v.buf) /\ x.terminal = v.terminal
        /\ x.error = v.error /\ x.cached = v.cached /\ x.flusher = "send"
        /\ x.hand = Head(v.buf) /\ x.reap = v.reap
    BY <1>1, <2>0 DEF GateRec
  <2>2. Set(g, x)
    BY <1>5 DEF FlusherTakes, FlushStep
  <2> HIDE DEF x
  <2> QED
    BY <1>2, <2>1, <2>2 DEF Turns
<1>6. ASSUME FlusherSends(g)
      PROVE  \/ Send(v.hand) /\ Turns(g, v.state, v.buf, v.terminal, v.error, v.cached,
                                      "check", None, v.reap)
             \/ Unsent /\ Turns(g, "ended", <<>>, v.terminal, v.error, v.cached,
                                "check", None, v.reap)
  <2> DEFINE x == [v EXCEPT !.flusher = "check", !.hand = None]
             y == [v EXCEPT !.flusher = "check", !.hand = None, !.buf = <<>>, !.state = "ended"]
  <2>1. /\ x \in GateRec /\ x.state = v.state /\ x.buf = v.buf /\ x.terminal = v.terminal
        /\ x.error = v.error /\ x.cached = v.cached /\ x.flusher = "check"
        /\ x.hand = None /\ x.reap = v.reap
    BY <1>1 DEF GateRec
  <2>2. /\ y \in GateRec /\ y.state = "ended" /\ y.buf = <<>> /\ y.terminal = v.terminal
        /\ y.error = v.error /\ y.cached = v.cached /\ y.flusher = "check"
        /\ y.hand = None /\ y.reap = v.reap
    <3>1. <<>> \in Seq(Chunks)
      OBVIOUS
    <3> QED
      BY <1>1, <3>1 DEF GateRec
  <2>3. (Send(v.hand) /\ Set(g, x)) \/ (Unsent /\ Set(g, y))
    BY <1>6 DEF FlusherSends, FlushStep
  <2> HIDE DEF x, y
  <2>4. CASE Send(v.hand) /\ Set(g, x)
    BY <1>2, <2>1, <2>4 DEF Turns
  <2>5. CASE Unsent /\ Set(g, y)
    BY <1>2, <2>2, <2>5 DEF Turns
  <2> QED
    BY <2>3, <2>4, <2>5
<1>7. ASSUME FlusherDrained(g)
      PROVE  \/ /\ v.state # "ended" /\ ~(v.terminal /\ v.state = "active")
                /\ Turns(g, v.state, v.buf, v.terminal, v.error, v.cached, "wait", v.hand, v.reap)
             \/ /\ v.state = "ended"
                /\ Turns(g, v.state, v.buf, v.terminal, v.error, v.cached,
                         IF v.error THEN "error" ELSE "exit", v.hand, v.reap)
             \/ /\ v.terminal /\ v.state = "active"
                /\ Turns(g, "ended", v.buf, FALSE, v.error, v.cached,
                         IF v.error THEN "error" ELSE "exit", v.hand, v.reap)
  <2>1. CASE ~(v.terminal /\ v.state = "active") /\ v.state # "ended"
    <3>1. Set(g, [v EXCEPT !.flusher = "wait"])
      BY <1>7, <2>1 DEF FlusherDrained, FlushStep
    <3> QED
      BY <1>3, <2>1, <3>1
  <2>2. CASE v.state = "ended"
    <3>1. Set(g, [v EXCEPT !.flusher = IF v.error THEN "error" ELSE "exit"])
      BY <1>7, <2>2 DEF FlusherDrained, FlushStep
    <3> QED
      BY <1>3, <2>2, <3>1
  <2>3. CASE v.terminal /\ v.state = "active"
    <3> DEFINE w == [v EXCEPT !.state = "ended", !.terminal = FALSE]
               x == [w EXCEPT !.flusher = IF w.error THEN "error" ELSE "exit"]
    <3>1. /\ w \in GateRec /\ w.state = "ended" /\ w.buf = v.buf /\ w.terminal = FALSE
          /\ w.error = v.error /\ w.cached = v.cached /\ w.flusher = v.flusher
          /\ w.hand = v.hand /\ w.reap = v.reap
      BY <1>1 DEF GateRec
    <3>2. Set(g, [w EXCEPT !.flusher = IF w.state # "ended" THEN "wait"
                                       ELSE IF w.error THEN "error" ELSE "exit"])
      BY <1>7, <2>3 DEF FlusherDrained, FlushStep
    <3> HIDE DEF w
    <3>3. Set(g, x)
      BY <3>1, <3>2
    <3>4. /\ x \in GateRec /\ x.state = "ended" /\ x.buf = w.buf /\ x.terminal = w.terminal
          /\ x.error = w.error /\ x.cached = w.cached
          /\ x.flusher = (IF w.error THEN "error" ELSE "exit")
          /\ x.hand = w.hand /\ x.reap = w.reap
      BY <3>1 DEF GateRec
    <3> HIDE DEF x
    <3> QED
      BY <1>2, <2>3, <3>1, <3>3, <3>4 DEF Turns
  <2> QED
    BY <2>1, <2>2, <2>3
<1>8. ASSUME FlusherSendsError(g)
      PROVE  Turns(g, v.state, v.buf, v.terminal, FALSE, v.cached, "exit", v.hand, v.reap)
  <2> DEFINE x == [v EXCEPT !.flusher = "exit", !.error = FALSE]
  <2>1. /\ x \in GateRec /\ x.state = v.state /\ x.buf = v.buf /\ x.terminal = v.terminal
        /\ x.error = FALSE /\ x.cached = v.cached /\ x.flusher = "exit"
        /\ x.hand = v.hand /\ x.reap = v.reap
    BY <1>1 DEF GateRec
  <2>2. Set(g, x)
    BY <1>8 DEF FlusherSendsError, FlushStep
  <2> HIDE DEF x
  <2> QED
    BY <1>2, <2>1, <2>2 DEF Turns
<1> QED
  BY <1>4, <1>5, <1>6, <1>7, <1>8

(* A reaping by the last chunk's post-hooks, and one that a flusher does.  *)
LEMMA ReapTurns ==
  ASSUME gate \in [Gates -> GateRec], current \in Gates \cup {0}, Reap
  PROVE  LET v == gate[current]
         IN  /\ made' = made
             /\ \/ current = 0 /\ UNCHANGED <<gate, current>>
                \/ /\ current # 0 /\ current' = current
                   /\ FlusherOn(current) \/ v.state = "paused"
                   /\ Turns(current, v.state, v.buf, v.terminal, v.error, v.cached, v.flusher,
                            v.hand, TRUE)
                \/ /\ current # 0 /\ current' = 0 /\ gate' = gate
                   /\ ~FlusherOn(current) /\ v.state # "paused"
<1>1. CASE current # 0 /\ (FlusherOn(current) \/ gate[current].state = "paused")
  <2> DEFINE v == gate[current]
             x == [v EXCEPT !.reap = TRUE]
  <2>1. v \in GateRec /\ current \in Gates
    BY <1>1
  <2>2. /\ x \in GateRec /\ x.state = v.state /\ x.buf = v.buf /\ x.terminal = v.terminal
        /\ x.error = v.error /\ x.cached = v.cached /\ x.flusher = v.flusher
        /\ x.hand = v.hand /\ x.reap = TRUE
    BY <2>1 DEF GateRec
  <2>3. Set(current, x) /\ current' = current /\ made' = made
    BY <1>1 DEF Reap
  <2> HIDE DEF x
  <2>4. Turns(current, x.state, x.buf, x.terminal, x.error, x.cached, x.flusher, x.hand, x.reap)
    BY <2>1, <2>2, <2>3, SetTurns
  <2> QED
    BY <1>1, <2>2, <2>3, <2>4 DEF Turns
<1>2. CASE ~(current # 0 /\ (FlusherOn(current) \/ gate[current].state = "paused"))
  BY <1>2 DEF Reap
<1> QED
  BY <1>1, <1>2

(* A flusher that leaves: it has nothing to reap, reaps the entry, or      *)
(* passes the reaping on to a gate that is busy.                           *)
LEMMA ExitTurns ==
  ASSUME gate \in [Gates -> GateRec], current \in Gates \cup {0}, NEW g \in Gates,
         FlusherExits(g)
  PROVE  LET v == gate[g]
             Exits == Turns(g, v.state, v.buf, v.terminal, v.error, v.cached, "exited",
                            v.hand, v.reap)
         IN  \/ ~v.reap /\ current' = current /\ Exits
             \/ v.reap /\ current' = 0 /\ Exits
             \/ /\ v.reap /\ current' = current /\ current \in Gates \ {g}
                /\ FlusherOn(current) \/ gate[current].state = "paused"
                /\ gate' \in [Gates -> GateRec]
                /\ \A k \in Gates : k \notin {g, current} => gate'[k] = gate[k]
                /\ gate'[g] = [v EXCEPT !.flusher = "exited"]
                /\ gate'[current] = [gate[current] EXCEPT !.reap = TRUE]
<1> DEFINE v == gate[g]
           x == [v EXCEPT !.flusher = "exited"]
           left == [gate EXCEPT ![g] = x]
<1>1. gate[g] \in GateRec
  OBVIOUS
<1>2. /\ x \in GateRec /\ x.state = v.state /\ x.buf = v.buf /\ x.terminal = v.terminal
      /\ x.error = v.error /\ x.cached = v.cached /\ x.flusher = "exited"
      /\ x.hand = v.hand /\ x.reap = v.reap
  BY <1>1 DEF GateRec
<1>3. [gate EXCEPT ![g].flusher = "exited"] = left
  OBVIOUS
<1>4. \/ ~gate[g].reap /\ gate' = left /\ current' = current
      \/ gate[g].reap /\ gate' = left /\ current' = 0
      \/ /\ gate[g].reap /\ current \notin {0, g} /\ current' = current
         /\ FlusherOn(current) \/ gate[current].state = "paused"
         /\ gate' = [left EXCEPT ![current].reap = TRUE]
  BY <1>3 DEF FlusherExits
<1>5. ASSUME gate' = left
      PROVE  Turns(g, v.state, v.buf, v.terminal, v.error, v.cached, "exited", v.hand, v.reap)
  <2>1. Set(g, x)
    BY <1>5 DEF Set
  <2> HIDE DEF x
  <2>2. Turns(g, x.state, x.buf, x.terminal, x.error, x.cached, x.flusher, x.hand, x.reap)
    BY <1>2, <2>1, SetTurns
  <2> QED
    BY <1>2, <2>2 DEF Turns
<1>6. ASSUME current \in Gates \ {g}, gate' = [left EXCEPT ![current].reap = TRUE]
      PROVE  /\ gate' \in [Gates -> GateRec]
             /\ \A k \in Gates : k \notin {g, current} => gate'[k] = gate[k]
             /\ gate'[g] = [v EXCEPT !.flusher = "exited"]
             /\ gate'[current] = [gate[current] EXCEPT !.reap = TRUE]
  <2> DEFINE y == [gate[current] EXCEPT !.reap = TRUE]
  <2>1. gate[current] \in GateRec
    BY <1>6
  <2>2. y \in GateRec
    BY <2>1 DEF GateRec
  <2>3. gate' = [left EXCEPT ![current] = y]
    BY <1>6
  <2> HIDE DEF x, y
  <2>4. /\ gate' \in [Gates -> GateRec] /\ gate'[g] = x /\ gate'[current] = y
        /\ \A k \in Gates : k \notin {g, current} => gate'[k] = gate[k]
    BY <1>2, <1>6, <2>2, <2>3
  <2> QED
    BY <2>4 DEF x, y
<1> QED
  BY <1>4, <1>5, <1>6

(* The plugin's pause and resume, and the transport's completion.          *)
LEMMA PauseTurns ==
  ASSUME gate \in [Gates -> GateRec], NEW g \in Gates, NEW s \in {"active", "paused"},
         Set(g, [gate[g] EXCEPT !.state = s])
  PROVE  LET v == gate[g]
         IN  Turns(g, s, v.buf, v.terminal, v.error, v.cached, v.flusher, v.hand, v.reap)
<1> DEFINE v == gate[g]
           x == [v EXCEPT !.state = s]
<1>1. gate[g] \in GateRec
  OBVIOUS
<1>2. /\ x \in GateRec /\ x.state = s /\ x.buf = v.buf /\ x.terminal = v.terminal
      /\ x.error = v.error /\ x.cached = v.cached /\ x.flusher = v.flusher
      /\ x.hand = v.hand /\ x.reap = v.reap
  BY <1>1 DEF GateRec
<1>3. Set(g, x)
  OBVIOUS
<1> HIDE DEF x
<1> QED
  BY <1>2, <1>3, SetTurns DEF Turns

(* The transport's completion ends the gate it deletes and drops its       *)
(* buffer.                                                                 *)
LEMMA CompleteTurns ==
  ASSUME gate \in [Gates -> GateRec], current \in Gates \cup {0}, Complete
  PROVE  LET v == gate[current]
         IN  \/ gate' = gate
             \/ /\ current \in Gates
                /\ Turns(current, "ended", <<>>, FALSE, FALSE, v.cached, v.flusher, v.hand, v.reap)
<1> DEFINE v == gate[current]
           x == [v EXCEPT !.state = "ended", !.buf = <<>>, !.terminal = FALSE, !.error = FALSE]
<1>1. CASE current = 0 \/ gate[Found].state = "ended"
  BY <1>1 DEF Complete
<1>2. CASE ~(current = 0 \/ gate[Found].state = "ended")
  <2>1. v \in GateRec /\ current \in Gates /\ <<>> \in Seq(Chunks)
    BY <1>2
  <2>2. /\ x \in GateRec /\ x.state = "ended" /\ x.buf = <<>> /\ x.terminal = FALSE
        /\ x.error = FALSE /\ x.cached = v.cached /\ x.flusher = v.flusher
        /\ x.hand = v.hand /\ x.reap = v.reap
    BY <2>1 DEF GateRec
  <2>3. Set(current, x)
    BY <1>2 DEF Complete
  <2> HIDE DEF x
  <2> QED
    BY <2>1, <2>2, <2>3, SetTurns DEF Turns
<1> QED
  BY <1>1, <1>2

(* What a send does.                                                       *)
LEMMA SendGives ==
  ASSUME delivered \in Seq(Chunks \cup {Error}), NEW c \in Chunks \cup {Error}, Send(c)
  PROVE  /\ ~closed /\ delivered' \in Seq(Chunks \cup {Error})
         /\ Len(delivered) \in Nat /\ Len(delivered') = Len(delivered) + 1
         /\ \A i \in 1..Len(delivered) : delivered'[i] = delivered[i]
         /\ delivered'[Len(delivered) + 1] = c
         /\ DeliveredSet' = DeliveredSet \cup {c}
<1>1. /\ ~closed /\ delivered' \in Seq(Chunks \cup {Error})
      /\ Len(delivered) \in Nat /\ Len(delivered') = Len(delivered) + 1
      /\ \A i \in 1..Len(delivered) : delivered'[i] = delivered[i]
      /\ delivered'[Len(delivered) + 1] = c
  BY AppendGives DEF Send
<1> QED
  BY <1>1 DEF DeliveredSet

(* The types, as the steps below use them.                                 *)
LEMMA Data ==
  ASSUME TypeOK
  PROVE  /\ gate \in [Gates -> GateRec] /\ delivered \in Seq(Chunks \cup {Error})
         /\ current \in Nat /\ current <= MaxGates /\ made \in Nat /\ made <= MaxGates
         /\ via \in Nat /\ via <= MaxGates /\ at \in Nat /\ at <= MaxGates
         /\ chunk \in Nat /\ chunk <= MaxChunks /\ cut \in Nat
         /\ cut # None => cut <= MaxChunks
         /\ Len(delivered) \in Nat
         /\ \A i \in 1..Len(delivered) :
               delivered[i] \in Nat /\ (delivered[i] # Error => delivered[i] <= MaxChunks)
         /\ \A g \in Gates :
               /\ Len(gate[g].buf) \in Nat /\ (gate[g].buf = <<>> <=> Len(gate[g].buf) = 0)
               /\ \A i \in 1..Len(gate[g].buf) :
                     gate[g].buf[i] \in Nat /\ gate[g].buf[i] <= MaxChunks
               /\ gate[g].hand \in Nat /\ (gate[g].hand # None => gate[g].hand <= MaxChunks)
<1>1. /\ gate \in [Gates -> GateRec] /\ delivered \in Seq(Chunks \cup {Error})
      /\ current \in Nat /\ current <= MaxGates /\ made \in Nat /\ made <= MaxGates
      /\ via \in Nat /\ via <= MaxGates /\ at \in Nat /\ at <= MaxGates
      /\ chunk \in Nat /\ chunk <= MaxChunks /\ cut \in Nat
      /\ cut # None => cut <= MaxChunks
  BY Numbers DEF TypeOK, GateRec
<1>2. /\ Len(delivered) \in Nat
      /\ \A i \in 1..Len(delivered) : delivered[i] \in Chunks \cup {Error}
  BY <1>1
<1>3. ASSUME NEW g \in Gates
      PROVE  /\ Len(gate[g].buf) \in Nat /\ (gate[g].buf = <<>> <=> Len(gate[g].buf) = 0)
             /\ \A i \in 1..Len(gate[g].buf) : gate[g].buf[i] \in Chunks
             /\ gate[g].hand \in Chunks \cup {None}
  BY <1>1, GateFields, EmptyOrNot
<1> QED
  BY <1>1, <1>2, <1>3, Numbers

(* A new gate is engaged by nobody.                                        *)
LEMMA NewFields ==
  /\ NewGate.state = "active" /\ NewGate.buf = <<>> /\ NewGate.terminal = FALSE
  /\ NewGate.error = FALSE /\ NewGate.cached = FALSE /\ NewGate.flusher = "none"
  /\ NewGate.hand = None /\ NewGate.reap = FALSE
  BY DEF NewGate

(* getOrCreateStreamAccumulator always has a gate to create.               *)
LEMMA FindGives ==
  ASSUME TypeOK, Numbered, Find, UNCHANGED gate
  PROVE  /\ current' = Found /\ current' \in Gates /\ current' # 0
         /\ made' \in Nat /\ made <= made' /\ current' <= made' /\ made' <= MaxGates
         /\ \/ current # 0 /\ current' = current /\ made' = made
            \/ /\ current = 0 /\ current' = made + 1 /\ made' = made + 1 /\ made <= 2
               /\ gate[current'] = NewGate
<1>1. current \in Nat /\ current <= MaxGates /\ made \in Nat /\ made <= MaxGates
  BY Data
<1>2. current = 0 => made <= 2
  BY <1>1 DEF Numbered
<1>3. \/ current # 0 /\ current' = current /\ made' = made
      \/ current = 0 /\ current' = made + 1 /\ made' = made + 1
  BY DEF Find, Found
<1>4. current <= made /\ \A g \in Gates : g > made => gate[g] = NewGate
  BY DEF Numbered
<1>5. CASE current # 0
  BY <1>1, <1>3, <1>4, <1>5, Numbers DEF Find, Found
<1>6. CASE current = 0
  <2>1. current' = made + 1 /\ made' = made + 1 /\ made + 1 \in Gates /\ made + 1 > made
    BY <1>1, <1>2, <1>3, <1>6, Numbers
  <2> QED
    BY <1>1, <1>2, <1>4, <1>6, <2>1, Numbers DEF Find
<1> QED
  BY <1>5, <1>6

(* Creating an accumulator keeps the count of those that can exist.        *)
LEMMA FindNumbers ==
  ASSUME TypeOK, Numbered, Find, UNCHANGED <<gate, completed>>, Unreaped' <=> Unreaped,
         via' = via \/ via' = current', at' = at \/ at' = current'
  PROVE  Numbered'
<1> DEFINE reaping == IF Reaping THEN 0 ELSE 1
           complete == IF completed THEN 1 ELSE 0
<1>1. /\ current' \in Gates /\ current' # 0 /\ made' \in Nat /\ made <= made' /\ current' <= made'
      /\ (current # 0 /\ made' = made) \/ (current = 0 /\ made' = made + 1)
  BY FindGives
<1>2. /\ reaping \in Nat /\ complete \in Nat /\ made \in Nat
      /\ made <= (IF current = 0 THEN 0 ELSE 1) + reaping + complete
      /\ via <= made /\ at <= made /\ 1 <= made /\ via \in Nat /\ at \in Nat
  BY Data DEF Numbered
<1>3. (reaping' = reaping) /\ complete' = complete /\ \A g \in Gates : Token(g)' <=> Token(g)
  BY DEF Reaping, Token
<1> HIDE DEF reaping, complete
<1>4. 1 <= made' /\ current' <= made' /\ via' <= made' /\ at' <= made'
  BY <1>1, <1>2
<1>5. made' <= (IF current' = 0 THEN 0 ELSE 1) + reaping' + complete'
  BY <1>1, <1>2, <1>3
<1>6. \A g \in Gates : g > made' => gate'[g] = NewGate
  BY <1>1, <1>2, Numbers DEF Numbered
<1>7. (Unreaped' => \A g \in Gates : ~gate'[g].reap)
      /\ \A g, h \in Gates : Token(g)' /\ Token(h)' => g = h
  BY <1>3 DEF Numbered
<1> QED
  BY <1>4, <1>5, <1>6, <1>7 DEF Numbered, reaping, complete

(* When the channel is closed no flusher has anything left to send, unless *)
(* a plugin ended the stream or the client has left.                       *)
LEMMA WholeAtTheEnd ==
  ASSUME IInv, ~closed, ~Ready, UNCHANGED <<delivered, chunk, final, cut, ctxDone>>,
         ~ctxDone /\ cut = None => \A g \in Gates : ~FlusherOn(g)
  PROVE  StreamIsWhole'
<1>1. DeliveredSet' = DeliveredSet
  BY DEF DeliveredSet
<1>2. ASSUME ~ctxDone, cut = None, Error \notin DeliveredSet PROVE 1..chunk \subseteq DeliveredSet
  <2>1. \A g \in Gates : /\ ~FlusherOn(g) /\ gate[g].buf = <<>> /\ gate[g].hand = None
                         /\ ~gate[g].error
    BY <1>2 DEF IInv, Shaped, Shape, FlusherOn, Uncut, Live
  <2>2. ~Failing /\ \A c \in 1..chunk : Somewhere(c)
    BY <1>2, <2>1 DEF IInv, Uncut, Live, Failing
  <2>3. ASSUME NEW c \in 1..chunk PROVE c \in DeliveredSet
    <3>1. c # None
      BY Data, Numbers DEF IInv
    <3>2. \A g \in Gates : c \notin Loaded(g) /\ gate[g].hand # c
      BY <2>1, <3>1 DEF Loaded
    <3> QED
      BY <2>2, <3>2 DEF Somewhere
  <2> QED
    BY <2>3
<1> QED
  BY <1>1, <1>2 DEF IInv, StreamIsWhole, NothingDropped, OnceOnly, FinalIsLast, EndDropsLater

(* A step that neither creates, deletes nor reaps leaves the count alone.  *)
LEMMA SameNumbers ==
  ASSUME TypeOK, Numbered, NEW g \in Gates, g <= made, gate' \in [Gates -> GateRec],
         \A k \in Gates : k # g => gate'[k] = gate[k],
         gate'[g].reap <=> gate[g].reap,
         gate'[g].flusher = "exited" <=> gate[g].flusher = "exited",
         UNCHANGED <<made, current, via, at, completed>>, Unreaped' <=> Unreaped
  PROVE  Numbered'
<1>1. \A k \in Gates : (Token(k)' <=> Token(k)) /\ (gate'[k].reap <=> gate[k].reap)
  BY DEF Token
<1>2. Reaping' <=> Reaping
  BY <1>1 DEF Reaping
<1>3. \A k \in Gates : k > made => k # g
  BY Data, Numbers
<1> QED
  BY <1>1, <1>2, <1>3 DEF Numbered

(* What GateSend leaves alone.                                             *)
SendFrame ==
    /\ prod = "gate"
    /\ UNCHANGED <<current, made, gated, chunk, final, via, ctlVars, ctxDone, closed, completed,
                   delivered, histVars>>

(* When GateSend has locked a gate that has not ended, it is the current   *)
(* one, for a client that is there, and its flusher has not left.          *)
LEMMA SendFacts ==
  ASSUME IInv, SendFrame
  PROVE  /\ via \in Gates /\ via <= made /\ chunk \in Chunks /\ chunk \in Nat /\ ~closed
         /\ prod = "gate" /\ gated /\ Ready /\ DeliveredSet' = DeliveredSet
         /\ Live /\ gate[via].state # "ended" => via = current
         /\ gate[via].state # "ended" => gate[via].flusher \notin {"error", "exit", "exited"}
         /\ ~final /\ AfterChunk => prod' = "next"
         /\ final /\ AfterChunk => prod' = "closing"
<1>1. /\ TypeOK /\ Shaped /\ Numbered /\ Phases /\ Stale
  BY DEF IInv
<1>2. via \in Gates /\ chunk \in Nat /\ chunk <= MaxChunks
  BY <1>1, Data, Numbers DEF SendFrame, Phases
<1>3. chunk \in Chunks /\ ~closed /\ via <= made
  BY <1>1, <1>2, Numbers DEF SendFrame, Phases, Numbered
<1>4. gated /\ Shape(via)
  BY <1>1, <1>2 DEF SendFrame, Shaped
<1>5. Live /\ gate[via].state # "ended" => via = current
  BY <1>1 DEF SendFrame, Stale
<1> QED
  BY <1>2, <1>3, <1>4, <1>5 DEF SendFrame, Ready, Shape, AfterChunk, DeliveredSet

(* What a sequence holds, before and after an Append.                      *)
Elems(s) == {s[i] : i \in 1..Len(s)}

LEMMA ElemsGrow ==
  ASSUME NEW s, NEW t, NEW c, Len(s) \in Nat, Len(t) = Len(s) + 1,
         \A i \in 1..Len(s) : t[i] = s[i], t[Len(s) + 1] = c
  PROVE  Elems(t) = Elems(s) \cup {c}
<1>1. ASSUME NEW i \in 1..Len(t) PROVE t[i] \in Elems(s) \cup {c}
  <2>1. i = Len(s) + 1 \/ i \in 1..Len(s)
    OBVIOUS
  <2> QED
    BY <2>1 DEF Elems
<1>2. ASSUME NEW i \in 1..Len(s) PROVE s[i] \in Elems(t)
  <2>1. i \in 1..Len(t) /\ t[i] = s[i]
    OBVIOUS
  <2> QED
    BY <2>1 DEF Elems
<1>3. c \in Elems(t)
  <2>1. Len(s) + 1 \in 1..Len(t)
    OBVIOUS
  <2> QED
    BY <2>1 DEF Elems
<1>4. Elems(t) \subseteq Elems(s) \cup {c}
  BY <1>1 DEF Elems
<1>5. Elems(s) \subseteq Elems(t)
  BY <1>2 DEF Elems
<1> QED
  BY <1>3, <1>4, <1>5

(* Until the last chunk's post-hooks there is one gate.                    *)
LEMMA OneGate ==
  ASSUME TypeOK, Numbered, Phases, Live, Unreaped
  PROVE  made = 1 /\ current = 1 /\ \A g \in Gates : g <= made => g = 1
<1>1. ~completed /\ Reaping /\ made \in Nat /\ current \in Nat
  BY Data DEF Phases, Live, Reaping
<1>2. made <= (IF current = 0 THEN 0 ELSE 1) + 0 + 0 /\ 1 <= made /\ current <= made
  BY <1>1 DEF Numbered
<1> QED
  BY <1>1, <1>2, Numbers

(* A pause holds as long as nothing new gets under way.                    *)
LEMMA PauseKept ==
  ASSUME Paused, Live' => Live, cut' = None => cut = None, spared' = spared,
         current' # 0 /\ gate'[current'].state = "paused" =>
            current # 0 /\ gate[current].state = "paused",
         prod' = "direct" => prod = "direct" /\ chunk' = chunk,
         \A k \in Gates : gate'[k].flusher = "send" =>
            gate[k].flusher = "send" /\ gate'[k].hand = gate[k].hand
  PROVE  Paused'
<1>1. InFlight' \subseteq InFlight
  BY DEF InFlight
<1> QED
  BY <1>1 DEF Paused

(* A gate at which something has happened was created.                     *)
LEMMA WasMade ==
  ASSUME TypeOK, Numbered, NEW g \in Gates, gate[g].flusher # "none"
  PROVE  g <= made
<1>1. g \in Nat /\ made \in Nat
  BY Data, Numbers
<1>2. g > made => gate[g].flusher = "none"
  BY NewFields DEF Numbered
<1> QED
  BY <1>1, <1>2

(* There is a first gate.                                                  *)
LEMMA FirstGate == 1 \in Gates
  BY Numbers

(* A step that sends nothing and closes nothing leaves the stream whole.    *)
LEMMA WholeKept ==
  ASSUME StreamIsWhole, UNCHANGED <<delivered, chunk, final, closed, ctxDone, cut>>
  PROVE  StreamIsWhole'
<1>1. DeliveredSet' = DeliveredSet
  BY DEF DeliveredSet
<1> QED
  BY <1>1 DEF StreamIsWhole, NothingDropped, OnceOnly, FinalIsLast, EndDropsLater

(* What GateSend leaves of a gate whose buffer it does not touch.          *)
Spares(k) ==
    /\ gate'[k].buf = gate[k].buf /\ gate'[k].hand = gate[k].hand
    /\ Loaded(k)' = Loaded(k)
    /\ (gate'[k].terminal <=> gate[k].terminal)
    /\ (gate'[k].flusher = "send" <=> gate[k].flusher = "send")
    /\ gate[k].state = "ended" => gate'[k].state = "ended"

LEMMA GateSpares ==
  ASSUME NEW s, NEW e, NEW f \in {gate[via].flusher, On(gate[via].flusher)},
         s = gate[via].state \/ s = "ended",
         Turns(via, s, gate[via].buf, gate[via].terminal, e, TRUE, f,
               gate[via].hand, gate[via].reap)
  PROVE  \A k \in Gates : Spares(k)
<1>1. ASSUME NEW k \in Gates PROVE Spares(k)
  <2>1. CASE k = via
    BY <2>1 DEF Turns, On, Spares, Loaded
  <2>2. CASE k # via
    <3>1. gate'[k] = gate[k]
      BY <2>2 DEF Turns
    <3> QED
      BY <3>1 DEF Spares, Loaded
  <2> QED
    BY <2>1, <2>2
<1> QED
  BY <1>1

-----------------------------------------------------------------------------
(* IInv is inductive.  There is a lemma for each step, or for each outcome *)
(* of a step, which proves one conjunct of IInv after the other.           *)

(* The provider's next chunk is new to every gate and to the client.       *)
LEMMA NextChunkKeeps ==
  ASSUME IInv, NextChunk
  PROVE  IInv'
<1>0. /\ TypeOK /\ Shaped /\ Numbered /\ Phases /\ Closing /\ Behind /\ Stale
      /\ Apart /\ ErrorOnce /\ LastAlone /\ CutHolds /\ Uncut /\ Paused /\ StreamIsWhole
  BY DEF IInv
<1>1. /\ prod = "next" /\ chunk' = chunk + 1 /\ final' \in BOOLEAN
      /\ chunk + 1 = MaxChunks => final'
      /\ prod' = IF final' THEN "hooks" ELSE "choose"
      /\ UNCHANGED <<gate, current, made, gated, via, ctlVars, ctxDone, closed, completed,
                     delivered, histVars>>
      /\ DeliveredSet' = DeliveredSet
  BY DEF NextChunk, DeliveredSet
<1>2. /\ ~final /\ ~closed /\ chunk \in Nat /\ chunk < MaxChunks /\ chunk' \in Nat
      /\ chunk' > chunk /\ chunk' <= MaxChunks /\ chunk' # Error /\ chunk' # None
      /\ Unreaped /\ Unreaped' /\ Reaping /\ Reaping'
  <2>1. ~final /\ chunk \in Nat /\ chunk <= MaxChunks /\ chunk # MaxChunks
    BY <1>0, <1>1, Data DEF Phases
  <2> QED
    BY <1>0, <1>1, <2>1, Numbers DEF Unreaped, Reaping, Phases
<1>3. /\ \A i \in 1..Len(delivered) :
            delivered[i] \in Nat /\ (delivered[i] = Error \/ delivered[i] <= chunk)
      /\ chunk' \notin DeliveredSet
  BY <1>0, <1>2, Data DEF Behind, DeliveredSet
<1>4. /\ \A g \in Gates : \A i \in 1..Len(gate[g].buf) :
            gate[g].buf[i] \in Nat /\ gate[g].buf[i] <= chunk /\ gate[g].buf[i] # chunk'
      /\ \A g \in Gates : gate[g].hand # None =>
            gate[g].hand \in Nat /\ gate[g].hand <= chunk
      /\ \A g \in Gates : gate[g].hand # chunk'
  <2>1. ASSUME NEW g \in Gates, NEW i \in 1..Len(gate[g].buf)
        PROVE  gate[g].buf[i] \in Nat /\ gate[g].buf[i] <= chunk /\ gate[g].buf[i] # chunk'
    BY <1>0, <1>2, Data DEF Behind
  <2>2. ASSUME NEW g \in Gates, gate[g].hand # None
        PROVE  gate[g].hand \in Nat /\ gate[g].hand <= chunk
    <3>1. gate[g].flusher = "send"
      BY <1>0, <2>2 DEF Shaped, Shape
    <3> QED
      BY <1>0, <3>1, Data DEF Behind
  <2>3. ASSUME NEW g \in Gates PROVE gate[g].hand # chunk'
    BY <1>2, <2>2
  <2> QED
    BY <2>1, <2>2, <2>3
<1>20. TypeOK'
  BY <1>0, <1>1, <1>2, Numbers DEF TypeOK, GateRec
<1>21. Shaped'
  BY <1>0, <1>1, <1>2, Numbers DEF Shaped, Shape, Untouched, FlusherOn
<1>22. Numbered'
  BY <1>0, <1>1, <1>2, Numbers DEF Numbered, Token, Unreaped, Reaping
<1>23. Phases'
  BY <1>0, <1>1, <1>2, Numbers DEF Phases
<1>24. Closing'
  BY <1>0, <1>1, <1>2, Numbers DEF Closing, FlusherOn
<1>25. Behind'
  BY <1>0, <1>1, <1>2, Numbers, <1>3, <1>4 DEF Behind
<1>26. Stale'
  BY <1>0, <1>1, <1>2, Numbers DEF Stale, Live, FlusherOn, Token
<1>27. Apart'
  BY <1>0, <1>1, <1>2, Numbers, <1>3, <1>4 DEF Apart, Live, Ready, Loaded
<1>28. ErrorOnce'
  BY <1>0, <1>1, <1>2, Numbers DEF ErrorOnce, Live
<1>29. LastAlone'
  BY <1>0, <1>1, <1>2, Numbers, <1>3, <1>4 DEF LastAlone, LastSent, Live
<1>30. CutHolds'
  BY <1>0, <1>1, <1>2, Numbers, <1>3, <1>4, Data DEF CutHolds, CutOff, Live, Unreaped
<1>31. Uncut'
  <2>1. ASSUME NEW c \in 1..chunk', ~Failing, Live, cut = None PROVE Somewhere(c)'
    <3>1. CASE c = chunk'
      BY <1>1, <3>1 DEF Somewhere, Ready
    <3>2. CASE c # chunk'
      <4>1. c \in 1..chunk
        BY <1>1, <1>2, <3>2
      <4> QED
        BY <1>0, <1>1, <2>1, <4>1 DEF Uncut, Somewhere, Loaded, Ready
    <3> QED
      BY <3>1, <3>2
  <2>2. Failing' = Failing
    BY <1>1 DEF Failing
  <2> QED
    BY <1>0, <1>1, <1>2, <2>1, <2>2 DEF Uncut, Live, FlusherOn
<1>32. Paused'
  BY <1>0, <1>1, <1>2, Numbers DEF Paused, Live, InFlight
<1>33. StreamIsWhole'
  <2>1. NothingDropped' /\ OnceOnly'
    BY <1>0, <1>1, <1>2 DEF StreamIsWhole, NothingDropped, OnceOnly
  <2>2. \A i \in 1..Len(delivered) : delivered[i] # chunk'
    BY <1>3 DEF DeliveredSet
  <2>3. FinalIsLast'
    BY <1>1, <2>2 DEF FinalIsLast
  <2>4. EndDropsLater'
    BY <1>0, <1>1, <1>2 DEF StreamIsWhole, EndDropsLater
  <2> QED
    BY <2>1, <2>3, <2>4 DEF StreamIsWhole
<1> QED
  BY <1>20, <1>21, <1>22, <1>23, <1>24, <1>25, <1>26, <1>27, <1>28, <1>29, <1>30, <1>31, <1>32, <1>33
    DEF IInv

(* The provider looks an engaged gate up, or creates another.              *)
LEMMA ChooseGatedKeeps ==
  ASSUME IInv, Choose, gated
  PROVE  IInv'
<1>0. /\ TypeOK /\ Shaped /\ Numbered /\ Phases /\ Closing /\ Behind /\ Stale
      /\ Apart /\ ErrorOnce /\ LastAlone /\ CutHolds /\ Uncut /\ Paused /\ StreamIsWhole
  BY DEF IInv
<1>1. /\ prod = "choose" /\ prod' = "gate" /\ via' = Found /\ Find /\ gated
      /\ UNCHANGED <<gate, gated, chunk, final, ctlVars, ctxDone, closed, completed, delivered,
                     histVars>>
      /\ DeliveredSet' = DeliveredSet
  BY DEF Choose, DeliveredSet
<1>2. /\ current' = Found /\ current' \in Gates /\ current' # 0
      /\ made' \in Nat /\ current' <= made' /\ made' <= MaxGates
      /\ \/ current # 0 /\ current' = current /\ made' = made
         \/ /\ current = 0 /\ current' = made + 1 /\ made' = made + 1
            /\ gate[current'].state = "active" /\ ~gate[current'].cached
            /\ gate[current'].flusher = "none"
  BY <1>0, <1>1, FindGives, NewFields
<1>20. TypeOK'
  BY <1>0, <1>1, <1>2, Numbers DEF TypeOK, GateRec
<1>21. Shaped'
  BY <1>0, <1>1, <1>2, Numbers DEF Shaped, Shape, Untouched, FlusherOn
<1>22. Numbered'
  BY <1>0, <1>1, FindNumbers DEF Unreaped, Find
<1>23. Phases'
  BY <1>0, <1>1, <1>2, Numbers DEF Phases
<1>24. Closing'
  BY <1>0, <1>1, <1>2, Numbers DEF Closing, FlusherOn
<1>25. Behind'
  BY <1>0, <1>1, <1>2, Numbers DEF Behind
<1>26. Stale'
  BY <1>0, <1>1, <1>2, Numbers DEF Stale, Live, FlusherOn, Token
<1>27. Apart'
  BY <1>0, <1>1, <1>2, Numbers DEF Apart, Live, Ready, Loaded
<1>28. ErrorOnce'
  BY <1>0, <1>1, <1>2, Numbers DEF ErrorOnce, Live
<1>29. LastAlone'
  BY <1>0, <1>1, <1>2, Numbers DEF LastAlone, LastSent, Live
<1>30. CutHolds'
  BY <1>0, <1>1, <1>2, Numbers DEF CutHolds, CutOff, Live, Unreaped
<1>31. Uncut'
  BY <1>0, <1>1, <1>2, Numbers DEF Uncut, Failing, Somewhere, Live, Ready, Loaded, FlusherOn
<1>32. Paused'
  BY <1>0, <1>1, <1>2, Numbers DEF Paused, Live, InFlight
<1>33. StreamIsWhole'
  BY <1>0, <1>1, <1>2, WholeKept
<1> QED
  BY <1>20, <1>21, <1>22, <1>23, <1>24, <1>25, <1>26, <1>27, <1>28, <1>29, <1>30, <1>31, <1>32, <1>33
    DEF IInv

(* No gate is engaged: nothing is buffered that the chunk could overtake.  *)
LEMMA ChooseDirectKeeps ==
  ASSUME IInv, Choose, ~gated
  PROVE  IInv'
<1>0. /\ TypeOK /\ Shaped /\ Numbered /\ Phases /\ Closing /\ Behind /\ Stale
      /\ Apart /\ ErrorOnce /\ LastAlone /\ CutHolds /\ Uncut /\ Paused /\ StreamIsWhole
  BY DEF IInv
<1>1. /\ prod = "choose" /\ prod' = "direct" /\ ~gated
      /\ UNCHANGED <<gate, current, made, via, gated, chunk, final, ctlVars, ctxDone, closed,
                     completed, delivered, histVars>>
      /\ DeliveredSet' = DeliveredSet
  BY DEF Choose, DeliveredSet
<1>2. \A g \in Gates : /\ gate[g].flusher = "none" /\ gate[g].state # "paused" /\ ~FlusherOn(g)
                       /\ gate[g].buf = <<>> /\ gate[g].hand = None
  BY <1>0, <1>1 DEF Shaped, Untouched, Shape, FlusherOn
<1>20. TypeOK'
  BY <1>0, <1>1, <1>2, Numbers DEF TypeOK, GateRec
<1>21. Shaped'
  BY <1>0, <1>1, <1>2, Numbers DEF Shaped, Shape, Untouched, FlusherOn
<1>22. Numbered'
  BY <1>0, <1>1, <1>2, Numbers DEF Numbered, Token, Unreaped, Reaping
<1>23. Phases'
  BY <1>0, <1>1, <1>2, Numbers DEF Phases
<1>24. Closing'
  BY <1>0, <1>1, <1>2, Numbers DEF Closing, FlusherOn
<1>25. Behind'
  BY <1>0, <1>1, <1>2, Numbers DEF Behind
<1>26. Stale'
  BY <1>0, <1>1, <1>2, Numbers DEF Stale, Live, FlusherOn, Token
<1>27. Apart'
  BY <1>0, <1>1, <1>2, Numbers DEF Apart, Live, Ready, Loaded
<1>28. ErrorOnce'
  BY <1>0, <1>1, <1>2, Numbers DEF ErrorOnce, Live
<1>29. LastAlone'
  BY <1>0, <1>1, <1>2, Numbers DEF LastAlone, LastSent, Live
<1>30. CutHolds'
  BY <1>0, <1>1, <1>2, Numbers DEF CutHolds, CutOff, Live, Unreaped
<1>31. Uncut'
  BY <1>0, <1>1, <1>2, Numbers DEF Uncut, Failing, Somewhere, Live, Ready, Loaded, FlusherOn
<1>32. Paused'
  BY <1>0, <1>1, <1>2, Numbers, Data DEF Paused, Live, InFlight
<1>33. StreamIsWhole'
  BY <1>0, <1>1, <1>2, WholeKept
<1> QED
  BY <1>20, <1>21, <1>22, <1>23, <1>24, <1>25, <1>26, <1>27, <1>28, <1>29, <1>30, <1>31, <1>32, <1>33
    DEF IInv

(* No gate is engaged when the stream is closed: every chunk was sent.     *)
LEMMA CloseUngatedKeeps ==
  ASSUME IInv, CloseUngated
  PROVE  IInv'
<1>0. /\ TypeOK /\ Shaped /\ Numbered /\ Phases /\ Closing /\ Behind /\ Stale
      /\ Apart /\ ErrorOnce /\ LastAlone /\ CutHolds /\ Uncut /\ Paused /\ StreamIsWhole
  BY DEF IInv
<1>1. /\ prod = "closing" /\ ~gated /\ closed' = TRUE /\ prod' = "done"
      /\ UNCHANGED <<gate, current, made, gated, chunk, final, via, ctlVars, ctxDone, completed,
                     delivered, histVars>>
      /\ DeliveredSet' = DeliveredSet
  BY DEF CloseUngated, Close, DeliveredSet
<1>2. \A g \in Gates : /\ gate[g].flusher = "none" /\ ~FlusherOn(g) /\ ~gate[g].error
                       /\ gate[g].buf = <<>> /\ gate[g].hand = None
  BY <1>0, <1>1 DEF Shaped, Untouched, Shape, FlusherOn
<1>20. TypeOK'
  BY <1>0, <1>1, <1>2, Numbers DEF TypeOK, GateRec
<1>21. Shaped'
  BY <1>0, <1>1, <1>2, Numbers DEF Shaped, Shape, Untouched, FlusherOn
<1>22. Numbered'
  BY <1>0, <1>1, <1>2, Numbers DEF Numbered, Token, Unreaped, Reaping
<1>23. Phases'
  BY <1>0, <1>1, <1>2, Numbers DEF Phases
<1>24. Closing'
  BY <1>0, <1>1, <1>2, Numbers DEF Closing, FlusherOn
<1>25. Behind'
  BY <1>0, <1>1, <1>2, Numbers DEF Behind
<1>26. Stale'
  BY <1>0, <1>1, <1>2, Numbers DEF Stale, Live, FlusherOn, Token
<1>27. Apart'
  BY <1>0, <1>1, <1>2, Numbers DEF Apart, Live, Ready, Loaded
<1>28. ErrorOnce'
  BY <1>0, <1>1, <1>2, Numbers DEF ErrorOnce, Live
<1>29. LastAlone'
  BY <1>0, <1>1, <1>2, Numbers DEF LastAlone, LastSent, Live
<1>30. CutHolds'
  BY <1>0, <1>1, <1>2, Numbers DEF CutHolds, CutOff, Live, Unreaped
<1>31. Uncut'
  BY <1>0, <1>1, <1>2, Numbers DEF Uncut, Failing, Somewhere, Live, Ready, Loaded, FlusherOn
<1>32. Paused'
  BY <1>0, <1>1, <1>2, Numbers DEF Paused, Live, InFlight
<1>33. StreamIsWhole'
  BY <1>0, <1>1, <1>2, WholeAtTheEnd DEF Phases, Ready
<1> QED
  BY <1>20, <1>21, <1>22, <1>23, <1>24, <1>25, <1>26, <1>27, <1>28, <1>29, <1>30, <1>31, <1>32, <1>33
    DEF IInv

(* CloseStream looks the gate up, or creates another.                      *)
LEMMA CloseFindKeeps ==
  ASSUME IInv, CloseFind
  PROVE  IInv'
<1>0. /\ TypeOK /\ Shaped /\ Numbered /\ Phases /\ Closing /\ Behind /\ Stale
      /\ Apart /\ ErrorOnce /\ LastAlone /\ CutHolds /\ Uncut /\ Paused /\ StreamIsWhole
  BY DEF IInv
<1>1. /\ prod = "closing" /\ prod' = "end" /\ via' = Found /\ Find /\ gated
      /\ UNCHANGED <<gate, gated, chunk, final, ctlVars, ctxDone, closed, completed, delivered,
                     histVars>>
      /\ DeliveredSet' = DeliveredSet
  BY DEF CloseFind, DeliveredSet
<1>2. /\ current' = Found /\ current' \in Gates /\ current' # 0
      /\ made' \in Nat /\ current' <= made' /\ made' <= MaxGates
      /\ \/ current # 0 /\ current' = current /\ made' = made
         \/ /\ current = 0 /\ current' = made + 1 /\ made' = made + 1
            /\ gate[current'].state = "active" /\ ~gate[current'].cached
            /\ gate[current'].flusher = "none"
  BY <1>0, <1>1, FindGives, NewFields
<1>20. TypeOK'
  BY <1>0, <1>1, <1>2, Numbers DEF TypeOK, GateRec
<1>21. Shaped'
  BY <1>0, <1>1, <1>2, Numbers DEF Shaped, Shape, Untouched, FlusherOn
<1>22. Numbered'
  BY <1>0, <1>1, FindNumbers DEF Unreaped, Find
<1>23. Phases'
  BY <1>0, <1>1, <1>2, Numbers DEF Phases
<1>24. Closing'
  BY <1>0, <1>1, <1>2, Numbers DEF Closing, FlusherOn
<1>25. Behind'
  BY <1>0, <1>1, <1>2, Numbers DEF Behind
<1>26. Stale'
  BY <1>0, <1>1, <1>2, Numbers DEF Stale, Live, FlusherOn, Token
<1>27. Apart'
  BY <1>0, <1>1, <1>2, Numbers DEF Apart, Live, Ready, Loaded
<1>28. ErrorOnce'
  BY <1>0, <1>1, <1>2, Numbers DEF ErrorOnce, Live
<1>29. LastAlone'
  BY <1>0, <1>1, <1>2, Numbers DEF LastAlone, LastSent, Live
<1>30. CutHolds'
  BY <1>0, <1>1, <1>2, Numbers DEF CutHolds, CutOff, Live, Unreaped
<1>31. Uncut'
  BY <1>0, <1>1, <1>2, Numbers DEF Uncut, Failing, Somewhere, Live, Ready, Loaded, FlusherOn
<1>32. Paused'
  BY <1>0, <1>1, <1>2, Numbers DEF Paused, Live, InFlight
<1>33. StreamIsWhole'
  BY <1>0, <1>1, <1>2, WholeKept
<1> QED
  BY <1>20, <1>21, <1>22, <1>23, <1>24, <1>25, <1>26, <1>27, <1>28, <1>29, <1>30, <1>31, <1>32, <1>33
    DEF IInv

(* A flusher that runs is the one of the gate that CloseStream has ended.  *)
LEMMA CloseWaitKeeps ==
  ASSUME IInv, CloseWait
  PROVE  IInv'
<1>0. /\ TypeOK /\ Shaped /\ Numbered /\ Phases /\ Closing /\ Behind /\ Stale
      /\ Apart /\ ErrorOnce /\ LastAlone /\ CutHolds /\ Uncut /\ Paused /\ StreamIsWhole
  BY DEF IInv
<1>1. /\ prod = "wait"
      /\ \/ /\ current # 0 /\ FlusherOn(current) /\ prod' = "drain" /\ via' = current
            /\ closed' = closed
         \/ /\ ~(current # 0 /\ FlusherOn(current)) /\ prod' = "done" /\ via' = via
            /\ closed' = TRUE
      /\ UNCHANGED <<gate, current, made, gated, chunk, final, ctlVars, ctxDone, completed,
                     delivered, histVars>>
      /\ DeliveredSet' = DeliveredSet
  BY DEF CloseWait, Close, DeliveredSet
<1>2. current # 0 /\ FlusherOn(current) => current = via
  <2>1. current # 0 => current \in Gates
    BY <1>0, Data, Numbers
  <2> QED
    BY <1>0, <1>1, <2>1 DEF Closing, Shaped, Shape
<1>20. TypeOK'
  BY <1>0, <1>1, <1>2, Numbers DEF TypeOK, GateRec
<1>21. Shaped'
  BY <1>0, <1>1, <1>2, Numbers DEF Shaped, Shape, Untouched, FlusherOn
<1>22. Numbered'
  BY <1>0, <1>1, <1>2, Numbers DEF Numbered, Token, Unreaped, Reaping
<1>23. Phases'
  BY <1>0, <1>1, <1>2, Numbers DEF Phases
<1>24. Closing'
  BY <1>0, <1>1, <1>2, Numbers DEF Closing, FlusherOn
<1>25. Behind'
  BY <1>0, <1>1, <1>2, Numbers DEF Behind
<1>26. Stale'
  BY <1>0, <1>1, <1>2, Numbers DEF Stale, Live, FlusherOn, Token
<1>27. Apart'
  BY <1>0, <1>1, <1>2, Numbers DEF Apart, Live, Ready, Loaded
<1>28. ErrorOnce'
  BY <1>0, <1>1, <1>2, Numbers DEF ErrorOnce, Live
<1>29. LastAlone'
  BY <1>0, <1>1, <1>2, Numbers DEF LastAlone, LastSent, Live
<1>30. CutHolds'
  BY <1>0, <1>1, <1>2, Numbers DEF CutHolds, CutOff, Live, Unreaped
<1>31. Uncut'
  BY <1>0, <1>1, <1>2, Numbers DEF Uncut, Failing, Somewhere, Live, Ready, Loaded, FlusherOn
<1>32. Paused'
  BY <1>0, <1>1, <1>2, Numbers DEF Paused, Live, InFlight
<1>33. StreamIsWhole'
  <2>1. CASE closed' = closed
    BY <1>0, <1>1, <2>1, Numbers DEF StreamIsWhole, NothingDropped, OnceOnly, FinalIsLast,
       EndDropsLater
  <2>2. CASE closed' = TRUE /\ ~(current # 0 /\ FlusherOn(current))
    <3>1. ASSUME ~ctxDone, cut = None, NEW g \in Gates PROVE ~FlusherOn(g)
      <4>1. g # 0 /\ ~closed
        BY <1>0, <1>1, Numbers DEF Phases
      <4> QED
        BY <1>0, <2>2, <3>1, <4>1 DEF Uncut, Live
    <3> QED
      BY <1>0, <1>1, <3>1, WholeAtTheEnd DEF Phases, Ready
  <2> QED
    BY <1>1, <2>1, <2>2
<1> QED
  BY <1>20, <1>21, <1>22, <1>23, <1>24, <1>25, <1>26, <1>27, <1>28, <1>29, <1>30, <1>31, <1>32, <1>33
    DEF IInv

(* The flusher has left, and no other runs unless a plugin ended the       *)
(* stream.                                                                 *)
LEMMA CloseDrainedKeeps ==
  ASSUME IInv, CloseDrained
  PROVE  IInv'
<1>0. /\ TypeOK /\ Shaped /\ Numbered /\ Phases /\ Closing /\ Behind /\ Stale
      /\ Apart /\ ErrorOnce /\ LastAlone /\ CutHolds /\ Uncut /\ Paused /\ StreamIsWhole
  BY DEF IInv
<1>1. /\ prod = "drain" /\ gate[via].flusher = "exited" /\ closed' = TRUE /\ prod' = "done"
      /\ UNCHANGED <<gate, current, made, gated, chunk, final, via, ctlVars, ctxDone, completed,
                     delivered, histVars>>
      /\ DeliveredSet' = DeliveredSet
  BY DEF CloseDrained, Close, DeliveredSet
<1>2. ASSUME ~ctxDone, cut = None, NEW g \in Gates PROVE ~FlusherOn(g)
  <2>1. FlusherOn(g) => g = current /\ gate[g].cached /\ ~closed
    BY <1>0, <1>1, <1>2 DEF Uncut, Live, Phases, Shaped, Shape
  <2>2. ~FlusherOn(via)
    BY <1>1 DEF FlusherOn
  <2>3. g # 0
    BY Numbers
  <2> QED
    BY <1>0, <1>1, <2>1, <2>2, <2>3 DEF Closing
<1>20. TypeOK'
  BY <1>0, <1>1, Numbers DEF TypeOK, GateRec
<1>21. Shaped'
  BY <1>0, <1>1, Numbers DEF Shaped, Shape, Untouched, FlusherOn
<1>22. Numbered'
  BY <1>0, <1>1, Numbers DEF Numbered, Token, Unreaped, Reaping
<1>23. Phases'
  BY <1>0, <1>1, Numbers DEF Phases
<1>24. Closing'
  BY <1>0, <1>1, Numbers DEF Closing, FlusherOn
<1>25. Behind'
  BY <1>0, <1>1, Numbers DEF Behind
<1>26. Stale'
  BY <1>0, <1>1, Numbers DEF Stale, Live, FlusherOn, Token
<1>27. Apart'
  BY <1>0, <1>1, Numbers DEF Apart, Live, Ready, Loaded
<1>28. ErrorOnce'
  BY <1>0, <1>1, Numbers DEF ErrorOnce, Live
<1>29. LastAlone'
  BY <1>0, <1>1, Numbers DEF LastAlone, LastSent, Live
<1>30. CutHolds'
  BY <1>0, <1>1, Numbers DEF CutHolds, CutOff, Live, Unreaped
<1>31. Uncut'
  BY <1>0, <1>1, Numbers DEF Uncut, Failing, Somewhere, Live, Ready, Loaded, FlusherOn
<1>32. Paused'
  BY <1>0, <1>1, Numbers DEF Paused, Live, InFlight
<1>33. StreamIsWhole'
  BY <1>0, <1>1, <1>2, WholeAtTheEnd DEF Phases, Ready
<1> QED
  BY <1>20, <1>21, <1>22, <1>23, <1>24, <1>25, <1>26, <1>27, <1>28, <1>29, <1>30, <1>31, <1>32, <1>33
    DEF IInv

(* A plugin engages the gate.                                              *)
LEMMA EngageKeeps ==
  ASSUME IInv, Engage
  PROVE  IInv'
<1>0. /\ TypeOK /\ Shaped /\ Numbered /\ Phases /\ Closing /\ Behind /\ Stale
      /\ Apart /\ ErrorOnce /\ LastAlone /\ CutHolds /\ Uncut /\ Paused /\ StreamIsWhole
  BY DEF IInv
<1>1. /\ ctl = "idle" /\ op' \in {"pause", "resume", "end", "fail"} /\ ops' = ops + 1
      /\ ops < MaxOps /\ gated' = TRUE /\ ctl' = "engaged"
      /\ UNCHANGED <<gate, current, made, prodVars, at, ctxDone, closed, completed, delivered,
                     histVars>>
      /\ DeliveredSet' = DeliveredSet
  BY DEF Engage, DeliveredSet
<1>20. TypeOK'
  BY <1>0, <1>1, Numbers, GateAssumption DEF TypeOK, GateRec
<1>21. Shaped'
  BY <1>0, <1>1, Numbers DEF Shaped, Shape, Untouched, FlusherOn
<1>22. Numbered'
  BY <1>0, <1>1, Numbers DEF Numbered, Token, Unreaped, Reaping
<1>23. Phases'
  BY <1>0, <1>1, Numbers DEF Phases
<1>24. Closing'
  BY <1>0, <1>1, Numbers DEF Closing, FlusherOn
<1>25. Behind'
  BY <1>0, <1>1, Numbers DEF Behind
<1>26. Stale'
  BY <1>0, <1>1, Numbers DEF Stale, Live, FlusherOn, Token
<1>27. Apart'
  BY <1>0, <1>1, Numbers DEF Apart, Live, Ready, Loaded
<1>28. ErrorOnce'
  BY <1>0, <1>1, Numbers DEF ErrorOnce, Live
<1>29. LastAlone'
  BY <1>0, <1>1, Numbers DEF LastAlone, LastSent, Live
<1>30. CutHolds'
  BY <1>0, <1>1, Numbers DEF CutHolds, CutOff, Live, Unreaped
<1>31. Uncut'
  BY <1>0, <1>1, Numbers DEF Uncut, Failing, Somewhere, Live, Ready, Loaded, FlusherOn
<1>32. Paused'
  BY <1>0, <1>1, Numbers DEF Paused, Live, InFlight
<1>33. StreamIsWhole'
  BY <1>0, <1>1, WholeKept
<1> QED
  BY <1>20, <1>21, <1>22, <1>23, <1>24, <1>25, <1>26, <1>27, <1>28, <1>29, <1>30, <1>31, <1>32, <1>33
    DEF IInv

(* A plugin looks the gate up, or creates another.                         *)
LEMMA LookUpKeeps ==
  ASSUME IInv, LookUp
  PROVE  IInv'
<1>0. /\ TypeOK /\ Shaped /\ Numbered /\ Phases /\ Closing /\ Behind /\ Stale
      /\ Apart /\ ErrorOnce /\ LastAlone /\ CutHolds /\ Uncut /\ Paused /\ StreamIsWhole
  BY DEF IInv
<1>1. /\ ctl = "engaged" /\ Find /\ at' = Found /\ ctl' = "found"
      /\ UNCHANGED <<gate, gated, prodVars, op, ops, ctxDone, closed, completed, delivered,
                     histVars>>
      /\ DeliveredSet' = DeliveredSet
  BY DEF LookUp, DeliveredSet
<1>2. /\ current' = Found /\ current' \in Gates /\ current' # 0
      /\ made' \in Nat /\ current' <= made' /\ made' <= MaxGates
      /\ \/ current # 0 /\ current' = current /\ made' = made
         \/ /\ current = 0 /\ current' = made + 1 /\ made' = made + 1
            /\ gate[current'].state = "active" /\ ~gate[current'].cached
            /\ gate[current'].flusher = "none"
  BY <1>0, <1>1, FindGives, NewFields
<1>20. TypeOK'
  BY <1>0, <1>1, <1>2, Numbers DEF TypeOK, GateRec
<1>21. Shaped'
  BY <1>0, <1>1, <1>2, Numbers DEF Shaped, Shape, Untouched, FlusherOn
<1>22. Numbered'
  BY <1>0, <1>1, FindNumbers DEF Unreaped, Find
<1>23. Phases'
  BY <1>0, <1>1, <1>2, Numbers DEF Phases
<1>24. Closing'
  BY <1>0, <1>1, <1>2, Numbers DEF Closing, FlusherOn
<1>25. Behind'
  BY <1>0, <1>1, <1>2, Numbers DEF Behind
<1>26. Stale'
  BY <1>0, <1>1, <1>2, Numbers DEF Stale, Live, FlusherOn, Token, Phases
<1>27. Apart'
  BY <1>0, <1>1, <1>2, Numbers DEF Apart, Live, Ready, Loaded
<1>28. ErrorOnce'
  BY <1>0, <1>1, <1>2, Numbers DEF ErrorOnce, Live
<1>29. LastAlone'
  BY <1>0, <1>1, <1>2, Numbers DEF LastAlone, LastSent, Live
<1>30. CutHolds'
  BY <1>0, <1>1, <1>2, Numbers DEF CutHolds, CutOff, Live, Unreaped
<1>31. Uncut'
  BY <1>0, <1>1, <1>2, Numbers DEF Uncut, Failing, Somewhere, Live, Ready, Loaded, FlusherOn
<1>32. Paused'
  BY <1>0, <1>1, <1>2, Numbers DEF Paused, Live, InFlight
<1>33. StreamIsWhole'
  BY <1>0, <1>1, <1>2, WholeKept
<1> QED
  BY <1>20, <1>21, <1>22, <1>23, <1>24, <1>25, <1>26, <1>27, <1>28, <1>29, <1>30, <1>31, <1>32, <1>33
    DEF IInv

(* The client leaves.                                                      *)
LEMMA CancelKeeps ==
  ASSUME IInv, Cancel
  PROVE  IInv'
<1>0. /\ TypeOK /\ Shaped /\ Numbered /\ Phases /\ Closing /\ Behind /\ Stale
      /\ Apart /\ ErrorOnce /\ LastAlone /\ CutHolds /\ Uncut /\ Paused /\ StreamIsWhole
  BY DEF IInv
<1>1. /\ ~ctxDone /\ ~closed /\ ctxDone' = TRUE
      /\ UNCHANGED <<gate, current, made, gated, prodVars, ctlVars, closed, completed, delivered,
                     histVars>>
      /\ DeliveredSet' = DeliveredSet
  BY DEF Cancel, DeliveredSet
<1>20. TypeOK'
  BY <1>0, <1>1, Numbers DEF TypeOK, GateRec
<1>21. Shaped'
  BY <1>0, <1>1, Numbers DEF Shaped, Shape, Untouched, FlusherOn
<1>22. Numbered'
  BY <1>0, <1>1, Numbers DEF Numbered, Token, Unreaped, Reaping
<1>23. Phases'
  BY <1>0, <1>1, Numbers DEF Phases
<1>24. Closing'
  BY <1>0, <1>1, Numbers DEF Closing, FlusherOn
<1>25. Behind'
  BY <1>0, <1>1, Numbers DEF Behind
<1>26. Stale'
  BY <1>0, <1>1, Numbers DEF Stale, Live, FlusherOn, Token
<1>27. Apart'
  BY <1>0, <1>1, Numbers DEF Apart, Live, Ready, Loaded
<1>28. ErrorOnce'
  BY <1>0, <1>1, Numbers DEF ErrorOnce, Live
<1>29. LastAlone'
  BY <1>0, <1>1, Numbers DEF LastAlone, LastSent, Live
<1>30. CutHolds'
  BY <1>0, <1>1, Numbers DEF CutHolds, CutOff, Live, Unreaped
<1>31. Uncut'
  BY <1>0, <1>1, Numbers DEF Uncut, Failing, Somewhere, Live, Ready, Loaded, FlusherOn
<1>32. Paused'
  BY <1>0, <1>1, Numbers DEF Paused, Live, InFlight
<1>33. StreamIsWhole'
  BY <1>0, <1>1, Numbers DEF StreamIsWhole, NothingDropped, OnceOnly, FinalIsLast, EndDropsLater
<1> QED
  BY <1>20, <1>21, <1>22, <1>23, <1>24, <1>25, <1>26, <1>27, <1>28, <1>29, <1>30, <1>31, <1>32, <1>33
    DEF IInv

(* GateSend drops a chunk that comes after the end.                        *)
LEMMA GateDropsKeeps ==
  ASSUME IInv, SendFrame, AfterChunk,
         gate[via].state = "ended",
         Turns(via, "ended", gate[via].buf, gate[via].terminal, gate[via].error, TRUE, gate[via].flusher,
               gate[via].hand, gate[via].reap)
  PROVE  IInv'
<1>0. /\ TypeOK /\ Shaped /\ Numbered /\ Phases /\ Closing /\ Behind /\ Stale
      /\ Apart /\ ErrorOnce /\ LastAlone /\ CutHolds /\ Uncut /\ Paused /\ StreamIsWhole
  BY DEF IInv
<1>1. /\ UNCHANGED <<current, made, gated, chunk, final, via, ctlVars, ctxDone, closed, completed,
                     delivered, histVars>>
      /\ via \in Gates /\ via <= made /\ chunk \in Chunks /\ chunk \in Nat /\ ~closed
      /\ prod = "gate" /\ gated /\ Ready /\ DeliveredSet' = DeliveredSet
      /\ Live /\ gate[via].state # "ended" => via = current
      /\ gate[via].state # "ended" => gate[via].flusher \notin {"error", "exit", "exited"}
      /\ prod' = IF final THEN "closing" ELSE "next"
  BY SendFacts DEF SendFrame
<1>2. Shape(via) /\ gate[via].state \in {"active", "paused", "ended"}
  BY <1>0, <1>1, Data, GateFields DEF Shaped
<1>20. TypeOK'
  BY <1>0, <1>1, <1>2, Numbers DEF TypeOK, GateRec, Turns, On, Shape
<1>21. Shaped'
  BY <1>0, <1>1, <1>2, Numbers DEF Shaped, Shape, Untouched, FlusherOn, Turns, On, Shape
<1>22. Numbered'
  BY <1>0, <1>1, <1>2, SameNumbers DEF Turns, On, Unreaped, Shape
<1>23. Phases'
  BY <1>0, <1>1, <1>2, Numbers DEF Phases, Turns, On, Shape
<1>24. Closing'
  BY <1>0, <1>1, <1>2, Numbers DEF Closing, FlusherOn, Turns, On, Shape
<1>25. Behind'
  BY <1>0, <1>1, <1>2, Numbers DEF Behind, Turns, On, Shape
<1>26. Stale'
  BY <1>0, <1>1, <1>2, Numbers DEF Stale, Live, FlusherOn, Token, Turns, On, Shape
<1>27. Apart'
  BY <1>0, <1>1, <1>2, Numbers DEF Apart, Live, Ready, Loaded, Turns, On, Shape
<1>28. ErrorOnce'
  BY <1>0, <1>1, <1>2, Numbers DEF ErrorOnce, Live, Turns, On, Shape
<1>29. LastAlone'
  BY <1>0, <1>1, <1>2, Numbers DEF LastAlone, LastSent, Live, Turns, On, Shape
<1>30. CutHolds'
  BY <1>0, <1>1, <1>2, Numbers DEF CutHolds, CutOff, Live, Unreaped, Turns, On, Shape
<1>31. Uncut'
  BY <1>0, <1>1, <1>2, Numbers
    DEF Uncut, Failing, Somewhere, Live, Ready, Loaded, FlusherOn, Turns, On, Shape
<1>32. Paused'
  <2>1. prod' # "direct"
    BY <1>1
  <2>2. \A k \in Gates : gate'[k].flusher = "send" =>
            gate[k].flusher = "send" /\ gate'[k].hand = gate[k].hand
    BY <1>1 DEF Turns, On
  <2>3. current # 0 /\ gate'[current].state = "paused" => gate[current].state = "paused"
    <3>1. current # 0 => current \in Gates
      BY <1>0, Data, Numbers
    <3> QED
      BY <1>1, <3>1 DEF Turns
  <2> QED
    BY <1>0, <1>1, <2>1, <2>2, <2>3, PauseKept DEF Live
<1>33. StreamIsWhole'
  BY <1>0, <1>1, <1>2, WholeKept
<1> QED
  BY <1>20, <1>21, <1>22, <1>23, <1>24, <1>25, <1>26, <1>27, <1>28, <1>29, <1>30, <1>31, <1>32, <1>33
    DEF IInv

(* The replay buffer is full: the gate ends and owes an error.             *)
LEMMA GateOverflowsKeeps ==
  ASSUME IInv, SendFrame, AfterChunk,
         gate[via].state = "paused",
         Turns(via, "ended", gate[via].buf, gate[via].terminal, TRUE, TRUE, On(gate[via].flusher),
               gate[via].hand, gate[via].reap)
  PROVE  IInv'
<1>0. /\ TypeOK /\ Shaped /\ Numbered /\ Phases /\ Closing /\ Behind /\ Stale
      /\ Apart /\ ErrorOnce /\ LastAlone /\ CutHolds /\ Uncut /\ Paused /\ StreamIsWhole
  BY DEF IInv
<1>1. /\ UNCHANGED <<current, made, gated, chunk, final, via, ctlVars, ctxDone, closed, completed,
                     delivered, histVars>>
      /\ via \in Gates /\ via <= made /\ chunk \in Chunks /\ chunk \in Nat /\ ~closed
      /\ prod = "gate" /\ gated /\ Ready /\ DeliveredSet' = DeliveredSet
      /\ Live /\ gate[via].state # "ended" => via = current
      /\ gate[via].state # "ended" => gate[via].flusher \notin {"error", "exit", "exited"}
      /\ prod' = IF final THEN "closing" ELSE "next"
  BY SendFacts DEF SendFrame
<1>2. Shape(via) /\ gate[via].state \in {"active", "paused", "ended"}
  BY <1>0, <1>1, Data, GateFields DEF Shaped

<1>9. \A k \in Gates : Spares(k)
  BY GateSpares

<1>8. Live /\ cut # None => final
  BY <1>0, <1>1, OneGate DEF CutHolds, Unreaped
<1>20. TypeOK'
  BY <1>0, <1>1, <1>2, Numbers DEF TypeOK, GateRec, Turns, On, Shape
<1>21. Shaped'
  BY <1>0, <1>1, <1>2, Numbers DEF Shaped, Shape, Untouched, FlusherOn, Turns, On, Shape
<1>22. Numbered'
  BY <1>0, <1>1, <1>2, SameNumbers DEF Turns, On, Unreaped, Shape
<1>23. Phases'
  BY <1>0, <1>1, <1>2, Numbers DEF Phases, Turns, On, Shape
<1>24. Closing'
  BY <1>0, <1>1, <1>2, Numbers DEF Closing, FlusherOn, Turns, On, Shape
<1>25. Behind'
  BY <1>0, <1>1, <1>2, Numbers DEF Behind, Turns, On, Shape
<1>26. Stale'
  BY <1>0, <1>1, <1>2, Numbers DEF Stale, Live, FlusherOn, Token, Turns, On, Shape
<1>27. Apart'
  BY <1>0, <1>1, <1>9 DEF Apart, Live, Ready, Spares
<1>28. ErrorOnce'
  BY <1>0, <1>1, <1>2, Numbers DEF ErrorOnce, Live, Turns, On, Shape
<1>29. LastAlone'
  BY <1>0, <1>1, <1>2, Numbers DEF LastAlone, LastSent, Live, Turns, On, Shape
<1>30. CutHolds'
  BY <1>0, <1>1, <1>8, <1>9, FirstGate DEF CutHolds, CutOff, Live, Unreaped, Spares
<1>31. Uncut'
  BY <1>0, <1>1, <1>2, Numbers
    DEF Uncut, Failing, Somewhere, Live, Ready, Loaded, FlusherOn, Turns, On, Shape
<1>32. Paused'
  BY <1>0, <1>1, <1>2, Numbers DEF Paused, Live, InFlight, Turns, On, Shape
<1>33. StreamIsWhole'
  BY <1>0, <1>1, <1>2, WholeKept
<1> QED
  BY <1>20, <1>21, <1>22, <1>23, <1>24, <1>25, <1>26, <1>27, <1>28, <1>29, <1>30, <1>31, <1>32, <1>33
    DEF IInv

(* A chunk goes past an active gate that buffers nothing.                  *)
LEMMA GatePassesKeeps ==
  ASSUME IInv, SendFrame, prod' = "direct",
         gate[via].state = "active", ~final, gate[via].buf = <<>>,
         Turns(via, "active", gate[via].buf, gate[via].terminal, gate[via].error, TRUE, gate[via].flusher,
               gate[via].hand, gate[via].reap)
  PROVE  IInv'
<1>0. /\ TypeOK /\ Shaped /\ Numbered /\ Phases /\ Closing /\ Behind /\ Stale
      /\ Apart /\ ErrorOnce /\ LastAlone /\ CutHolds /\ Uncut /\ Paused /\ StreamIsWhole
  BY DEF IInv
<1>1. /\ UNCHANGED <<current, made, gated, chunk, final, via, ctlVars, ctxDone, closed, completed,
                     delivered, histVars>>
      /\ via \in Gates /\ via <= made /\ chunk \in Chunks /\ chunk \in Nat /\ ~closed
      /\ prod = "gate" /\ gated /\ Ready /\ DeliveredSet' = DeliveredSet
      /\ Live /\ gate[via].state # "ended" => via = current
      /\ gate[via].state # "ended" => gate[via].flusher \notin {"error", "exit", "exited"}
      /\ prod' = "direct"
  BY SendFacts DEF SendFrame
<1>2. Shape(via) /\ gate[via].state \in {"active", "paused", "ended"}
  BY <1>0, <1>1, Data, GateFields DEF Shaped

<1>9. \A k \in Gates : Spares(k)
  BY GateSpares

<1>8. Live /\ cut # None => final
  BY <1>0, <1>1, OneGate DEF CutHolds, Unreaped
<1>20. TypeOK'
  BY <1>0, <1>1, <1>2, Numbers DEF TypeOK, GateRec, Turns, On, Shape
<1>21. Shaped'
  BY <1>0, <1>1, <1>2, Numbers DEF Shaped, Shape, Untouched, FlusherOn, Turns, On, Shape
<1>22. Numbered'
  BY <1>0, <1>1, <1>2, SameNumbers DEF Turns, On, Unreaped, Shape
<1>23. Phases'
  BY <1>0, <1>1, <1>2, Numbers DEF Phases, Turns, On, Shape
<1>24. Closing'
  BY <1>0, <1>1, <1>2, Numbers DEF Closing, FlusherOn, Turns, On, Shape
<1>25. Behind'
  BY <1>0, <1>1, <1>2, Numbers DEF Behind, Turns, On, Shape
<1>26. Stale'
  BY <1>0, <1>1, <1>2, Numbers DEF Stale, Live, FlusherOn, Token, Turns, On, Shape
<1>27. Apart'
  BY <1>0, <1>1, <1>9 DEF Apart, Live, Ready, Spares
<1>28. ErrorOnce'
  BY <1>0, <1>1, <1>2, Numbers DEF ErrorOnce, Live, Turns, On, Shape
<1>29. LastAlone'
  BY <1>0, <1>1, <1>2, Numbers DEF LastAlone, LastSent, Live, Turns, On, Shape
<1>30. CutHolds'
  BY <1>0, <1>1, <1>8, <1>9, FirstGate DEF CutHolds, CutOff, Live, Unreaped, Spares
<1>31. Uncut'
  BY <1>0, <1>1, <1>2, Numbers
    DEF Uncut, Failing, Somewhere, Live, Ready, Loaded, FlusherOn, Turns, On, Shape
<1>32. Paused'
  BY <1>0, <1>1, <1>2, Numbers DEF Paused, Live, InFlight, Turns, On, Shape
<1>33. StreamIsWhole'
  BY <1>0, <1>1, <1>2, WholeKept
<1> QED
  BY <1>20, <1>21, <1>22, <1>23, <1>24, <1>25, <1>26, <1>27, <1>28, <1>29, <1>30, <1>31, <1>32, <1>33
    DEF IInv

(* The last chunk goes past a gate with nothing left to deliver.           *)
LEMMA GatePassesLastKeeps ==
  ASSUME IInv, SendFrame, prod' = "direct",
         gate[via].state = "active", final, gate[via].buf = <<>>,
         gate[via].flusher \in {"none", "exited"},
         Turns(via, "ended", gate[via].buf, gate[via].terminal, gate[via].error, TRUE, gate[via].flusher,
               gate[via].hand, gate[via].reap)
  PROVE  IInv'
<1>0. /\ TypeOK /\ Shaped /\ Numbered /\ Phases /\ Closing /\ Behind /\ Stale
      /\ Apart /\ ErrorOnce /\ LastAlone /\ CutHolds /\ Uncut /\ Paused /\ StreamIsWhole
  BY DEF IInv
<1>1. /\ UNCHANGED <<current, made, gated, chunk, final, via, ctlVars, ctxDone, closed, completed,
                     delivered, histVars>>
      /\ via \in Gates /\ via <= made /\ chunk \in Chunks /\ chunk \in Nat /\ ~closed
      /\ prod = "gate" /\ gated /\ Ready /\ DeliveredSet' = DeliveredSet
      /\ Live /\ gate[via].state # "ended" => via = current
      /\ gate[via].state # "ended" => gate[via].flusher \notin {"error", "exit", "exited"}
      /\ prod' = "direct"
  BY SendFacts DEF SendFrame
<1>2. Shape(via) /\ gate[via].state \in {"active", "paused", "ended"}
  BY <1>0, <1>1, Data, GateFields DEF Shaped

<1>3. \A k \in Gates : /\ gate'[k].buf = gate[k].buf /\ gate'[k].hand = gate[k].hand
                       /\ gate'[k].flusher = gate[k].flusher
  BY DEF Turns
<1>4. \A k \in Gates : Loaded(k)' = Loaded(k)
  BY <1>3 DEF Loaded

<1>9. \A k \in Gates : Spares(k)
  BY GateSpares

<1>8. Live /\ cut # None => final
  BY <1>0, <1>1, OneGate DEF CutHolds, Unreaped
<1>20. TypeOK'
  BY <1>0, <1>1, <1>2, Numbers DEF TypeOK, GateRec, Turns, On, Shape
<1>21. Shaped'
  BY <1>0, <1>1, <1>2, Numbers DEF Shaped, Shape, Untouched, FlusherOn, Turns, On, Shape
<1>22. Numbered'
  BY <1>0, <1>1, <1>2, SameNumbers DEF Turns, On, Unreaped, Shape
<1>23. Phases'
  BY <1>0, <1>1, <1>2, Numbers DEF Phases, Turns, On, Shape
<1>24. Closing'
  BY <1>0, <1>1, <1>2, Numbers DEF Closing, FlusherOn, Turns, On, Shape
<1>25. Behind'
  BY <1>0, <1>1, <1>2, Numbers DEF Behind, Turns, On, Shape
<1>26. Stale'
  BY <1>0, <1>1, <1>2, Numbers DEF Stale, Live, FlusherOn, Token, Turns, On, Shape
<1>27. Apart'
  BY <1>0, <1>1, <1>3, <1>4 DEF Apart, Live, Ready
<1>28. ErrorOnce'
  BY <1>0, <1>1, <1>2, Numbers DEF ErrorOnce, Live, Turns, On, Shape
<1>29. LastAlone'
  <2>1. SUFFICES ASSUME Live PROVE \A k \in Gates : gate[k].buf = <<>> /\ gate[k].hand = None
    BY <1>1, <1>3 DEF LastAlone, Live
  <2>2. ASSUME NEW k \in Gates PROVE gate[k].flusher # "send" /\ gate[k].buf = <<>>
    BY <1>0, <1>1, <2>1 DEF Stale
  <2> QED
    BY <1>0, <2>2 DEF Shaped, Shape
<1>30. CutHolds'
  BY <1>0, <1>1, <1>8, <1>9, FirstGate DEF CutHolds, CutOff, Live, Unreaped, Spares
<1>31. Uncut'
  <2>1. SUFFICES ASSUME Live, cut = None PROVE Uncut'
    BY <1>1 DEF Uncut, Live
  <2>2. \A k \in Gates : (gate'[k].error <=> gate[k].error) /\ (FlusherOn(k)' <=> FlusherOn(k))
    BY <1>1, <1>3 DEF Turns, FlusherOn
  <2>3. (Failing' <=> Failing) /\ \A c \in 1..chunk : Somewhere(c) => Somewhere(c)'
    BY <1>1, <1>3, <1>4, <2>2 DEF Failing, Somewhere, Ready
  <2> QED
    BY <1>0, <1>1, <1>9, <2>1, <2>2, <2>3 DEF Uncut, Spares
<1>32. Paused'
  BY <1>0, <1>1, <1>2, Numbers DEF Paused, Live, InFlight, Turns, On, Shape
<1>33. StreamIsWhole'
  BY <1>0, <1>1, <1>2, WholeKept
<1> QED
  BY <1>20, <1>21, <1>22, <1>23, <1>24, <1>25, <1>26, <1>27, <1>28, <1>29, <1>30, <1>31, <1>32, <1>33
    DEF IInv

(* A paused gate keeps the chunk, after those that it has.                 *)
LEMMA GateHoldsKeeps ==
  ASSUME IInv, SendFrame, AfterChunk,
         gate[via].state = "paused",
         Turns(via, "paused", Append(gate[via].buf, chunk), gate[via].terminal \/ final, gate[via].error, TRUE, On(gate[via].flusher),
               gate[via].hand, gate[via].reap)
  PROVE  IInv'
<1>0. /\ TypeOK /\ Shaped /\ Numbered /\ Phases /\ Closing /\ Behind /\ Stale
      /\ Apart /\ ErrorOnce /\ LastAlone /\ CutHolds /\ Uncut /\ Paused /\ StreamIsWhole
  BY DEF IInv
<1>1. /\ UNCHANGED <<current, made, gated, chunk, final, via, ctlVars, ctxDone, closed, completed,
                     delivered, histVars>>
      /\ via \in Gates /\ via <= made /\ chunk \in Chunks /\ chunk \in Nat /\ ~closed
      /\ prod = "gate" /\ gated /\ Ready /\ DeliveredSet' = DeliveredSet
      /\ Live /\ gate[via].state # "ended" => via = current
      /\ gate[via].state # "ended" => gate[via].flusher \notin {"error", "exit", "exited"}
      /\ prod' = IF final THEN "closing" ELSE "next"
  BY SendFacts DEF SendFrame
<1>2. Shape(via) /\ gate[via].state \in {"active", "paused", "ended"}
  BY <1>0, <1>1, Data, GateFields DEF Shaped

<1>3. /\ gate[via].buf \in Seq(Chunks) /\ Len(gate[via].buf) \in Nat
      /\ gate'[via].buf # <<>> /\ Len(gate'[via].buf) = Len(gate[via].buf) + 1
      /\ \A i \in 1..Len(gate[via].buf) : gate'[via].buf[i] = gate[via].buf[i]
      /\ gate'[via].buf[Len(gate[via].buf) + 1] = chunk
  BY <1>0, <1>1, Data, GateFields, AppendGives DEF Turns
<1>4. \A i \in 1..Len(gate'[via].buf) :
         \/ i \in 1..Len(gate[via].buf) /\ gate'[via].buf[i] = gate[via].buf[i]
         \/ i = Len(gate[via].buf) + 1 /\ gate'[via].buf[i] = chunk
  BY <1>3
<1>5. ASSUME NEW k \in Gates, k = via PROVE Loaded(k)' = Loaded(k) \cup {chunk}
  <2>1. /\ Loaded(k) = Elems(gate[k].buf) /\ Loaded(k)' = Elems(gate'[k].buf)
    BY DEF Loaded, Elems
  <2>2. Elems(gate'[k].buf) = Elems(gate[k].buf) \cup {chunk}
    <3> DEFINE s == gate[k].buf
               t == gate'[k].buf
    <3>1. /\ Len(s) \in Nat /\ Len(t) = Len(s) + 1
          /\ \A i \in 1..Len(s) : t[i] = s[i]
          /\ t[Len(s) + 1] = chunk
      BY <1>3, <1>5
    <3> HIDE DEF s, t
    <3>2. Elems(t) = Elems(s) \cup {chunk}
      BY <3>1, ElemsGrow
    <3> QED
      BY <3>2 DEF s, t
  <2> QED
    BY <2>1, <2>2
<1>6. ASSUME NEW k \in Gates, k # via PROVE gate'[k] = gate[k] /\ Loaded(k)' = Loaded(k)
  BY <1>6 DEF Turns, Loaded
<1>7. /\ gate'[via].hand = gate[via].hand
      /\ gate'[via].flusher = "send" <=> gate[via].flusher = "send"
  BY <1>2 DEF Turns, On

<1>8. Live /\ cut # None => final
  BY <1>0, <1>1, OneGate DEF CutHolds, Unreaped
<1>20. TypeOK'
  BY <1>0, <1>1, <1>2, Numbers DEF TypeOK, GateRec, Turns, On, Shape
<1>21. Shaped'
  BY <1>0, <1>1, <1>2, Numbers DEF Shaped, Shape, Untouched, FlusherOn, Turns, On, Shape
<1>22. Numbered'
  BY <1>0, <1>1, <1>2, SameNumbers DEF Turns, On, Unreaped, Shape
<1>23. Phases'
  BY <1>0, <1>1, <1>2, Numbers DEF Phases, Turns, On, Shape
<1>24. Closing'
  BY <1>0, <1>1, <1>2, Numbers DEF Closing, FlusherOn, Turns, On, Shape
<1>25. Behind'
  <2>1. ASSUME NEW k \in Gates
        PROVE  /\ \A i \in 1..Len(gate'[k].buf) : gate'[k].buf[i] <= chunk
               /\ gate'[k].flusher = "send" => gate'[k].hand <= chunk
    <3>1. CASE k = via
      BY <1>0, <1>1, <1>4, <1>7, <3>1 DEF Behind
    <3>2. CASE k # via
      BY <1>0, <1>6, <3>2 DEF Behind
    <3> QED
      BY <3>1, <3>2
  <2> QED
    BY <1>0, <1>1, <2>1 DEF Behind
<1>26. Stale'
  BY <1>0, <1>1, <1>2, Numbers DEF Stale, Live, FlusherOn, Token, Turns, On, Shape
<1>27. Apart'
  <2>1. SUFFICES ASSUME Live PROVE Apart'
    BY <1>1 DEF Apart, Live
  <2>2. ASSUME NEW i \in 1..Len(gate[via].buf)
        PROVE  /\ gate[via].buf[i] \in Nat /\ gate[via].buf[i] < chunk
               /\ gate[via].buf[i] \notin DeliveredSet
    BY <1>0, <1>1, <2>1, Data DEF Apart, Behind, Loaded
  <2>3. gate[via].flusher = "send" => gate[via].hand \in Nat /\ gate[via].hand < chunk
    BY <1>0, <1>1, <2>1, Data DEF Apart, Behind
  <2>4. ASSUME NEW k \in Gates
        PROVE  /\ \A i \in 1..Len(gate'[k].buf) :
                     /\ gate'[k].buf[i] \notin DeliveredSet
                     /\ gate'[k].flusher = "send" => gate'[k].hand < gate'[k].buf[i]
                     /\ \A j \in 1..Len(gate'[k].buf) :
                           i < j => gate'[k].buf[i] < gate'[k].buf[j]
               /\ gate'[k].flusher = "send" => gate'[k].hand \notin DeliveredSet
    <3>1. CASE k = via
      <4>1. ASSUME NEW i \in 1..Len(gate'[via].buf)
            PROVE  /\ gate'[via].buf[i] \notin DeliveredSet
                   /\ gate'[via].flusher = "send" => gate'[via].hand < gate'[via].buf[i]
        BY <1>0, <1>1, <1>4, <1>7, <2>1, <2>2, <2>3 DEF Apart
      <4>2. ASSUME NEW i \in 1..Len(gate'[via].buf), NEW j \in 1..Len(gate'[via].buf), i < j
            PROVE  gate'[via].buf[i] < gate'[via].buf[j]
        <5>1. i \in 1..Len(gate[via].buf) /\ gate'[via].buf[i] = gate[via].buf[i]
          BY <1>3, <4>2
        <5>2. CASE j \in 1..Len(gate[via].buf)
          BY <1>0, <1>1, <1>3, <2>1, <4>2, <5>1, <5>2 DEF Apart
        <5>3. CASE j \notin 1..Len(gate[via].buf)
          BY <1>4, <2>2, <5>1, <5>3
        <5> QED
          BY <5>2, <5>3
      <4>3. gate'[via].flusher = "send" => gate'[via].hand \notin DeliveredSet
        BY <1>0, <1>1, <1>7, <2>1 DEF Apart
      <4> QED
        BY <3>1, <4>1, <4>2, <4>3
    <3>2. CASE k # via
      BY <1>0, <1>6, <2>1, <3>2 DEF Apart
    <3> QED
      BY <3>1, <3>2
  <2>5. ~Ready'
    BY <1>1 DEF Ready
  <2> QED
    BY <1>0, <1>1, <2>1, <2>4, <2>5 DEF Apart
<1>28. ErrorOnce'
  BY <1>0, <1>1, <1>2, Numbers DEF ErrorOnce, Live, Turns, On, Shape
<1>29. LastAlone'
  <2>1. SUFFICES ASSUME Live PROVE ~LastSent'
    BY <1>1 DEF LastAlone, Live
  <2>2. chunk \notin DeliveredSet /\ \A k \in Gates : gate[k].hand # chunk
    BY <1>0, <1>1, <2>1 DEF Apart
  <2> QED
    BY <1>1, <1>6, <1>7, <2>2 DEF LastSent
<1>30. CutHolds'
  <2>1. SUFFICES ASSUME Live, cut # None PROVE CutHolds'
    BY <1>1 DEF CutHolds, Live
  <2>2. final /\ ~Unreaped' /\ prod' # "direct"
    BY <1>1, <1>8, <2>1 DEF Unreaped
  <2>3. ASSUME NEW k \in Gates
        PROVE  /\ \A i \in 1..Len(gate'[k].buf) : CutOff(gate'[k].buf[i])
               /\ gate'[k].flusher = "send" => CutOff(gate'[k].hand)
    <3>1. CASE k = via
      BY <1>0, <1>1, <1>4, <1>7, <2>1, <2>2, <3>1 DEF CutHolds, CutOff
    <3>2. CASE k # via
      BY <1>0, <1>6, <2>1, <3>2 DEF CutHolds
    <3> QED
      BY <3>1, <3>2
  <2> QED
    BY <1>0, <1>1, <2>1, <2>2, <2>3 DEF CutHolds, CutOff
<1>31. Uncut'
  <2>1. SUFFICES ASSUME Live, cut = None PROVE Uncut'
    BY <1>1 DEF Uncut, Live
  <2>2. Failing' <=> Failing
    BY <1>1 DEF Failing, Turns
  <2>3. ASSUME NEW c \in 1..chunk, Somewhere(c) PROVE Somewhere(c)'
    <3>1. CASE c = chunk
      BY <1>1, <1>5, <3>1 DEF Somewhere
    <3>2. CASE c # chunk
      BY <1>1, <1>5, <1>6, <1>7, <2>3, <3>2 DEF Somewhere
    <3> QED
      BY <3>1, <3>2
  <2>4. ASSUME NEW k \in Gates
        PROVE  /\ FlusherOn(k)' => k = current
               /\ gate'[k].error => FlusherOn(k)'
               /\ gate'[k].terminal => prod' \in {"closing", "end", "wait", "drain"}
               /\ /\ gate'[k].state = "ended"
                  /\ \/ prod' \in {"next", "hooks", "choose", "gate"}
                     \/ prod' = "direct" /\ ~final
                  => Failing
    <3>1. CASE k = via
      BY <1>0, <1>1, <1>2, <2>1, <3>1 DEF Uncut, FlusherOn, Turns, On, Shape
    <3>2. CASE k # via
      BY <1>0, <1>1, <1>6, <2>1, <3>2 DEF Uncut, FlusherOn
    <3> QED
      BY <3>1, <3>2
  <2> QED
    BY <1>0, <1>1, <2>1, <2>2, <2>3, <2>4 DEF Uncut
<1>32. Paused'
  BY <1>0, <1>1, <1>2, Numbers DEF Paused, Live, InFlight, Turns, On, Shape
<1>33. StreamIsWhole'
  BY <1>0, <1>1, <1>2, WholeKept
<1> QED
  BY <1>20, <1>21, <1>22, <1>23, <1>24, <1>25, <1>26, <1>27, <1>28, <1>29, <1>30, <1>31, <1>32, <1>33
    DEF IInv

(* The last chunk waits behind those that the flusher is delivering.       *)
LEMMA GateBuffersLastKeeps ==
  ASSUME IInv, SendFrame, AfterChunk,
         gate[via].state = "active", final,
         gate[via].flusher \notin {"none", "exited"} \/ gate[via].buf # <<>>,
         Turns(via, "ended", Append(gate[via].buf, chunk), gate[via].terminal, gate[via].error, TRUE, gate[via].flusher,
               gate[via].hand, gate[via].reap)
  PROVE  IInv'
<1>0. /\ TypeOK /\ Shaped /\ Numbered /\ Phases /\ Closing /\ Behind /\ Stale
      /\ Apart /\ ErrorOnce /\ LastAlone /\ CutHolds /\ Uncut /\ Paused /\ StreamIsWhole
  BY DEF IInv
<1>1. /\ UNCHANGED <<current, made, gated, chunk, final, via, ctlVars, ctxDone, closed, completed,
                     delivered, histVars>>
      /\ via \in Gates /\ via <= made /\ chunk \in Chunks /\ chunk \in Nat /\ ~closed
      /\ prod = "gate" /\ gated /\ Ready /\ DeliveredSet' = DeliveredSet
      /\ Live /\ gate[via].state # "ended" => via = current
      /\ gate[via].state # "ended" => gate[via].flusher \notin {"error", "exit", "exited"}
      /\ prod' = IF final THEN "closing" ELSE "next"
  BY SendFacts DEF SendFrame
<1>2. Shape(via) /\ gate[via].state \in {"active", "paused", "ended"}
  BY <1>0, <1>1, Data, GateFields DEF Shaped

<1>3. /\ gate[via].buf \in Seq(Chunks) /\ Len(gate[via].buf) \in Nat
      /\ gate'[via].buf # <<>> /\ Len(gate'[via].buf) = Len(gate[via].buf) + 1
      /\ \A i \in 1..Len(gate[via].buf) : gate'[via].buf[i] = gate[via].buf[i]
      /\ gate'[via].buf[Len(gate[via].buf) + 1] = chunk
  BY <1>0, <1>1, Data, GateFields, AppendGives DEF Turns
<1>4. \A i \in 1..Len(gate'[via].buf) :
         \/ i \in 1..Len(gate[via].buf) /\ gate'[via].buf[i] = gate[via].buf[i]
         \/ i = Len(gate[via].buf) + 1 /\ gate'[via].buf[i] = chunk
  BY <1>3
<1>5. ASSUME NEW k \in Gates, k = via PROVE Loaded(k)' = Loaded(k) \cup {chunk}
  <2>1. /\ Loaded(k) = Elems(gate[k].buf) /\ Loaded(k)' = Elems(gate'[k].buf)
    BY DEF Loaded, Elems
  <2>2. Elems(gate'[k].buf) = Elems(gate[k].buf) \cup {chunk}
    <3> DEFINE s == gate[k].buf
               t == gate'[k].buf
    <3>1. /\ Len(s) \in Nat /\ Len(t) = Len(s) + 1
          /\ \A i \in 1..Len(s) : t[i] = s[i]
          /\ t[Len(s) + 1] = chunk
      BY <1>3, <1>5
    <3> HIDE DEF s, t
    <3>2. Elems(t) = Elems(s) \cup {chunk}
      BY <3>1, ElemsGrow
    <3> QED
      BY <3>2 DEF s, t
  <2> QED
    BY <2>1, <2>2
<1>6. ASSUME NEW k \in Gates, k # via PROVE gate'[k] = gate[k] /\ Loaded(k)' = Loaded(k)
  BY <1>6 DEF Turns, Loaded
<1>7. /\ gate'[via].hand = gate[via].hand
      /\ gate'[via].flusher = "send" <=> gate[via].flusher = "send"
  BY <1>2 DEF Turns, On

<1>8. Live /\ cut # None => final
  BY <1>0, <1>1, OneGate DEF CutHolds, Unreaped
<1>20. TypeOK'
  BY <1>0, <1>1, <1>2, Numbers DEF TypeOK, GateRec, Turns, On, Shape
<1>21. Shaped'
  BY <1>0, <1>1, <1>2, Numbers DEF Shaped, Shape, Untouched, FlusherOn, Turns, On, Shape
<1>22. Numbered'
  BY <1>0, <1>1, <1>2, SameNumbers DEF Turns, On, Unreaped, Shape
<1>23. Phases'
  BY <1>0, <1>1, <1>2, Numbers DEF Phases, Turns, On, Shape
<1>24. Closing'
  BY <1>0, <1>1, <1>2, Numbers DEF Closing, FlusherOn, Turns, On, Shape
<1>25. Behind'
  <2>1. ASSUME NEW k \in Gates
        PROVE  /\ \A i \in 1..Len(gate'[k].buf) : gate'[k].buf[i] <= chunk
               /\ gate'[k].flusher = "send" => gate'[k].hand <= chunk
    <3>1. CASE k = via
      BY <1>0, <1>1, <1>4, <1>7, <3>1 DEF Behind
    <3>2. CASE k # via
      BY <1>0, <1>6, <3>2 DEF Behind
    <3> QED
      BY <3>1, <3>2
  <2> QED
    BY <1>0, <1>1, <2>1 DEF Behind
<1>26. Stale'
  BY <1>0, <1>1, <1>2, Numbers DEF Stale, Live, FlusherOn, Token, Turns, On, Shape
<1>27. Apart'
  <2>1. SUFFICES ASSUME Live PROVE Apart'
    BY <1>1 DEF Apart, Live
  <2>2. ASSUME NEW i \in 1..Len(gate[via].buf)
        PROVE  /\ gate[via].buf[i] \in Nat /\ gate[via].buf[i] < chunk
               /\ gate[via].buf[i] \notin DeliveredSet
    BY <1>0, <1>1, <2>1, Data DEF Apart, Behind, Loaded
  <2>3. gate[via].flusher = "send" => gate[via].hand \in Nat /\ gate[via].hand < chunk
    BY <1>0, <1>1, <2>1, Data DEF Apart, Behind
  <2>4. ASSUME NEW k \in Gates
        PROVE  /\ \A i \in 1..Len(gate'[k].buf) :
                     /\ gate'[k].buf[i] \notin DeliveredSet
                     /\ gate'[k].flusher = "send" => gate'[k].hand < gate'[k].buf[i]
                     /\ \A j \in 1..Len(gate'[k].buf) :
                           i < j => gate'[k].buf[i] < gate'[k].buf[j]
               /\ gate'[k].flusher = "send" => gate'[k].hand \notin DeliveredSet
    <3>1. CASE k = via
      <4>1. ASSUME NEW i \in 1..Len(gate'[via].buf)
            PROVE  /\ gate'[via].buf[i] \notin DeliveredSet
                   /\ gate'[via].flusher = "send" => gate'[via].hand < gate'[via].buf[i]
        BY <1>0, <1>1, <1>4, <1>7, <2>1, <2>2, <2>3 DEF Apart
      <4>2. ASSUME NEW i \in 1..Len(gate'[via].buf), NEW j \in 1..Len(gate'[via].buf), i < j
            PROVE  gate'[via].buf[i] < gate'[via].buf[j]
        <5>1. i \in 1..Len(gate[via].buf) /\ gate'[via].buf[i] = gate[via].buf[i]
          BY <1>3, <4>2
        <5>2. CASE j \in 1..Len(gate[via].buf)
          BY <1>0, <1>1, <1>3, <2>1, <4>2, <5>1, <5>2 DEF Apart
        <5>3. CASE j \notin 1..Len(gate[via].buf)
          BY <1>4, <2>2, <5>1, <5>3
        <5> QED
          BY <5>2, <5>3
      <4>3. gate'[via].flusher = "send" => gate'[via].hand \notin DeliveredSet
        BY <1>0, <1>1, <1>7, <2>1 DEF Apart
      <4> QED
        BY <3>1, <4>1, <4>2, <4>3
    <3>2. CASE k # via
      BY <1>0, <1>6, <2>1, <3>2 DEF Apart
    <3> QED
      BY <3>1, <3>2
  <2>5. ~Ready'
    BY <1>1 DEF Ready
  <2> QED
    BY <1>0, <1>1, <2>1, <2>4, <2>5 DEF Apart
<1>28. ErrorOnce'
  BY <1>0, <1>1, <1>2, Numbers DEF ErrorOnce, Live, Turns, On, Shape
<1>29. LastAlone'
  <2>1. SUFFICES ASSUME Live PROVE ~LastSent'
    BY <1>1 DEF LastAlone, Live
  <2>2. chunk \notin DeliveredSet /\ \A k \in Gates : gate[k].hand # chunk
    BY <1>0, <1>1, <2>1 DEF Apart
  <2> QED
    BY <1>1, <1>6, <1>7, <2>2 DEF LastSent
<1>30. CutHolds'
  <2>1. SUFFICES ASSUME Live, cut # None PROVE CutHolds'
    BY <1>1 DEF CutHolds, Live
  <2>2. final /\ ~Unreaped' /\ prod' # "direct"
    BY <1>1, <1>8, <2>1 DEF Unreaped
  <2>3. ASSUME NEW k \in Gates
        PROVE  /\ \A i \in 1..Len(gate'[k].buf) : CutOff(gate'[k].buf[i])
               /\ gate'[k].flusher = "send" => CutOff(gate'[k].hand)
    <3>1. CASE k = via
      BY <1>0, <1>1, <1>4, <1>7, <2>1, <2>2, <3>1 DEF CutHolds, CutOff
    <3>2. CASE k # via
      BY <1>0, <1>6, <2>1, <3>2 DEF CutHolds
    <3> QED
      BY <3>1, <3>2
  <2> QED
    BY <1>0, <1>1, <2>1, <2>2, <2>3 DEF CutHolds, CutOff
<1>31. Uncut'
  <2>1. SUFFICES ASSUME Live, cut = None PROVE Uncut'
    BY <1>1 DEF Uncut, Live
  <2>2. Failing' <=> Failing
    BY <1>1 DEF Failing, Turns
  <2>3. ASSUME NEW c \in 1..chunk, Somewhere(c) PROVE Somewhere(c)'
    <3>1. CASE c = chunk
      BY <1>1, <1>5, <3>1 DEF Somewhere
    <3>2. CASE c # chunk
      BY <1>1, <1>5, <1>6, <1>7, <2>3, <3>2 DEF Somewhere
    <3> QED
      BY <3>1, <3>2
  <2>4. ASSUME NEW k \in Gates
        PROVE  /\ FlusherOn(k)' => k = current
               /\ gate'[k].error => FlusherOn(k)'
               /\ gate'[k].terminal => prod' \in {"closing", "end", "wait", "drain"}
               /\ /\ gate'[k].state = "ended"
                  /\ \/ prod' \in {"next", "hooks", "choose", "gate"}
                     \/ prod' = "direct" /\ ~final
                  => Failing
    <3>1. CASE k = via
      BY <1>0, <1>1, <1>2, <2>1, <3>1 DEF Uncut, FlusherOn, Turns, On, Shape
    <3>2. CASE k # via
      BY <1>0, <1>1, <1>6, <2>1, <3>2 DEF Uncut, FlusherOn
    <3> QED
      BY <3>1, <3>2
  <2> QED
    BY <1>0, <1>1, <2>1, <2>2, <2>3, <2>4 DEF Uncut
<1>32. Paused'
  BY <1>0, <1>1, <1>2, Numbers DEF Paused, Live, InFlight, Turns, On, Shape
<1>33. StreamIsWhole'
  BY <1>0, <1>1, <1>2, WholeKept
<1> QED
  BY <1>20, <1>21, <1>22, <1>23, <1>24, <1>25, <1>26, <1>27, <1>28, <1>29, <1>30, <1>31, <1>32, <1>33
    DEF IInv

(* A chunk waits behind those that are buffered.                           *)
LEMMA GateBuffersKeeps ==
  ASSUME IInv, SendFrame, AfterChunk,
         gate[via].state = "active", ~final, gate[via].buf # <<>>,
         Turns(via, "active", Append(gate[via].buf, chunk), gate[via].terminal, gate[via].error, TRUE, gate[via].flusher,
               gate[via].hand, gate[via].reap)
  PROVE  IInv'
<1>0. /\ TypeOK /\ Shaped /\ Numbered /\ Phases /\ Closing /\ Behind /\ Stale
      /\ Apart /\ ErrorOnce /\ LastAlone /\ CutHolds /\ Uncut /\ Paused /\ StreamIsWhole
  BY DEF IInv
<1>1. /\ UNCHANGED <<current, made, gated, chunk, final, via, ctlVars, ctxDone, closed, completed,
                     delivered, histVars>>
      /\ via \in Gates /\ via <= made /\ chunk \in Chunks /\ chunk \in Nat /\ ~closed
      /\ prod = "gate" /\ gated /\ Ready /\ DeliveredSet' = DeliveredSet
      /\ Live /\ gate[via].state # "ended" => via = current
      /\ gate[via].state # "ended" => gate[via].flusher \notin {"error", "exit", "exited"}
      /\ prod' = IF final THEN "closing" ELSE "next"
  BY SendFacts DEF SendFrame
<1>2. Shape(via) /\ gate[via].state \in {"active", "paused", "ended"}
  BY <1>0, <1>1, Data, GateFields DEF Shaped

<1>3. /\ gate[via].buf \in Seq(Chunks) /\ Len(gate[via].buf) \in Nat
      /\ gate'[via].buf # <<>> /\ Len(gate'[via].buf) = Len(gate[via].buf) + 1
      /\ \A i \in 1..Len(gate[via].buf) : gate'[via].buf[i] = gate[via].buf[i]
      /\ gate'[via].buf[Len(gate[via].buf) + 1] = chunk
  BY <1>0, <1>1, Data, GateFields, AppendGives DEF Turns
<1>4. \A i \in 1..Len(gate'[via].buf) :
         \/ i \in 1..Len(gate[via].buf) /\ gate'[via].buf[i] = gate[via].buf[i]
         \/ i = Len(gate[via].buf) + 1 /\ gate'[via].buf[i] = chunk
  BY <1>3
<1>5. ASSUME NEW k \in Gates, k = via PROVE Loaded(k)' = Loaded(k) \cup {chunk}
  <2>1. /\ Loaded(k) = Elems(gate[k].buf) /\ Loaded(k)' = Elems(gate'[k].buf)
    BY DEF Loaded, Elems
  <2>2. Elems(gate'[k].buf) = Elems(gate[k].buf) \cup {chunk}
    <3> DEFINE s == gate[k].buf
               t == gate'[k].buf
    <3>1. /\ Len(s) \in Nat /\ Len(t) = Len(s) + 1
          /\ \A i \in 1..Len(s) : t[i] = s[i]
          /\ t[Len(s) + 1] = chunk
      BY <1>3, <1>5
    <3> HIDE DEF s, t
    <3>2. Elems(t) = Elems(s) \cup {chunk}
      BY <3>1, ElemsGrow
    <3> QED
      BY <3>2 DEF s, t
  <2> QED
    BY <2>1, <2>2
<1>6. ASSUME NEW k \in Gates, k # via PROVE gate'[k] = gate[k] /\ Loaded(k)' = Loaded(k)
  BY <1>6 DEF Turns, Loaded
<1>7. /\ gate'[via].hand = gate[via].hand
      /\ gate'[via].flusher = "send" <=> gate[via].flusher = "send"
  BY <1>2 DEF Turns, On

<1>8. Live /\ cut # None => final
  BY <1>0, <1>1, OneGate DEF CutHolds, Unreaped
<1>20. TypeOK'
  BY <1>0, <1>1, <1>2, Numbers DEF TypeOK, GateRec, Turns, On, Shape
<1>21. Shaped'
  BY <1>0, <1>1, <1>2, Numbers DEF Shaped, Shape, Untouched, FlusherOn, Turns, On, Shape
<1>22. Numbered'
  BY <1>0, <1>1, <1>2, SameNumbers DEF Turns, On, Unreaped, Shape
<1>23. Phases'
  BY <1>0, <1>1, <1>2, Numbers DEF Phases, Turns, On, Shape
<1>24. Closing'
  BY <1>0, <1>1, <1>2, Numbers DEF Closing, FlusherOn, Turns, On, Shape
<1>25. Behind'
  <2>1. ASSUME NEW k \in Gates
        PROVE  /\ \A i \in 1..Len(gate'[k].buf) : gate'[k].buf[i] <= chunk
               /\ gate'[k].flusher = "send" => gate'[k].hand <= chunk
    <3>1. CASE k = via
      BY <1>0, <1>1, <1>4, <1>7, <3>1 DEF Behind
    <3>2. CASE k # via
      BY <1>0, <1>6, <3>2 DEF Behind
    <3> QED
      BY <3>1, <3>2
  <2> QED
    BY <1>0, <1>1, <2>1 DEF Behind
<1>26. Stale'
  BY <1>0, <1>1, <1>2, Numbers DEF Stale, Live, FlusherOn, Token, Turns, On, Shape
<1>27. Apart'
  <2>1. SUFFICES ASSUME Live PROVE Apart'
    BY <1>1 DEF Apart, Live
  <2>2. ASSUME NEW i \in 1..Len(gate[via].buf)
        PROVE  /\ gate[via].buf[i] \in Nat /\ gate[via].buf[i] < chunk
               /\ gate[via].buf[i] \notin DeliveredSet
    BY <1>0, <1>1, <2>1, Data DEF Apart, Behind, Loaded
  <2>3. gate[via].flusher = "send" => gate[via].hand \in Nat /\ gate[via].hand < chunk
    BY <1>0, <1>1, <2>1, Data DEF Apart, Behind
  <2>4. ASSUME NEW k \in Gates
        PROVE  /\ \A i \in 1..Len(gate'[k].buf) :
                     /\ gate'[k].buf[i] \notin DeliveredSet
                     /\ gate'[k].flusher = "send" => gate'[k].hand < gate'[k].buf[i]
                     /\ \A j \in 1..Len(gate'[k].buf) :
                           i < j => gate'[k].buf[i] < gate'[k].buf[j]
               /\ gate'[k].flusher = "send" => gate'[k].hand \notin DeliveredSet
    <3>1. CASE k = via
      <4>1. ASSUME NEW i \in 1..Len(gate'[via].buf)
            PROVE  /\ gate'[via].buf[i] \notin DeliveredSet
                   /\ gate'[via].flusher = "send" => gate'[via].hand < gate'[via].buf[i]
        BY <1>0, <1>1, <1>4, <1>7, <2>1, <2>2, <2>3 DEF Apart
      <4>2. ASSUME NEW i \in 1..Len(gate'[via].buf), NEW j \in 1..Len(gate'[via].buf), i < j
            PROVE  gate'[via].buf[i] < gate'[via].buf[j]
        <5>1. i \in 1..Len(gate[via].buf) /\ gate'[via].buf[i] = gate[via].buf[i]
          BY <1>3, <4>2
        <5>2. CASE j \in 1..Len(gate[via].buf)
          BY <1>0, <1>1, <1>3, <2>1, <4>2, <5>1, <5>2 DEF Apart
        <5>3. CASE j \notin 1..Len(gate[via].buf)
          BY <1>4, <2>2, <5>1, <5>3
        <5> QED
          BY <5>2, <5>3
      <4>3. gate'[via].flusher = "send" => gate'[via].hand \notin DeliveredSet
        BY <1>0, <1>1, <1>7, <2>1 DEF Apart
      <4> QED
        BY <3>1, <4>1, <4>2, <4>3
    <3>2. CASE k # via
      BY <1>0, <1>6, <2>1, <3>2 DEF Apart
    <3> QED
      BY <3>1, <3>2
  <2>5. ~Ready'
    BY <1>1 DEF Ready
  <2> QED
    BY <1>0, <1>1, <2>1, <2>4, <2>5 DEF Apart
<1>28. ErrorOnce'
  BY <1>0, <1>1, <1>2, Numbers DEF ErrorOnce, Live, Turns, On, Shape
<1>29. LastAlone'
  <2>1. SUFFICES ASSUME Live PROVE ~LastSent'
    BY <1>1 DEF LastAlone, Live
  <2>2. chunk \notin DeliveredSet /\ \A k \in Gates : gate[k].hand # chunk
    BY <1>0, <1>1, <2>1 DEF Apart
  <2> QED
    BY <1>1, <1>6, <1>7, <2>2 DEF LastSent
<1>30. CutHolds'
  <2>1. SUFFICES ASSUME Live, cut # None PROVE CutHolds'
    BY <1>1 DEF CutHolds, Live
  <2>2. final /\ ~Unreaped' /\ prod' # "direct"
    BY <1>1, <1>8, <2>1 DEF Unreaped
  <2>3. ASSUME NEW k \in Gates
        PROVE  /\ \A i \in 1..Len(gate'[k].buf) : CutOff(gate'[k].buf[i])
               /\ gate'[k].flusher = "send" => CutOff(gate'[k].hand)
    <3>1. CASE k = via
      BY <1>0, <1>1, <1>4, <1>7, <2>1, <2>2, <3>1 DEF CutHolds, CutOff
    <3>2. CASE k # via
      BY <1>0, <1>6, <2>1, <3>2 DEF CutHolds
    <3> QED
      BY <3>1, <3>2
  <2> QED
    BY <1>0, <1>1, <2>1, <2>2, <2>3 DEF CutHolds, CutOff
<1>31. Uncut'
  <2>1. SUFFICES ASSUME Live, cut = None PROVE Uncut'
    BY <1>1 DEF Uncut, Live
  <2>2. Failing' <=> Failing
    BY <1>1 DEF Failing, Turns
  <2>3. ASSUME NEW c \in 1..chunk, Somewhere(c) PROVE Somewhere(c)'
    <3>1. CASE c = chunk
      BY <1>1, <1>5, <3>1 DEF Somewhere
    <3>2. CASE c # chunk
      BY <1>1, <1>5, <1>6, <1>7, <2>3, <3>2 DEF Somewhere
    <3> QED
      BY <3>1, <3>2
  <2>4. ASSUME NEW k \in Gates
        PROVE  /\ FlusherOn(k)' => k = current
               /\ gate'[k].error => FlusherOn(k)'
               /\ gate'[k].terminal => prod' \in {"closing", "end", "wait", "drain"}
               /\ /\ gate'[k].state = "ended"
                  /\ \/ prod' \in {"next", "hooks", "choose", "gate"}
                     \/ prod' = "direct" /\ ~final
                  => Failing
    <3>1. CASE k = via
      BY <1>0, <1>1, <1>2, <2>1, <3>1 DEF Uncut, FlusherOn, Turns, On, Shape
    <3>2. CASE k # via
      BY <1>0, <1>1, <1>6, <2>1, <3>2 DEF Uncut, FlusherOn
    <3> QED
      BY <3>1, <3>2
  <2> QED
    BY <1>0, <1>1, <2>1, <2>2, <2>3, <2>4 DEF Uncut
<1>32. Paused'
  BY <1>0, <1>1, <1>2, Numbers DEF Paused, Live, InFlight, Turns, On, Shape
<1>33. StreamIsWhole'
  BY <1>0, <1>1, <1>2, WholeKept
<1> QED
  BY <1>20, <1>21, <1>22, <1>23, <1>24, <1>25, <1>26, <1>27, <1>28, <1>29, <1>30, <1>31, <1>32, <1>33
    DEF IInv

(* The last chunk's post-hooks reap the gate, or put the reaping off.      *)
LEMMA FinalHooksKeeps ==
  ASSUME IInv, FinalHooks
  PROVE  IInv'
<1>0. /\ TypeOK /\ Shaped /\ Numbered /\ Phases /\ Closing /\ Behind /\ Stale
      /\ Apart /\ ErrorOnce /\ LastAlone /\ CutHolds /\ Uncut /\ Paused /\ StreamIsWhole
  BY DEF IInv
<1>1. /\ prod = "hooks" /\ prod' = "choose"
      /\ UNCHANGED <<gated, chunk, final, via, ctlVars, ctxDone, closed, completed,
                     delivered, histVars>>
      /\ DeliveredSet' = DeliveredSet
  BY DEF FinalHooks, DeliveredSet
<1>2. /\ final /\ ~closed /\ Unreaped /\ ~Unreaped' /\ chunk # 0
      /\ \A g \in Gates : ~gate[g].reap
      /\ current \in Gates \cup {0}
  BY <1>0, <1>1, Data, Numbers DEF Phases, Unreaped, Numbered
<1>3. \/ UNCHANGED <<gate, current, made>>
      \/ /\ made' = made /\ current' = current /\ current \in Gates
         /\ FlusherOn(current) \/ gate[current].state = "paused"
         /\ Turns(current, gate[current].state, gate[current].buf, gate[current].terminal,
                  gate[current].error, gate[current].cached, gate[current].flusher,
                  gate[current].hand, TRUE)
      \/ /\ current # 0 /\ current' = 0 /\ gate' = gate /\ made' = made /\ current \in Gates
         /\ ~FlusherOn(current) /\ gate[current].state # "paused"
  BY <1>0, <1>2, Data, ReapTurns DEF FinalHooks
<1>4. /\ gate' \in [Gates -> GateRec] /\ made' = made
      /\ \A g \in Gates : /\ gate'[g].state = gate[g].state /\ gate'[g].buf = gate[g].buf
                          /\ (gate'[g].terminal <=> gate[g].terminal)
                          /\ (gate'[g].error <=> gate[g].error)
                          /\ (gate'[g].cached <=> gate[g].cached)
                          /\ gate'[g].flusher = gate[g].flusher /\ gate'[g].hand = gate[g].hand
                          /\ (FlusherOn(g)' <=> FlusherOn(g)) /\ Loaded(g)' = Loaded(g)
                          /\ g # current => gate'[g] = gate[g]
      /\ current' = current \/ current' = 0
      /\ current' = 0 /\ current # 0 =>
            gate[current].buf = <<>> /\ ~FlusherOn(current) /\ gate[current].flusher # "send"
  BY <1>0, <1>2, <1>3, Data DEF Turns, FlusherOn, Loaded, Shaped, Shape
<1>20. TypeOK'
  BY <1>0, <1>1, <1>4, Numbers DEF TypeOK, GateRec
<1>21. Shaped'
  BY <1>0, <1>1, <1>2, <1>4, Numbers DEF Shaped, Shape, Untouched, FlusherOn
<1>22. Numbered'
  <2> DEFINE complete == IF completed THEN 1 ELSE 0
  <2>1. /\ complete \in Nat /\ complete' = complete /\ made \in Nat /\ Reaping
        /\ made <= (IF current = 0 THEN 0 ELSE 1) + complete
    BY <1>0, <1>1, <1>2, Data DEF Numbered, Reaping
  <2>2. \A g \in Gates : Token(g)' => g = current /\ current' # 0
    BY <1>1, <1>2, <1>3, <1>4 DEF Token, Turns
  <2>3. current' = 0 /\ current # 0 => ~Reaping'
    BY <1>2, <2>2 DEF Reaping
  <2>4. made' <= (IF current' = 0 THEN 0 ELSE 1) + (IF Reaping' THEN 0 ELSE 1) + complete'
    <3> HIDE DEF complete
    <3> QED
      BY <1>4, <2>1, <2>3
  <2>5. \A g \in Gates : g > made' => gate'[g] = NewGate
    BY <1>0, <1>4, Data, Numbers DEF Numbered
  <2>6. 1 <= made' /\ current' <= made' /\ via' <= made' /\ at' <= made'
    BY <1>0, <1>1, <1>4, Data DEF Numbered
  <2> QED
    BY <1>2, <2>2, <2>4, <2>5, <2>6 DEF Numbered
<1>23. Phases'
  BY <1>0, <1>1, <1>2, <1>4, Numbers DEF Phases
<1>24. Closing'
  BY <1>0, <1>1, <1>2, <1>4, Numbers DEF Closing, FlusherOn
<1>25. Behind'
  BY <1>0, <1>1, <1>2, <1>4, Numbers DEF Behind
<1>26. Stale'
  <2>1. SUFFICES ASSUME Live PROVE Stale'
    BY <1>1 DEF Stale, Live
  <2>2. ASSUME NEW g \in Gates, g # current'
        PROVE  /\ gate'[g].buf = <<>> /\ gate'[g].flusher # "send" /\ ~Token(g)'
               /\ FlusherOn(g)' => gate'[g].state = "ended"
    <3>1. CASE g # current
      BY <1>0, <1>4, <2>1, <3>1 DEF Stale, Token
    <3>2. CASE g = current
      <4>1. current' = 0 /\ gate' = gate /\ current # 0
        BY <1>3, <2>2, <3>2, Numbers
      <4> QED
        BY <1>2, <1>4, <3>2, <4>1 DEF Token
    <3> QED
      BY <3>1, <3>2
  <2> QED
    BY <1>1, <2>2 DEF Stale
<1>27. Apart'
  BY <1>0, <1>1, <1>4 DEF Apart, Live, Ready
<1>28. ErrorOnce'
  BY <1>0, <1>1, <1>2, <1>4, Numbers DEF ErrorOnce, Live
<1>29. LastAlone'
  BY <1>0, <1>1, <1>2, <1>4, Numbers DEF LastAlone, LastSent, Live
<1>30. CutHolds'
  BY <1>0, <1>1, <1>2, <1>4, Numbers DEF CutHolds, CutOff, Live, Unreaped
<1>31. Uncut'
  <2>1. SUFFICES ASSUME Live, cut = None PROVE Uncut'
    BY <1>1 DEF Uncut, Live
  <2>2. (Failing' <=> Failing) /\ \A c \in 1..chunk : Somewhere(c) => Somewhere(c)'
    BY <1>1, <1>4 DEF Failing, Somewhere, Ready
  <2>3. \A g \in Gates : FlusherOn(g)' => g = current'
    BY <1>0, <1>4, <2>1, Numbers DEF Uncut
  <2> QED
    BY <1>0, <1>1, <1>2, <1>4, <2>1, <2>2, <2>3 DEF Uncut
<1>32. Paused'
  <2>1. InFlight' = InFlight
    BY <1>1, <1>4 DEF InFlight
  <2>2. current' # 0 => current' = current /\ gate'[current].state = gate[current].state
    BY <1>2, <1>4, Numbers
  <2> QED
    BY <1>0, <1>1, <2>1, <2>2 DEF Paused, Live
<1>33. StreamIsWhole'
  BY <1>0, <1>1, <1>2, <1>4, WholeKept
<1> QED
  BY <1>20, <1>21, <1>22, <1>23, <1>24, <1>25, <1>26, <1>27, <1>28, <1>29, <1>30, <1>31, <1>32, <1>33
    DEF IInv

(* The provider delivers its chunk: nobody else has it.                    *)
LEMMA DirectSendsKeeps ==
  ASSUME IInv, Direct, Send(chunk)
  PROVE  IInv'
<1>0. /\ TypeOK /\ Shaped /\ Numbered /\ Phases /\ Closing /\ Behind /\ Stale
      /\ Apart /\ ErrorOnce /\ LastAlone /\ CutHolds /\ Uncut /\ Paused /\ StreamIsWhole
  BY DEF IInv
<1>1. /\ prod = "direct" /\ prod' = IF final THEN "closing" ELSE "next"
      /\ UNCHANGED <<gate, current, made, gated, chunk, final, via, ctlVars, ctxDone, closed,
                     completed, histVars>>
  BY DEF Direct, AfterChunk
<1>2. chunk \in Chunks /\ chunk \in Nat /\ ~closed /\ chunk # Error /\ chunk # None /\ Ready
  BY <1>0, <1>1, Data, Numbers DEF Phases, Ready

<1>3. /\ delivered' \in Seq(Chunks \cup {Error})
      /\ Len(delivered) \in Nat /\ Len(delivered') = Len(delivered) + 1
      /\ \A i \in 1..Len(delivered) : delivered'[i] = delivered[i]
      /\ delivered'[Len(delivered) + 1] = chunk
      /\ DeliveredSet' = DeliveredSet \cup {chunk}
  BY <1>0, <1>2, Data, SendGives
<1>4. \A i \in 1..Len(delivered') :
         \/ /\ i \in 1..Len(delivered) /\ delivered'[i] = delivered[i]
            /\ delivered'[i] \in DeliveredSet
         \/ i = Len(delivered) + 1 /\ delivered'[i] = chunk
  BY <1>3 DEF DeliveredSet

<1>5. Live => /\ chunk \notin DeliveredSet
              /\ \A g \in Gates : chunk \notin Loaded(g) /\ gate[g].hand # chunk
  BY <1>0, <1>2 DEF Apart
<1>6. Live => \A i, j \in 1..Len(delivered') :
                 delivered'[i] = delivered'[j] /\ delivered'[i] # Error => i = j
  BY <1>0, <1>3, <1>4, <1>5 DEF Apart
<1>20. TypeOK'
  BY <1>0, <1>1, <1>2, <1>3, <1>4, Numbers DEF TypeOK, GateRec
<1>21. Shaped'
  BY <1>0, <1>1, <1>2, <1>3, <1>4, Numbers DEF Shaped, Shape, Untouched, FlusherOn
<1>22. Numbered'
  BY <1>0, <1>1, <1>2, <1>3, <1>4, Numbers DEF Numbered, Token, Unreaped, Reaping
<1>23. Phases'
  BY <1>0, <1>1, <1>2, <1>3, <1>4, Numbers DEF Phases
<1>24. Closing'
  BY <1>0, <1>1, <1>2, <1>3, <1>4, Numbers DEF Closing, FlusherOn
<1>25. Behind'
  BY <1>0, <1>1, <1>2, <1>3, <1>4, Numbers DEF Behind
<1>26. Stale'
  BY <1>0, <1>1, <1>2, <1>3, <1>4, Numbers DEF Stale, Live, FlusherOn, Token
<1>27. Apart'
  <2>1. \A g \in Gates : \A i \in 1..Len(gate[g].buf) : gate[g].buf[i] \in Loaded(g)
    BY DEF Loaded
  <2> QED
    BY <1>0, <1>1, <1>2, <1>3, <1>5, <1>6, <2>1 DEF Apart, Live, Ready
<1>28. ErrorOnce'
  BY <1>0, <1>1, <1>2, <1>3, <1>4, Numbers DEF ErrorOnce, Live
<1>29. LastAlone'
  BY <1>0, <1>1, <1>2, <1>3, <1>4, Numbers, <1>5 DEF LastAlone, LastSent, Live
<1>30. CutHolds'
  BY <1>0, <1>1, <1>2, <1>3, <1>4, Numbers DEF CutHolds, CutOff, Live, Unreaped
<1>31. Uncut'
  <2>1. SUFFICES ASSUME Live, cut = None PROVE Uncut'
    BY <1>1 DEF Uncut, Live
  <2>2. Failing' <=> Failing
    BY <1>1, <1>2, <1>3 DEF Failing
  <2>3. \A c \in 1..chunk : Somewhere(c) => Somewhere(c)'
    BY <1>1, <1>3 DEF Somewhere, Loaded
  <2> QED
    BY <1>0, <1>1, <1>2, <2>1, <2>2, <2>3 DEF Uncut, FlusherOn
<1>32. Paused'
  <2>1. prod' # "direct"
    BY <1>1
  <2> QED
    BY <1>0, <1>1, <2>1, PauseKept DEF Live
<1>33. StreamIsWhole'
  <2>1. ~closed'
    BY <1>1, <1>2
  <2>2. SUFFICES ASSUME Live PROVE StreamIsWhole'
    BY <1>1, <2>1 DEF StreamIsWhole, NothingDropped, OnceOnly, FinalIsLast, EndDropsLater, Live
  <2>3. OnceOnly'
    BY <1>0, <1>1, <1>2, <1>3, <1>4, <1>6, <2>2 DEF StreamIsWhole, OnceOnly, Live
  <2>4. FinalIsLast'
    <3>1. ASSUME NEW i \in 1..Len(delivered'), delivered'[i] = chunk
          PROVE  i = Len(delivered) + 1
      BY <1>4, <1>5, <2>2, <3>1
    <3>2. \A i, j \in Nat : i = Len(delivered) + 1 => ~(j \in (i + 1)..Len(delivered'))
      BY <1>3
    <3> QED
      BY <1>1, <1>3, <3>1, <3>2 DEF FinalIsLast
  <2>5. EndDropsLater'
    BY <1>0, <1>1, <1>3, <1>4, <2>2 DEF StreamIsWhole, EndDropsLater, CutHolds, CutOff, Live
  <2> QED
    BY <2>1, <2>3, <2>4, <2>5 DEF StreamIsWhole, NothingDropped
<1> QED
  BY <1>20, <1>21, <1>22, <1>23, <1>24, <1>25, <1>26, <1>27, <1>28, <1>29, <1>30, <1>31, <1>32, <1>33
    DEF IInv

(* The client has left.                                                    *)
LEMMA DirectFailsKeeps ==
  ASSUME IInv, Direct, Unsent
  PROVE  IInv'
<1>0. /\ TypeOK /\ Shaped /\ Numbered /\ Phases /\ Closing /\ Behind /\ Stale
      /\ Apart /\ ErrorOnce /\ LastAlone /\ CutHolds /\ Uncut /\ Paused /\ StreamIsWhole
  BY DEF IInv
<1>1. /\ prod = "direct" /\ prod' = IF final THEN "closing" ELSE "next"
      /\ UNCHANGED <<gate, current, made, gated, chunk, final, via, ctlVars, ctxDone, closed,
                     completed, histVars>>
  BY DEF Direct, AfterChunk
<1>2. chunk \in Chunks /\ chunk \in Nat /\ ~closed /\ chunk # Error /\ chunk # None /\ Ready
  BY <1>0, <1>1, Data, Numbers DEF Phases, Ready

<1>3. ~Live /\ ~Live' /\ delivered' = delivered /\ DeliveredSet' = DeliveredSet /\ ctxDone
  BY <1>1, <1>2 DEF Unsent, Live, DeliveredSet
<1>20. TypeOK'
  BY <1>0, <1>1, <1>2, <1>3, Numbers DEF TypeOK, GateRec
<1>21. Shaped'
  BY <1>0, <1>1, <1>2, <1>3, Numbers DEF Shaped, Shape, Untouched, FlusherOn
<1>22. Numbered'
  BY <1>0, <1>1, <1>2, <1>3, Numbers DEF Numbered, Token, Unreaped, Reaping
<1>23. Phases'
  BY <1>0, <1>1, <1>2, <1>3, Numbers DEF Phases
<1>24. Closing'
  BY <1>0, <1>1, <1>2, <1>3, Numbers DEF Closing, FlusherOn
<1>25. Behind'
  BY <1>0, <1>1, <1>2, <1>3, Numbers DEF Behind
<1>26. Stale'
  BY <1>0, <1>1, <1>2, <1>3, Numbers DEF Stale, Live, FlusherOn, Token
<1>27. Apart'
  BY <1>0, <1>1, <1>2, <1>3, Numbers DEF Apart, Live, Ready, Loaded
<1>28. ErrorOnce'
  BY <1>0, <1>1, <1>2, <1>3, Numbers DEF ErrorOnce, Live
<1>29. LastAlone'
  BY <1>0, <1>1, <1>2, <1>3, Numbers DEF LastAlone, LastSent, Live
<1>30. CutHolds'
  BY <1>0, <1>1, <1>2, <1>3, Numbers DEF CutHolds, CutOff, Live, Unreaped
<1>31. Uncut'
  BY <1>0, <1>1, <1>2, <1>3, Numbers DEF Uncut, Failing, Somewhere, Live, Ready, Loaded, FlusherOn
<1>32. Paused'
  BY <1>0, <1>1, <1>2, <1>3, Numbers DEF Paused, Live, InFlight
<1>33. StreamIsWhole'
  BY <1>0, <1>1, <1>2, <1>3, WholeKept
<1> QED
  BY <1>20, <1>21, <1>22, <1>23, <1>24, <1>25, <1>26, <1>27, <1>28, <1>29, <1>30, <1>31, <1>32, <1>33
    DEF IInv

(* CloseStream ends the gate, and every other flusher's gate has ended.    *)
LEMMA CloseEndKeeps ==
  ASSUME IInv, CloseEnd
  PROVE  IInv'
<1>0. /\ TypeOK /\ Shaped /\ Numbered /\ Phases /\ Closing /\ Behind /\ Stale
      /\ Apart /\ ErrorOnce /\ LastAlone /\ CutHolds /\ Uncut /\ Paused /\ StreamIsWhole
  BY DEF IInv
<1>1. /\ prod = "end" /\ prod' = "wait" /\ Set(via, Ended(gate[via], FALSE))
      /\ UNCHANGED <<current, made, gated, chunk, final, via, ctlVars, ctxDone, closed, completed,
                     delivered, histVars>>
      /\ DeliveredSet' = DeliveredSet /\ via \in Gates /\ via <= made /\ gated /\ final /\ ~closed
  <2>1. via # 0 /\ gated /\ final /\ prod = "end" /\ ~closed /\ via <= made
    BY <1>0 DEF CloseEnd, Phases, Shaped, Numbered
  <2>2. via \in Gates
    BY <1>0, <2>1, Data, Numbers
  <2> QED
    BY <2>1, <2>2 DEF CloseEnd, DeliveredSet

<1>2. \/ gate[via].state = "ended" /\ gate' = gate
      \/ /\ gate[via].state # "ended"
         /\ Turns(via, "ended", gate[via].buf, gate[via].terminal, gate[via].error,
                  gate[via].cached,
                  IF gate[via].cached /\ (gate[via].buf # <<>> \/ gate[via].error)
                  THEN On(gate[via].flusher) ELSE gate[via].flusher,
                  gate[via].hand, gate[via].reap)
  <2>1. \/ gate[via].state = "ended" /\ gate' = gate
        \/ /\ gate[via].state # "ended"
           /\ Turns(via, "ended", gate[via].buf, gate[via].terminal, gate[via].error \/ FALSE,
                    gate[via].cached,
                    IF gate[via].cached /\ (gate[via].buf # <<>> \/ gate[via].error \/ FALSE)
                    THEN On(gate[via].flusher) ELSE gate[via].flusher,
                    gate[via].hand, gate[via].reap)
    BY <1>0, <1>1, Data, EndedTurns
  <2> QED
    BY <2>1 DEF Turns
<1>3. /\ gate' \in [Gates -> GateRec] /\ \A k \in Gates : k # via => gate'[k] = gate[k]
      /\ \A k \in Gates : /\ gate'[k].buf = gate[k].buf /\ gate'[k].hand = gate[k].hand
                          /\ (gate'[k].terminal <=> gate[k].terminal)
                          /\ (gate'[k].cached <=> gate[k].cached)
                          /\ (gate'[k].reap <=> gate[k].reap)
                          /\ (gate'[k].flusher = "send" <=> gate[k].flusher = "send")
                          /\ (gate'[k].flusher = "exited" <=> gate[k].flusher = "exited")
                          /\ Loaded(k)' = Loaded(k)
                          /\ FlusherOn(k) => FlusherOn(k)'
                          /\ gate[k].state = "ended" => gate'[k] = gate[k]
                          /\ gate'[k].state = "paused" => gate[k].state = "paused"
      /\ gate[via].state = "ended" \/ gate'[via].state = "ended"
  <2> DEFINE Same(k) == /\ gate'[k].buf = gate[k].buf /\ gate'[k].hand = gate[k].hand
                        /\ (gate'[k].terminal <=> gate[k].terminal)
                        /\ (gate'[k].cached <=> gate[k].cached)
                        /\ (gate'[k].reap <=> gate[k].reap)
                        /\ (gate'[k].flusher = "send" <=> gate[k].flusher = "send")
                        /\ (gate'[k].flusher = "exited" <=> gate[k].flusher = "exited")
                        /\ Loaded(k)' = Loaded(k)
                        /\ FlusherOn(k) => FlusherOn(k)'
                        /\ gate[k].state = "ended" => gate'[k] = gate[k]
                        /\ gate'[k].state = "paused" => gate[k].state = "paused"
  <2>1. /\ gate' \in [Gates -> GateRec] /\ \A k \in Gates : k # via => gate'[k] = gate[k]
        /\ gate[via].state = "ended" \/ gate'[via].state = "ended"
    BY <1>0, <1>1, <1>2, Data DEF Turns
  <2>2. ASSUME NEW k \in Gates, gate'[k] = gate[k] PROVE Same(k)
    BY <2>2 DEF Loaded, FlusherOn
  <2>3. ASSUME NEW k \in Gates, k = via, gate' # gate PROVE Same(k)
    <3>1. gate[k].state # "ended" /\ gate[k].flusher # "exited"
      BY <1>0, <1>2, <2>3 DEF Shaped, Shape
    <3>2. /\ gate'[k].state = "ended" /\ gate'[k].buf = gate[k].buf
          /\ gate'[k].hand = gate[k].hand
          /\ (gate'[k].terminal <=> gate[k].terminal)
          /\ (gate'[k].cached <=> gate[k].cached)
          /\ (gate'[k].reap <=> gate[k].reap)
          /\ gate'[k].flusher \in {gate[k].flusher, On(gate[k].flusher)}
      BY <1>2, <2>3 DEF Turns
    <3> QED
      BY <3>1, <3>2 DEF On, Loaded, FlusherOn
  <2>4. ASSUME NEW k \in Gates PROVE Same(k)
    <3>1. CASE k = via /\ gate' # gate
      BY <2>3, <3>1
    <3>2. CASE k # via \/ gate' = gate
      BY <2>1, <2>2, <3>2
    <3> QED
      BY <3>1, <3>2
  <2> HIDE DEF Same
  <2>5. \A k \in Gates : Same(k)
    BY <2>4
  <2> QED
    BY <2>1, <2>5 DEF Same
<1>4. /\ Shape(via) /\ Shape(via)'
  BY <1>0, <1>1, <1>2, Data, GateFields DEF Turns, On, FlusherOn, Shaped, Shape
<1>5. gate'[via].state = "ended" /\ InFlight' = InFlight
  BY <1>1, <1>2, <1>3 DEF Turns, InFlight
<1>20. TypeOK'
  BY <1>0, <1>1, <1>3, Numbers DEF TypeOK, GateRec
<1>21. Shaped'
  <2>1. \A k \in Gates : k # via => Shape(k)'
    BY <1>0, <1>3 DEF Shaped, Shape, FlusherOn
  <2> QED
    BY <1>0, <1>1, <1>4, <2>1 DEF Shaped
<1>22. Numbered'
  BY <1>0, <1>1, <1>3, SameNumbers DEF Unreaped
<1>23. Phases'
  BY <1>0, <1>1, <1>2, <1>3, <1>5, Numbers DEF Phases, Turns, On
<1>24. Closing'
  <2>1. ASSUME ~ctxDone, NEW g \in Gates, FlusherOn(g)' PROVE gate'[g].state = "ended"
    <3>1. CASE g = via
      BY <1>5, <3>1
    <3>2. CASE g # via
      <4>1. FlusherOn(g) /\ gate'[g] = gate[g] /\ gate[g].cached
        BY <1>0, <1>3, <2>1, <3>2 DEF FlusherOn, Shaped, Shape
      <4>2. g # current
        BY <1>0, <1>1, <3>2, <4>1, Numbers DEF Closing
      <4> QED
        BY <1>0, <1>1, <2>1, <4>1, <4>2 DEF Stale, Live
    <3> QED
      BY <3>1, <3>2
  <2>2. current' \in {0, via'} \/ ~gate'[current'].cached
    BY <1>0, <1>1, <1>3, Data, Numbers DEF Closing
  <2> QED
    BY <1>1, <1>5, <2>1, <2>2 DEF Closing
<1>25. Behind'
  BY <1>0, <1>1, <1>2, <1>3, <1>5, Numbers DEF Behind, Turns, On
<1>26. Stale'
  <2>1. SUFFICES ASSUME Live PROVE Stale'
    BY <1>1 DEF Stale, Live
  <2>2. gate[via].state = "ended" \/ via = current
    BY <1>0, <1>1, <2>1 DEF Stale
  <2>3. \A k \in Gates : k # current => gate'[k] = gate[k]
    BY <1>3, <2>2
  <2> QED
    BY <1>0, <1>1, <2>1, <2>3 DEF Stale, FlusherOn, Token
<1>27. Apart'
  BY <1>0, <1>1, <1>3 DEF Apart, Live, Ready
<1>28. ErrorOnce'
  BY <1>0, <1>1, <1>2, <1>3, <1>5, Numbers DEF ErrorOnce, Live, Turns, On
<1>29. LastAlone'
  BY <1>0, <1>1, <1>3 DEF LastAlone, LastSent, Live
<1>30. CutHolds'
  BY <1>0, <1>1, <1>2, <1>3, <1>5, Numbers DEF CutHolds, CutOff, Live, Unreaped, Turns, On
<1>31. Uncut'
  <2>1. SUFFICES ASSUME Live, cut = None PROVE Uncut'
    BY <1>1 DEF Uncut, Live
  <2>2. \A k \in Gates : gate'[k].error <=> gate[k].error
    BY <1>2 DEF Turns
  <2>3. (Failing' <=> Failing) /\ \A c \in 1..chunk : Somewhere(c) => Somewhere(c)'
    BY <1>1, <1>3, <2>2 DEF Failing, Somewhere, Ready
  <2>4. \A k \in Gates : FlusherOn(k)' => k = current
    <3>1. gate[via].state = "ended" \/ via = current
      BY <1>0, <1>1, <2>1 DEF Stale
    <3> QED
      BY <1>0, <1>1, <1>3, <2>1, <3>1 DEF Uncut, FlusherOn
  <2> QED
    BY <1>0, <1>1, <1>3, <2>1, <2>2, <2>3, <2>4 DEF Uncut
<1>32. Paused'
  <2>1. current # 0 /\ gate'[current].state = "paused" => gate[current].state = "paused"
    BY <1>0, <1>3, Data, Numbers
  <2> QED
    BY <1>0, <1>1, <1>5, <2>1 DEF Paused, Live
<1>33. StreamIsWhole'
  BY <1>0, <1>1, <1>2, <1>3, <1>5, WholeKept
<1> QED
  BY <1>20, <1>21, <1>22, <1>23, <1>24, <1>25, <1>26, <1>27, <1>28, <1>29, <1>30, <1>31, <1>32, <1>33
    DEF IInv

(* EndStream cuts the stream at the provider's chunk.                      *)
LEMMA EndByPluginKeeps ==
  ASSUME IInv, EndByPlugin
  PROVE  IInv'
<1>0. /\ TypeOK /\ Shaped /\ Numbered /\ Phases /\ Closing /\ Behind /\ Stale
      /\ Apart /\ ErrorOnce /\ LastAlone /\ CutHolds /\ Uncut /\ Paused /\ StreamIsWhole
  BY DEF IInv
<1>1. /\ ctl = "found" /\ ctl' = "idle" /\ Set(at, Ended(gate[at], op = "fail"))
      /\ UNCHANGED <<current, made, gated, prodVars, op, at, ops, ctxDone, closed, completed,
                     delivered>>
      /\ DeliveredSet' = DeliveredSet /\ at \in Gates /\ at <= made /\ gated
  <2>1. at # 0 /\ gated /\ at <= made
    BY <1>0 DEF EndByPlugin, Applied, Phases, Shaped, Numbered
  <2>2. at \in Gates
    BY <1>0, <2>1, Data, Numbers
  <2> QED
    BY <2>1, <2>2 DEF EndByPlugin, Applied, DeliveredSet
<1>0a. /\ prod \in {"gate", "end", "wait", "drain"} => via \in Gates
       /\ current # 0 => current \in Gates
  BY <1>0, Data, Numbers DEF Phases

<1>2. \/ gate[at].state = "ended" /\ gate' = gate
      \/ /\ gate[at].state # "ended"
         /\ Turns(at, "ended", gate[at].buf, gate[at].terminal, gate[at].error \/ op = "fail",
                  gate[at].cached,
                  IF gate[at].cached /\ (gate[at].buf # <<>> \/ gate[at].error \/ op = "fail")
                  THEN On(gate[at].flusher) ELSE gate[at].flusher,
                  gate[at].hand, gate[at].reap)
  BY <1>0, <1>1, Data, EndedTurns
<1>3. /\ gate' \in [Gates -> GateRec] /\ \A k \in Gates : k # at => gate'[k] = gate[k]
      /\ \A k \in Gates : /\ gate'[k].buf = gate[k].buf /\ gate'[k].hand = gate[k].hand
                          /\ (gate'[k].terminal <=> gate[k].terminal)
                          /\ (gate'[k].cached <=> gate[k].cached)
                          /\ (gate'[k].reap <=> gate[k].reap)
                          /\ (gate'[k].flusher = "send" <=> gate[k].flusher = "send")
                          /\ (gate'[k].flusher = "exited" <=> gate[k].flusher = "exited")
                          /\ Loaded(k)' = Loaded(k)
                          /\ FlusherOn(k) => FlusherOn(k)'
                          /\ gate[k].state = "ended" => gate'[k] = gate[k]
                          /\ gate'[k].state = "paused" => gate[k].state = "paused"
      /\ gate[at].state = "ended" \/ gate'[at].state = "ended"
  <2> DEFINE Same(k) == /\ gate'[k].buf = gate[k].buf /\ gate'[k].hand = gate[k].hand
                        /\ (gate'[k].terminal <=> gate[k].terminal)
                        /\ (gate'[k].cached <=> gate[k].cached)
                        /\ (gate'[k].reap <=> gate[k].reap)
                        /\ (gate'[k].flusher = "send" <=> gate[k].flusher = "send")
                        /\ (gate'[k].flusher = "exited" <=> gate[k].flusher = "exited")
                        /\ Loaded(k)' = Loaded(k)
                        /\ FlusherOn(k) => FlusherOn(k)'
                        /\ gate[k].state = "ended" => gate'[k] = gate[k]
                        /\ gate'[k].state = "paused" => gate[k].state = "paused"
  <2>1. /\ gate' \in [Gates -> GateRec] /\ \A k \in Gates : k # at => gate'[k] = gate[k]
        /\ gate[at].state = "ended" \/ gate'[at].state = "ended"
    BY <1>0, <1>1, <1>2, Data DEF Turns
  <2>2. ASSUME NEW k \in Gates, gate'[k] = gate[k] PROVE Same(k)
    BY <2>2 DEF Loaded, FlusherOn
  <2>3. ASSUME NEW k \in Gates, k = at, gate' # gate PROVE Same(k)
    <3>1. gate[k].state # "ended" /\ gate[k].flusher # "exited"
      BY <1>0, <1>2, <2>3 DEF Shaped, Shape
    <3>2. /\ gate'[k].state = "ended" /\ gate'[k].buf = gate[k].buf
          /\ gate'[k].hand = gate[k].hand
          /\ (gate'[k].terminal <=> gate[k].terminal)
          /\ (gate'[k].cached <=> gate[k].cached)
          /\ (gate'[k].reap <=> gate[k].reap)
          /\ gate'[k].flusher \in {gate[k].flusher, On(gate[k].flusher)}
      BY <1>2, <2>3 DEF Turns
    <3> QED
      BY <3>1, <3>2 DEF On, Loaded, FlusherOn
  <2>4. ASSUME NEW k \in Gates PROVE Same(k)
    <3>1. CASE k = at /\ gate' # gate
      BY <2>3, <3>1
    <3>2. CASE k # at \/ gate' = gate
      BY <2>1, <2>2, <3>2
    <3> QED
      BY <3>1, <3>2
  <2> HIDE DEF Same
  <2>5. \A k \in Gates : Same(k)
    BY <2>4
  <2> QED
    BY <2>1, <2>5 DEF Same
<1>4. /\ Shape(at) /\ Shape(at)'
  BY <1>0, <1>1, <1>2, Data, GateFields DEF Turns, On, FlusherOn, Shaped, Shape
<1>5. gate'[at].state = "ended" /\ InFlight' = InFlight
  BY <1>1, <1>2, <1>3 DEF Turns, InFlight

<1>6. /\ cut' = (IF cut = None THEN chunk ELSE cut) /\ spared' = spared /\ cut' # None
      /\ cut' \in Chunks \cup {0, None}
      /\ cut = None => \A c \in Nat : c <= chunk => CutOff(c)'
      /\ cut # None => \A c : CutOff(c)' <=> CutOff(c)
  <2>1. cut' = (IF cut = None THEN chunk ELSE cut) /\ spared' = spared
    BY DEF EndByPlugin
  <2>2. chunk \in Nat /\ chunk <= MaxChunks /\ chunk # None
    BY <1>0, Data, Numbers
  <2>3. cut' # None /\ cut' \in Chunks \cup {0, None}
    BY <1>0, <2>1, <2>2, Numbers DEF TypeOK
  <2>4. ASSUME cut = None, NEW c \in Nat, c <= chunk PROVE CutOff(c)'
    BY <2>1, <2>2, <2>4 DEF CutOff
  <2>5. ASSUME cut # None, NEW c PROVE CutOff(c)' <=> CutOff(c)
    BY <1>1, <2>1, <2>5 DEF CutOff
  <2> QED
    BY <2>1, <2>3, <2>4, <2>5
<1>20. TypeOK'
  <2>1. gate' \in [Gates -> GateRec] /\ cut' \in Chunks \cup {0, None} /\ spared' = spared
    BY <1>3, <1>6
  <2> QED
    BY <1>0, <1>1, <2>1 DEF TypeOK, GateRec
<1>21. Shaped'
  <2>1. \A k \in Gates : k # at => Shape(k)'
    BY <1>0, <1>3 DEF Shaped, Shape, FlusherOn
  <2> QED
    BY <1>0, <1>1, <1>4, <2>1 DEF Shaped
<1>22. Numbered'
  BY <1>0, <1>1, <1>3, SameNumbers DEF Unreaped
<1>23. Phases'
  BY <1>0, <1>1, <1>2, <1>3, <1>5, <1>6, Numbers DEF Phases, Turns, On
<1>24. Closing'
  BY <1>0, <1>0a, <1>1, <1>3, <1>5 DEF Closing, FlusherOn
<1>25. Behind'
  BY <1>0, <1>1, <1>2, <1>3, <1>5, <1>6, Numbers DEF Behind, Turns, On
<1>26. Stale'
  BY <1>0, <1>0a, <1>1, <1>3, <1>5 DEF Stale, FlusherOn, Token, Live
<1>27. Apart'
  BY <1>0, <1>1, <1>3 DEF Apart, Live, Ready
<1>28. ErrorOnce'
  <2>1. gate[1].flusher \in {"exit", "exited"} => gate[1].state = "ended"
    BY <1>0, Numbers DEF Shaped, Shape
  <2> QED
    BY <1>0, <1>1, <1>3, <2>1, Numbers DEF ErrorOnce, Live
<1>29. LastAlone'
  BY <1>0, <1>1, <1>3 DEF LastAlone, LastSent, Live
<1>30. CutHolds'
  <2>1. SUFFICES ASSUME Live PROVE CutHolds'
    BY <1>1 DEF CutHolds, Live
  <2>2. Unreaped' => gate'[1].state = "ended"
    BY <1>0, <1>1, <1>5, <2>1, OneGate DEF Unreaped
  <2>3. CASE cut = None
    <3>1. /\ cut' = chunk /\ chunk \in Nat
          /\ \A i \in 1..Len(delivered) : delivered[i] # Error => ~(delivered[i] > cut')
          /\ \A k \in Gates :
                /\ \A i \in 1..Len(gate[k].buf) : ~(gate[k].buf[i] > cut')
                /\ gate[k].flusher = "send" => ~(gate[k].hand > cut')
      <4>1. /\ cut' = chunk /\ chunk \in Nat
        BY <1>0, <1>6, <2>3, Data
      <4>2. ASSUME NEW i \in 1..Len(delivered), delivered[i] # Error PROVE ~(delivered[i] > cut')
        BY <1>0, <4>1, <4>2, Data DEF Behind
      <4>3. ASSUME NEW k \in Gates, NEW i \in 1..Len(gate[k].buf) PROVE ~(gate[k].buf[i] > cut')
        BY <1>0, <4>1, <4>3, Data DEF Behind
      <4>4. ASSUME NEW k \in Gates, gate[k].flusher = "send" PROVE ~(gate[k].hand > cut')
        BY <1>0, <4>1, <4>4, Data DEF Behind
      <4> QED
        BY <4>1, <4>2, <4>3, <4>4
    <3>2. ~(chunk > cut')
      BY <3>1
    <3> QED
      BY <1>1, <1>3, <2>2, <3>1, <3>2 DEF CutHolds, CutOff
  <2>4. CASE cut # None
    BY <1>0, <1>1, <1>3, <1>6, <2>1, <2>2, <2>4 DEF CutHolds, Live
  <2> QED
    BY <2>3, <2>4
<1>31. Uncut'
  BY <1>6 DEF Uncut
<1>32. Paused'
  BY <1>6 DEF Paused
<1>33. StreamIsWhole'
  <2>1. EndDropsLater'
    <3>1. CASE cut = None
      BY <1>0, <1>1, <1>6, <3>1, Data DEF EndDropsLater, Behind
    <3>2. CASE cut # None
      BY <1>0, <1>1, <1>6, <3>2 DEF EndDropsLater, StreamIsWhole
    <3> QED
      BY <3>1, <3>2
  <2> QED
    BY <1>0, <1>1, <1>6, <2>1 DEF StreamIsWhole, NothingDropped, OnceOnly, FinalIsLast
<1> QED
  BY <1>20, <1>21, <1>22, <1>23, <1>24, <1>25, <1>26, <1>27, <1>28, <1>29, <1>30, <1>31, <1>32, <1>33
    DEF IInv

(* PauseStream spares what is being sent.                                  *)
LEMMA PauseKeeps ==
  ASSUME IInv, Pause
  PROVE  IInv'
<1>0. /\ TypeOK /\ Shaped /\ Numbered /\ Phases /\ Closing /\ Behind /\ Stale
      /\ Apart /\ ErrorOnce /\ LastAlone /\ CutHolds /\ Uncut /\ Paused /\ StreamIsWhole
  BY DEF IInv
<1>1. /\ ctl = "found" /\ ctl' = "idle" /\ TRUE
      /\ UNCHANGED <<current, made, gated, prodVars, op, at, ops, ctxDone, closed, completed,
                     delivered>>
      /\ DeliveredSet' = DeliveredSet /\ at \in Gates /\ at <= made /\ gated
  <2>1. at # 0 /\ gated /\ at <= made
    BY <1>0 DEF Pause, Applied, Phases, Shaped, Numbered
  <2>2. at \in Gates
    BY <1>0, <2>1, Data, Numbers
  <2> QED
    BY <2>1, <2>2 DEF Pause, Applied, DeliveredSet
<1>0a. /\ prod \in {"gate", "end", "wait", "drain"} => via \in Gates
       /\ current # 0 => current \in Gates
  BY <1>0, Data, Numbers DEF Phases

<1>2. \/ gate' = gate
      \/ /\ gate[at].state = "active"
         /\ Turns(at, "paused", gate[at].buf, gate[at].terminal, gate[at].error, gate[at].cached,
                  gate[at].flusher, gate[at].hand, gate[at].reap)
  BY <1>0, <1>1, Data, PauseTurns DEF Pause
<1>3. /\ gate' \in [Gates -> GateRec] /\ \A k \in Gates : k # at => gate'[k] = gate[k]
      /\ \A k \in Gates : /\ gate'[k].buf = gate[k].buf /\ gate'[k].hand = gate[k].hand
                          /\ (gate'[k].terminal <=> gate[k].terminal)
                          /\ (gate'[k].error <=> gate[k].error)
                          /\ (gate'[k].cached <=> gate[k].cached)
                          /\ (gate'[k].reap <=> gate[k].reap)
                          /\ gate'[k].flusher = gate[k].flusher
                          /\ Loaded(k)' = Loaded(k) /\ (FlusherOn(k)' <=> FlusherOn(k))
                          /\ (gate'[k].state = "ended" <=> gate[k].state = "ended")
  <2> DEFINE Same(k) == /\ gate'[k].buf = gate[k].buf /\ gate'[k].hand = gate[k].hand
                        /\ (gate'[k].terminal <=> gate[k].terminal)
                        /\ (gate'[k].error <=> gate[k].error)
                        /\ (gate'[k].cached <=> gate[k].cached)
                        /\ (gate'[k].reap <=> gate[k].reap)
                        /\ gate'[k].flusher = gate[k].flusher
                        /\ Loaded(k)' = Loaded(k) /\ (FlusherOn(k)' <=> FlusherOn(k))
                        /\ (gate'[k].state = "ended" <=> gate[k].state = "ended")
  <2>1. gate' \in [Gates -> GateRec] /\ \A k \in Gates : k # at => gate'[k] = gate[k]
    BY <1>0, <1>2, Data DEF Turns
  <2>2. ASSUME NEW k \in Gates PROVE Same(k)
    <3>1. CASE gate'[k] = gate[k]
      BY <3>1 DEF Loaded, FlusherOn
    <3>2. CASE k = at
      BY <1>2, <3>1, <3>2 DEF Turns, Loaded, FlusherOn
    <3> QED
      BY <2>1, <3>1, <3>2
  <2> HIDE DEF Same
  <2>3. \A k \in Gates : Same(k)
    BY <2>2
  <2> QED
    BY <2>1, <2>3 DEF Same
<1>4. InFlight' = InFlight /\ InFlight \subseteq Chunks
  <2>1. \A k \in Gates : gate[k].flusher = "send" => gate[k].hand \in Chunks
    BY <1>0 DEF Shaped, Shape
  <2>2. prod = "direct" => chunk \in Chunks
    BY <1>0, Data, Numbers DEF Phases
  <2> QED
    BY <1>1, <1>3, <2>1, <2>2 DEF InFlight

<1>5. cut' = cut /\ (spared' = InFlight \/ (gate' = gate /\ spared' = spared))
  BY DEF Pause
<1>20. TypeOK'
  BY <1>0, <1>1, <1>3, <1>4, <1>5, Numbers DEF TypeOK, GateRec
<1>21. Shaped'
  <2>1. \A k \in Gates : Shape(k)'
    BY <1>0, <1>3 DEF Shaped, Shape, FlusherOn
  <2> QED
    BY <1>1, <2>1 DEF Shaped
<1>22. Numbered'
  BY <1>0, <1>1, <1>3, SameNumbers DEF Unreaped
<1>23. Phases'
  BY <1>0, <1>1, <1>3, <1>5, Numbers DEF Phases
<1>24. Closing'
  BY <1>0, <1>0a, <1>1, <1>3 DEF Closing
<1>25. Behind'
  BY <1>0, <1>1, <1>3, <1>5, Numbers DEF Behind
<1>26. Stale'
  BY <1>0, <1>0a, <1>1, <1>3 DEF Stale, Token, Live
<1>27. Apart'
  BY <1>0, <1>1, <1>3 DEF Apart, Live, Ready
<1>28. ErrorOnce'
  BY <1>0, <1>1, <1>3, Numbers DEF ErrorOnce, Live
<1>29. LastAlone'
  BY <1>0, <1>1, <1>3 DEF LastAlone, LastSent, Live
<1>30. CutHolds'
  BY <1>0, <1>1, <1>3, <1>5, FirstGate DEF CutHolds, CutOff, Live, Unreaped
<1>31. Uncut'
  <2>1. SUFFICES ASSUME Live, cut = None PROVE Uncut'
    BY <1>1, <1>5 DEF Uncut, Live
  <2>2. (Failing' <=> Failing) /\ \A c \in 1..chunk : Somewhere(c) => Somewhere(c)'
    BY <1>1, <1>3 DEF Failing, Somewhere, Ready
  <2> QED
    BY <1>0, <1>1, <1>3, <2>1, <2>2 DEF Uncut
<1>32. Paused'
  BY <1>0, <1>1, <1>4, <1>5 DEF Paused, Live
<1>33. StreamIsWhole'
  BY <1>0, <1>1, <1>3, <1>5, WholeKept
<1> QED
  BY <1>20, <1>21, <1>22, <1>23, <1>24, <1>25, <1>26, <1>27, <1>28, <1>29, <1>30, <1>31, <1>32, <1>33
    DEF IInv

(* ResumeStream changes the state and nothing else.                        *)
LEMMA ResumeKeeps ==
  ASSUME IInv, Resume
  PROVE  IInv'
<1>0. /\ TypeOK /\ Shaped /\ Numbered /\ Phases /\ Closing /\ Behind /\ Stale
      /\ Apart /\ ErrorOnce /\ LastAlone /\ CutHolds /\ Uncut /\ Paused /\ StreamIsWhole
  BY DEF IInv
<1>1. /\ ctl = "found" /\ ctl' = "idle" /\ TRUE
      /\ UNCHANGED <<current, made, gated, prodVars, op, at, ops, ctxDone, closed, completed,
                     delivered>>
      /\ DeliveredSet' = DeliveredSet /\ at \in Gates /\ at <= made /\ gated
  <2>1. at # 0 /\ gated /\ at <= made
    BY <1>0 DEF Resume, Applied, Phases, Shaped, Numbered
  <2>2. at \in Gates
    BY <1>0, <2>1, Data, Numbers
  <2> QED
    BY <2>1, <2>2 DEF Resume, Applied, DeliveredSet
<1>0a. /\ prod \in {"gate", "end", "wait", "drain"} => via \in Gates
       /\ current # 0 => current \in Gates
  BY <1>0, Data, Numbers DEF Phases

<1>2. \/ gate' = gate
      \/ /\ gate[at].state = "paused"
         /\ Turns(at, "active", gate[at].buf, gate[at].terminal, gate[at].error, gate[at].cached,
                  gate[at].flusher, gate[at].hand, gate[at].reap)
  BY <1>0, <1>1, Data, PauseTurns DEF Resume
<1>3. /\ gate' \in [Gates -> GateRec] /\ \A k \in Gates : k # at => gate'[k] = gate[k]
      /\ \A k \in Gates : /\ gate'[k].buf = gate[k].buf /\ gate'[k].hand = gate[k].hand
                          /\ (gate'[k].terminal <=> gate[k].terminal)
                          /\ (gate'[k].error <=> gate[k].error)
                          /\ (gate'[k].cached <=> gate[k].cached)
                          /\ (gate'[k].reap <=> gate[k].reap)
                          /\ gate'[k].flusher = gate[k].flusher
                          /\ Loaded(k)' = Loaded(k) /\ (FlusherOn(k)' <=> FlusherOn(k))
                          /\ (gate'[k].state = "ended" <=> gate[k].state = "ended")
  <2> DEFINE Same(k) == /\ gate'[k].buf = gate[k].buf /\ gate'[k].hand = gate[k].hand
                        /\ (gate'[k].terminal <=> gate[k].terminal)
                        /\ (gate'[k].error <=> gate[k].error)
                        /\ (gate'[k].cached <=> gate[k].cached)
                        /\ (gate'[k].reap <=> gate[k].reap)
                        /\ gate'[k].flusher = gate[k].flusher
                        /\ Loaded(k)' = Loaded(k) /\ (FlusherOn(k)' <=> FlusherOn(k))
                        /\ (gate'[k].state = "ended" <=> gate[k].state = "ended")
  <2>1. gate' \in [Gates -> GateRec] /\ \A k \in Gates : k # at => gate'[k] = gate[k]
    BY <1>0, <1>2, Data DEF Turns
  <2>2. ASSUME NEW k \in Gates PROVE Same(k)
    <3>1. CASE gate'[k] = gate[k]
      BY <3>1 DEF Loaded, FlusherOn
    <3>2. CASE k = at
      BY <1>2, <3>1, <3>2 DEF Turns, Loaded, FlusherOn
    <3> QED
      BY <2>1, <3>1, <3>2
  <2> HIDE DEF Same
  <2>3. \A k \in Gates : Same(k)
    BY <2>2
  <2> QED
    BY <2>1, <2>3 DEF Same
<1>4. InFlight' = InFlight /\ InFlight \subseteq Chunks
  <2>1. \A k \in Gates : gate[k].flusher = "send" => gate[k].hand \in Chunks
    BY <1>0 DEF Shaped, Shape
  <2>2. prod = "direct" => chunk \in Chunks
    BY <1>0, Data, Numbers DEF Phases
  <2> QED
    BY <1>1, <1>3, <2>1, <2>2 DEF InFlight

<1>5. cut' = cut /\ spared' = spared
  BY DEF Resume
<1>20. TypeOK'
  BY <1>0, <1>1, <1>3, <1>4, <1>5, Numbers DEF TypeOK, GateRec
<1>21. Shaped'
  <2>1. \A k \in Gates : Shape(k)'
    BY <1>0, <1>3 DEF Shaped, Shape, FlusherOn
  <2> QED
    BY <1>1, <2>1 DEF Shaped
<1>22. Numbered'
  BY <1>0, <1>1, <1>3, SameNumbers DEF Unreaped
<1>23. Phases'
  BY <1>0, <1>1, <1>3, <1>5, Numbers DEF Phases
<1>24. Closing'
  BY <1>0, <1>0a, <1>1, <1>3 DEF Closing
<1>25. Behind'
  BY <1>0, <1>1, <1>3, <1>5, Numbers DEF Behind
<1>26. Stale'
  BY <1>0, <1>0a, <1>1, <1>3 DEF Stale, Token, Live
<1>27. Apart'
  BY <1>0, <1>1, <1>3 DEF Apart, Live, Ready
<1>28. ErrorOnce'
  BY <1>0, <1>1, <1>3, Numbers DEF ErrorOnce, Live
<1>29. LastAlone'
  BY <1>0, <1>1, <1>3 DEF LastAlone, LastSent, Live
<1>30. CutHolds'
  BY <1>0, <1>1, <1>3, <1>5, FirstGate DEF CutHolds, CutOff, Live, Unreaped
<1>31. Uncut'
  <2>1. SUFFICES ASSUME Live, cut = None PROVE Uncut'
    BY <1>1, <1>5 DEF Uncut, Live
  <2>2. (Failing' <=> Failing) /\ \A c \in 1..chunk : Somewhere(c) => Somewhere(c)'
    BY <1>1, <1>3 DEF Failing, Somewhere, Ready
  <2> QED
    BY <1>0, <1>1, <1>3, <2>1, <2>2 DEF Uncut
<1>32. Paused'
  <2>1. current # 0 /\ gate'[current].state = "paused" => gate[current].state = "paused"
    BY <1>0, <1>2, <1>3, Data, Numbers DEF Turns
  <2> QED
    BY <1>0, <1>1, <1>4, <1>5, <2>1 DEF Paused, Live
<1>33. StreamIsWhole'
  BY <1>0, <1>1, <1>3, <1>5, WholeKept
<1> QED
  BY <1>20, <1>21, <1>22, <1>23, <1>24, <1>25, <1>26, <1>27, <1>28, <1>29, <1>30, <1>31, <1>32, <1>33
    DEF IInv

(* A flusher wakes.                                                        *)
LEMMA FlusherWakesKeeps ==
  ASSUME IInv, NEW g \in Gates, FlusherWakes(g)
  PROVE  IInv'
<1>0. /\ TypeOK /\ Shaped /\ Numbered /\ Phases /\ Closing /\ Behind /\ Stale
      /\ Apart /\ ErrorOnce /\ LastAlone /\ CutHolds /\ Uncut /\ Paused /\ StreamIsWhole
  BY DEF IInv
<1>1. /\ UNCHANGED <<current, made, gated, prodVars, ctlVars, ctxDone, closed, completed, histVars>>
      /\ gate[g].flusher = "wait" /\ delivered' = delivered /\ DeliveredSet' = DeliveredSet
      /\ Turns(g, gate[g].state, gate[g].buf, gate[g].terminal, gate[g].error,
               gate[g].cached, "check", gate[g].hand, gate[g].reap)
      /\ g <= made /\ gated
  <2>1. gate[g].flusher = "wait"
    BY DEF FlusherWakes, FlushStep
  <2>2. g <= made /\ gated
    BY <1>0, <2>1, WasMade DEF Shaped, Untouched
  <2>3. gate \in [Gates -> GateRec]
    BY <1>0, Data
  <2> QED
    BY <2>1, <2>2, <2>3, FlusherTurns DEF FlusherWakes, FlushStep, Drains, Unsent, DeliveredSet
<1>2. Shape(g) /\ g # 0 /\ (current # 0 => current \in Gates)
  BY <1>0, Data, Numbers DEF Shaped
<1>0a. /\ prod \in {"gate", "end", "wait", "drain"} => via \in Gates
       /\ current # 0 => current \in Gates
  BY <1>0, Data, Numbers DEF Phases
<1>3. /\ gate' \in [Gates -> GateRec] /\ \A k \in Gates : k # g => gate'[k] = gate[k]
      /\ \A k \in Gates : /\ gate'[k].buf = gate[k].buf /\ gate'[k].hand = gate[k].hand
                          /\ (gate'[k].error <=> gate[k].error)
                          /\ (gate'[k].cached <=> gate[k].cached)
                          /\ (gate'[k].reap <=> gate[k].reap)
                          /\ (gate'[k].terminal => gate[k].terminal)
                          /\ (gate[k].state = "ended" => gate'[k].state = "ended")
                          /\ (gate'[k].state = "paused" => gate[k].state = "paused")
                          /\ Loaded(k)' = Loaded(k) /\ (FlusherOn(k)' <=> FlusherOn(k))
                          /\ (gate'[k].flusher = "send" <=> gate[k].flusher = "send")
                          /\ (gate'[k].flusher = "exited" <=> gate[k].flusher = "exited")
      /\ Shape(g)' /\ InFlight' = InFlight
  <2> DEFINE Same(k) == /\ gate'[k].buf = gate[k].buf /\ gate'[k].hand = gate[k].hand
                        /\ (gate'[k].error <=> gate[k].error)
                        /\ (gate'[k].cached <=> gate[k].cached)
                        /\ (gate'[k].reap <=> gate[k].reap)
                        /\ (gate'[k].terminal => gate[k].terminal)
                        /\ (gate[k].state = "ended" => gate'[k].state = "ended")
                        /\ (gate'[k].state = "paused" => gate[k].state = "paused")
                        /\ Loaded(k)' = Loaded(k) /\ (FlusherOn(k)' <=> FlusherOn(k))
                        /\ (gate'[k].flusher = "send" <=> gate[k].flusher = "send")
                        /\ (gate'[k].flusher = "exited" <=> gate[k].flusher = "exited")
  <2>1. gate' \in [Gates -> GateRec] /\ \A k \in Gates : k # g => gate'[k] = gate[k]
    BY <1>1 DEF Turns
  <2>2. ASSUME NEW k \in Gates PROVE Same(k)
    <3>1. CASE k = g
      BY <1>1, <1>2, <3>1 DEF Turns, Loaded, FlusherOn, Shape
    <3>2. CASE k # g
      BY <2>1, <3>2 DEF Loaded, FlusherOn
    <3> QED
      BY <3>1, <3>2
  <2> HIDE DEF Same
  <2>3. Shape(g)'
    BY <1>1, <1>2 DEF Turns, Shape, FlusherOn
  <2>4. \A k \in Gates : Same(k)
    BY <2>2
  <2>5. InFlight' = InFlight
    BY <1>1, <2>4 DEF InFlight, Same
  <2> QED
    BY <2>1, <2>3, <2>4, <2>5 DEF Same
<1>4. \A k \in Gates : Shape(k)'
  BY <1>0, <1>3 DEF Shaped, Shape, FlusherOn
<1>20. TypeOK'
  BY <1>0, <1>1, <1>3 DEF TypeOK, GateRec
<1>21. Shaped'
  BY <1>1, <1>4 DEF Shaped
<1>22. Numbered'
  BY <1>0, <1>1, <1>3, SameNumbers DEF Unreaped
<1>23. Phases'
  BY <1>0, <1>1, <1>2, <1>3, Numbers DEF Phases
<1>24. Closing'
  BY <1>0, <1>0a, <1>1, <1>2, <1>3 DEF Closing
<1>25. Behind'
  BY <1>0, <1>1, <1>2, <1>3, Numbers DEF Behind
<1>26. Stale'
  BY <1>0, <1>0a, <1>1, <1>3 DEF Stale, Token, Live
<1>27. Apart'
  BY <1>0, <1>1, <1>3 DEF Apart, Live, Ready
<1>28. ErrorOnce'
  <2>1. gate[1].flusher \in {"exit", "exited"} => gate'[1].flusher = gate[1].flusher
    BY <1>0, <1>1, <1>3, Numbers
  <2> QED
    BY <1>0, <1>1, <2>1 DEF ErrorOnce, Live
<1>29. LastAlone'
  BY <1>0, <1>1, <1>3 DEF LastAlone, LastSent, Live
<1>30. CutHolds'
  BY <1>0, <1>1, <1>3, FirstGate DEF CutHolds, CutOff, Live, Unreaped
<1>31. Uncut'
  <2>1. SUFFICES ASSUME Live, cut = None PROVE Uncut'
    BY <1>1 DEF Uncut, Live
  <2>2. (Failing' <=> Failing) /\ \A c \in 1..chunk : Somewhere(c) => Somewhere(c)'
    BY <1>1, <1>3 DEF Failing, Somewhere, Ready
  <2>3. ASSUME NEW k \in Gates, gate'[k].state = "ended",
               \/ prod' \in {"next", "hooks", "choose", "gate"}
               \/ prod' = "direct" /\ ~final'
        PROVE  Failing'
    <3>1. Failing
      BY <1>0, <1>1, <1>3, <2>1, <2>3 DEF Uncut, Turns
    <3> QED
      BY <2>2, <3>1
  <2>4. ASSUME NEW k \in Gates
        PROVE  /\ FlusherOn(k)' => k = current'
               /\ gate'[k].error => FlusherOn(k)'
               /\ gate'[k].terminal => prod' \in {"closing", "end", "wait", "drain"}
    BY <1>0, <1>1, <1>3, <2>1 DEF Uncut
  <2>5. Failing' \/ \A c \in 1..chunk' : Somewhere(c)'
    BY <1>0, <1>1, <2>1, <2>2 DEF Uncut
  <2> QED
    BY <2>3, <2>4, <2>5 DEF Uncut
<1>32. Paused'
  BY <1>0, <1>1, <1>2, <1>3 DEF Paused, Live
<1>33. StreamIsWhole'
  BY <1>0, <1>1, <1>2, <1>3, WholeKept
<1> QED
  BY <1>20, <1>21, <1>22, <1>23, <1>24, <1>25, <1>26, <1>27, <1>28, <1>29, <1>30, <1>31, <1>32, <1>33
    DEF IInv

(* A flusher has drained its buffer, or finds the gate paused.             *)
LEMMA FlusherDrainedKeeps ==
  ASSUME IInv, NEW g \in Gates, FlusherDrained(g)
  PROVE  IInv'
<1>0. /\ TypeOK /\ Shaped /\ Numbered /\ Phases /\ Closing /\ Behind /\ Stale
      /\ Apart /\ ErrorOnce /\ LastAlone /\ CutHolds /\ Uncut /\ Paused /\ StreamIsWhole
  BY DEF IInv
<1>1. /\ UNCHANGED <<current, made, gated, prodVars, ctlVars, ctxDone, closed, completed, histVars>>
      /\ gate[g].flusher = "check" /\ delivered' = delivered /\ DeliveredSet' = DeliveredSet
      /\ gate[g].state = "paused" \/ gate[g].buf = <<>>
      /\ \/ gate[g].state # "ended" /\ Turns(g, gate[g].state, gate[g].buf, gate[g].terminal, gate[g].error,
               gate[g].cached, "wait", gate[g].hand, gate[g].reap)
         \/ gate[g].state = "ended" /\ Turns(g, gate[g].state, gate[g].buf, gate[g].terminal, gate[g].error,
               gate[g].cached, IF gate[g].error THEN "error" ELSE "exit", gate[g].hand, gate[g].reap)
         \/ /\ gate[g].terminal /\ gate[g].state = "active"
            /\ Turns(g, "ended", gate[g].buf, FALSE, gate[g].error,
               gate[g].cached, IF gate[g].error THEN "error" ELSE "exit", gate[g].hand, gate[g].reap)
      /\ g <= made /\ gated
  <2>1. gate[g].flusher = "check"
    BY DEF FlusherDrained, FlushStep
  <2>2. g <= made /\ gated
    BY <1>0, <2>1, WasMade DEF Shaped, Untouched
  <2>3. gate \in [Gates -> GateRec]
    BY <1>0, Data
  <2> QED
    BY <2>1, <2>2, <2>3, FlusherTurns DEF FlusherDrained, FlushStep, Drains, Unsent, DeliveredSet
<1>2. Shape(g) /\ g # 0 /\ (current # 0 => current \in Gates)
  BY <1>0, Data, Numbers DEF Shaped
<1>0a. /\ prod \in {"gate", "end", "wait", "drain"} => via \in Gates
       /\ current # 0 => current \in Gates
  BY <1>0, Data, Numbers DEF Phases
<1>3. /\ gate' \in [Gates -> GateRec] /\ \A k \in Gates : k # g => gate'[k] = gate[k]
      /\ \A k \in Gates : /\ gate'[k].buf = gate[k].buf /\ gate'[k].hand = gate[k].hand
                          /\ (gate'[k].error <=> gate[k].error)
                          /\ (gate'[k].cached <=> gate[k].cached)
                          /\ (gate'[k].reap <=> gate[k].reap)
                          /\ (gate'[k].terminal => gate[k].terminal)
                          /\ (gate[k].state = "ended" => gate'[k].state = "ended")
                          /\ (gate'[k].state = "paused" => gate[k].state = "paused")
                          /\ Loaded(k)' = Loaded(k) /\ (FlusherOn(k)' <=> FlusherOn(k))
                          /\ (gate'[k].flusher = "send" <=> gate[k].flusher = "send")
                          /\ (gate'[k].flusher = "exited" <=> gate[k].flusher = "exited")
      /\ Shape(g)' /\ InFlight' = InFlight
  <2> DEFINE Same(k) == /\ gate'[k].buf = gate[k].buf /\ gate'[k].hand = gate[k].hand
                        /\ (gate'[k].error <=> gate[k].error)
                        /\ (gate'[k].cached <=> gate[k].cached)
                        /\ (gate'[k].reap <=> gate[k].reap)
                        /\ (gate'[k].terminal => gate[k].terminal)
                        /\ (gate[k].state = "ended" => gate'[k].state = "ended")
                        /\ (gate'[k].state = "paused" => gate[k].state = "paused")
                        /\ Loaded(k)' = Loaded(k) /\ (FlusherOn(k)' <=> FlusherOn(k))
                        /\ (gate'[k].flusher = "send" <=> gate[k].flusher = "send")
                        /\ (gate'[k].flusher = "exited" <=> gate[k].flusher = "exited")
  <2>1. gate' \in [Gates -> GateRec] /\ \A k \in Gates : k # g => gate'[k] = gate[k]
    BY <1>1 DEF Turns
  <2>2. ASSUME NEW k \in Gates PROVE Same(k)
    <3>1. CASE k = g
      BY <1>1, <1>2, <3>1 DEF Turns, Loaded, FlusherOn, Shape
    <3>2. CASE k # g
      BY <2>1, <3>2 DEF Loaded, FlusherOn
    <3> QED
      BY <3>1, <3>2
  <2> HIDE DEF Same
  <2>3. Shape(g)'
    BY <1>1, <1>2 DEF Turns, Shape, FlusherOn
  <2>4. \A k \in Gates : Same(k)
    BY <2>2
  <2>5. InFlight' = InFlight
    BY <1>1, <2>4 DEF InFlight, Same
  <2> QED
    BY <2>1, <2>3, <2>4, <2>5 DEF Same
<1>4. \A k \in Gates : Shape(k)'
  BY <1>0, <1>3 DEF Shaped, Shape, FlusherOn
<1>20. TypeOK'
  BY <1>0, <1>1, <1>3 DEF TypeOK, GateRec
<1>21. Shaped'
  BY <1>1, <1>4 DEF Shaped
<1>22. Numbered'
  BY <1>0, <1>1, <1>3, SameNumbers DEF Unreaped
<1>23. Phases'
  BY <1>0, <1>1, <1>2, <1>3, Numbers DEF Phases
<1>24. Closing'
  BY <1>0, <1>0a, <1>1, <1>2, <1>3 DEF Closing
<1>25. Behind'
  BY <1>0, <1>1, <1>2, <1>3, Numbers DEF Behind
<1>26. Stale'
  BY <1>0, <1>0a, <1>1, <1>3 DEF Stale, Token, Live
<1>27. Apart'
  BY <1>0, <1>1, <1>3 DEF Apart, Live, Ready
<1>28. ErrorOnce'
  <2>1. gate[1].flusher \in {"exit", "exited"} => gate'[1].flusher = gate[1].flusher
    BY <1>0, <1>1, <1>3, Numbers
  <2> QED
    BY <1>0, <1>1, <2>1 DEF ErrorOnce, Live
<1>29. LastAlone'
  BY <1>0, <1>1, <1>3 DEF LastAlone, LastSent, Live
<1>30. CutHolds'
  BY <1>0, <1>1, <1>3, FirstGate DEF CutHolds, CutOff, Live, Unreaped
<1>31. Uncut'
  <2>1. SUFFICES ASSUME Live, cut = None PROVE Uncut'
    BY <1>1 DEF Uncut, Live
  <2>2. (Failing' <=> Failing) /\ \A c \in 1..chunk : Somewhere(c) => Somewhere(c)'
    BY <1>1, <1>3 DEF Failing, Somewhere, Ready
  <2>3. ASSUME NEW k \in Gates, gate'[k].state = "ended",
               \/ prod' \in {"next", "hooks", "choose", "gate"}
               \/ prod' = "direct" /\ ~final'
        PROVE  Failing'
    <3>1. Failing
      BY <1>0, <1>1, <1>3, <2>1, <2>3 DEF Uncut, Turns
    <3> QED
      BY <2>2, <3>1
  <2>4. ASSUME NEW k \in Gates
        PROVE  /\ FlusherOn(k)' => k = current'
               /\ gate'[k].error => FlusherOn(k)'
               /\ gate'[k].terminal => prod' \in {"closing", "end", "wait", "drain"}
    BY <1>0, <1>1, <1>3, <2>1 DEF Uncut
  <2>5. Failing' \/ \A c \in 1..chunk' : Somewhere(c)'
    BY <1>0, <1>1, <2>1, <2>2 DEF Uncut
  <2> QED
    BY <2>3, <2>4, <2>5 DEF Uncut
<1>32. Paused'
  BY <1>0, <1>1, <1>2, <1>3 DEF Paused, Live
<1>33. StreamIsWhole'
  BY <1>0, <1>1, <1>2, <1>3, WholeKept
<1> QED
  BY <1>20, <1>21, <1>22, <1>23, <1>24, <1>25, <1>26, <1>27, <1>28, <1>29, <1>30, <1>31, <1>32, <1>33
    DEF IInv

(* A flusher takes the first chunk: the chunk moves, the others stay.      *)
LEMMA FlusherTakesKeeps ==
  ASSUME IInv, NEW g \in Gates, FlusherTakes(g)
  PROVE  IInv'
<1>0. /\ TypeOK /\ Shaped /\ Numbered /\ Phases /\ Closing /\ Behind /\ Stale
      /\ Apart /\ ErrorOnce /\ LastAlone /\ CutHolds /\ Uncut /\ Paused /\ StreamIsWhole
  BY DEF IInv
<1>1. /\ UNCHANGED <<current, made, gated, prodVars, ctlVars, ctxDone, closed, completed, histVars>>
      /\ gate[g].flusher = "check" /\ delivered' = delivered /\ DeliveredSet' = DeliveredSet
      /\ gate[g].state # "paused" /\ gate[g].buf # <<>>
      /\ Turns(g, gate[g].state, Tail(gate[g].buf), gate[g].terminal, gate[g].error,
               gate[g].cached, "send", Head(gate[g].buf), gate[g].reap)
      /\ g <= made /\ gated
  <2>1. gate[g].flusher = "check"
    BY DEF FlusherTakes, FlushStep
  <2>2. g <= made /\ gated
    BY <1>0, <2>1, WasMade DEF Shaped, Untouched
  <2>3. gate \in [Gates -> GateRec]
    BY <1>0, Data
  <2> QED
    BY <2>1, <2>2, <2>3, FlusherTurns DEF FlusherTakes, FlushStep, Drains, Unsent, DeliveredSet
<1>2. Shape(g) /\ g # 0 /\ (current # 0 => current \in Gates)
  BY <1>0, Data, Numbers DEF Shaped
<1>0a. /\ prod \in {"gate", "end", "wait", "drain"} => via \in Gates
       /\ current # 0 => current \in Gates
  BY <1>0, Data, Numbers DEF Phases
<1>3. /\ gate[g].buf \in Seq(Chunks) /\ Len(gate[g].buf) \in Nat /\ Len(gate[g].buf) > 0
      /\ gate'[g].hand = gate[g].buf[1] /\ gate'[g].hand \in Chunks /\ gate[g].hand = None
      /\ Len(gate'[g].buf) = Len(gate[g].buf) - 1
      /\ \A i \in 1..(Len(gate[g].buf) - 1) : gate'[g].buf[i] = gate[g].buf[i + 1]
  <2>1. gate[g].buf \in Seq(Chunks)
    BY <1>0, Data, GateFields
  <2>2. /\ gate'[g].hand = Head(gate[g].buf) /\ gate'[g].buf = Tail(gate[g].buf)
    BY <1>1 DEF Turns
  <2> QED
    BY <1>1, <1>2, <2>1, <2>2, TailGives DEF Shape
<1>4. \A i \in 1..Len(gate'[g].buf) :
         /\ i \in 1..Len(gate[g].buf) /\ i + 1 \in 1..Len(gate[g].buf) /\ 1 < i + 1
         /\ gate'[g].buf[i] = gate[g].buf[i + 1]
  BY <1>3
<1>5. /\ 1 \in 1..Len(gate[g].buf) /\ gate' \in [Gates -> GateRec]
      /\ \A k \in Gates : k # g => gate'[k] = gate[k]
      /\ \A k \in Gates : /\ (FlusherOn(k)' <=> FlusherOn(k)) /\ gate'[k].state = gate[k].state
                          /\ (gate'[k].reap <=> gate[k].reap)
                          /\ (gate'[k].flusher = "exited" <=> gate[k].flusher = "exited")
                          /\ (gate'[k].error <=> gate[k].error)
                          /\ (gate'[k].cached <=> gate[k].cached)
                          /\ (gate'[k].terminal <=> gate[k].terminal)
  BY <1>1, <1>3 DEF Turns, FlusherOn
<1>6. ASSUME NEW c, NEW k \in Gates, k = g PROVE c \in Loaded(k) <=> c = gate'[g].hand \/ c \in Loaded(k)'
  <2>1. ASSUME c \in Loaded(k) PROVE c = gate'[g].hand \/ c \in Loaded(k)'
    <3>1. PICK i \in 1..Len(gate[g].buf) : c = gate[g].buf[i]
      BY <1>6, <2>1 DEF Loaded
    <3>2. CASE i = 1
      BY <1>3, <3>1, <3>2
    <3>3. CASE i # 1
      <4>1. i - 1 \in 1..Len(gate'[k].buf) /\ gate'[k].buf[i - 1] = c
        <5>1. i - 1 \in 1..(Len(gate[g].buf) - 1) /\ (i - 1) + 1 = i
          BY <1>3, <3>3
        <5> QED
          BY <1>3, <1>6, <3>1, <5>1
      <4> QED
        BY <4>1 DEF Loaded
    <3> QED
      BY <3>2, <3>3
  <2>2. c = gate'[g].hand => c \in Loaded(k)
    BY <1>3, <1>5, <1>6 DEF Loaded
  <2>3. c \in Loaded(k)' => c \in Loaded(k)
    BY <1>4, <1>6 DEF Loaded
  <2> QED
    BY <2>1, <2>2, <2>3
<1>7. Live => g = current
  BY <1>0, <1>1 DEF Stale
<1>8. \A k \in Gates : k # g => Loaded(k)' = Loaded(k)
  BY <1>5 DEF Loaded
<1>20. TypeOK'
  BY <1>0, <1>1, <1>5 DEF TypeOK, GateRec
<1>21. Shaped'
  <2>1. \A k \in Gates : k # g => Shape(k)'
    BY <1>0, <1>5 DEF Shaped, Shape, FlusherOn
  <2>2. Shape(g)'
    BY <1>1, <1>2, <1>3 DEF Turns, Shape, FlusherOn
  <2> QED
    BY <1>1, <2>1, <2>2 DEF Shaped
<1>22. Numbered'
  BY <1>0, <1>1, <1>5, SameNumbers DEF Unreaped
<1>23. Phases'
  BY <1>0, <1>1, <1>2, <1>3, Numbers DEF Phases
<1>24. Closing'
  BY <1>0, <1>0a, <1>1, <1>5 DEF Closing
<1>25. Behind'
  <2>1. ASSUME NEW k \in Gates
        PROVE  /\ \A i \in 1..Len(gate'[k].buf) : gate'[k].buf[i] <= chunk
               /\ gate'[k].flusher = "send" => gate'[k].hand <= chunk
    <3>1. CASE k = g
      BY <1>0, <1>3, <1>4, <1>5, <3>1 DEF Behind
    <3>2. CASE k # g
      BY <1>0, <1>5, <3>2 DEF Behind
    <3> QED
      BY <3>1, <3>2
  <2> QED
    BY <1>0, <1>1, <2>1 DEF Behind
<1>26. Stale'
  BY <1>0, <1>0a, <1>1, <1>5, <1>7 DEF Stale, Token, Live
<1>27. Apart'
  <2>1. SUFFICES ASSUME Live PROVE Apart'
    BY <1>1 DEF Apart, Live
  <2>2. ASSUME NEW k \in Gates
        PROVE  /\ \A i \in 1..Len(gate'[k].buf) :
                     /\ gate'[k].buf[i] \notin DeliveredSet
                     /\ gate'[k].flusher = "send" => gate'[k].hand < gate'[k].buf[i]
                     /\ \A j \in 1..Len(gate'[k].buf) :
                           i < j => gate'[k].buf[i] < gate'[k].buf[j]
               /\ gate'[k].flusher = "send" => gate'[k].hand \notin DeliveredSet
    <3>1. CASE k = g
      <4>1. ASSUME NEW i \in 1..Len(gate'[g].buf)
            PROVE  /\ gate'[g].buf[i] \notin DeliveredSet /\ gate'[g].hand < gate'[g].buf[i]
        BY <1>0, <1>3, <1>4, <1>5, <2>1 DEF Apart
      <4>2. ASSUME NEW i \in 1..Len(gate'[g].buf), NEW j \in 1..Len(gate'[g].buf), i < j
            PROVE  gate'[g].buf[i] < gate'[g].buf[j]
        <5>1. i + 1 < j + 1
          BY <1>3, <4>2
        <5> QED
          BY <1>0, <1>4, <2>1, <5>1 DEF Apart
      <4>3. gate'[g].hand \notin DeliveredSet
        BY <1>0, <1>3, <1>5, <2>1 DEF Apart
      <4> QED
        BY <3>1, <4>1, <4>2, <4>3
    <3>2. CASE k # g
      BY <1>0, <1>5, <2>1, <3>2 DEF Apart
    <3> QED
      BY <3>1, <3>2
  <2>3. ASSUME Ready, NEW k \in Gates PROVE chunk \notin Loaded(k)' /\ gate'[k].hand # chunk
    <3>1. chunk \notin Loaded(k) /\ gate[k].hand # chunk
      BY <1>0, <2>1, <2>3 DEF Apart
    <3> QED
      BY <1>5, <1>6, <1>8, <3>1
  <2> QED
    BY <1>0, <1>1, <2>1, <2>2, <2>3 DEF Apart, Ready
<1>28. ErrorOnce'
  BY <1>0, <1>1, <1>5, Numbers DEF ErrorOnce, Live
<1>29. LastAlone'
  <2>1. SUFFICES ASSUME Live, final, LastSent' PROVE LastAlone'
    BY <1>1 DEF LastAlone, Live
  <2>2. ~LastSent
    BY <1>0, <1>1, <2>1 DEF LastAlone
  <2>3. gate'[g].hand = chunk
    BY <1>1, <1>5, <2>1, <2>2 DEF LastSent
  <2>4. gate'[g].buf = <<>>
    <3>1. ASSUME Len(gate[g].buf) > 1 PROVE FALSE
      <4>1. 2 \in 1..Len(gate[g].buf) /\ 1 < 2
        BY <1>3, <3>1
      <4>2. gate[g].buf[1] < gate[g].buf[2] /\ gate[g].buf[2] <= chunk
        BY <1>0, <1>5, <2>1, <4>1 DEF Apart, Behind
      <4>3. gate[g].buf[2] \in Nat /\ chunk \in Nat
        BY <1>0, <4>1, Data
      <4> QED
        BY <1>3, <2>3, <4>2, <4>3
    <3>2. Len(gate'[g].buf) = 0
      <4> DEFINE n == Len(gate[g].buf)
      <4>1. ~(n > 1) /\ n \in Nat /\ n > 0 /\ Len(gate'[g].buf) = n - 1
        BY <1>3, <3>1
      <4> HIDE DEF n
      <4> QED
        BY <4>1
    <3> QED
      BY <1>5, <3>2, EmptyOrNot DEF GateRec
  <2>5. ASSUME NEW k \in Gates, k # g PROVE gate'[k].buf = <<>> /\ gate'[k].hand = None
    BY <1>0, <1>5, <1>7, <2>1, <2>5 DEF Stale, Shaped, Shape
  <2> QED
    BY <1>1, <2>3, <2>4, <2>5 DEF LastAlone
<1>30. CutHolds'
  <2>1. SUFFICES ASSUME Live, cut # None PROVE CutHolds'
    BY <1>1 DEF CutHolds, Live
  <2>2. ASSUME NEW k \in Gates
        PROVE  /\ \A i \in 1..Len(gate'[k].buf) : CutOff(gate'[k].buf[i])
               /\ gate'[k].flusher = "send" => CutOff(gate'[k].hand)
    <3>1. CASE k = g
      BY <1>0, <1>3, <1>4, <1>5, <2>1, <3>1 DEF CutHolds
    <3>2. CASE k # g
      BY <1>0, <1>5, <2>1, <3>2 DEF CutHolds
    <3> QED
      BY <3>1, <3>2
  <2> QED
    BY <1>0, <1>1, <1>5, <2>1, <2>2, FirstGate DEF CutHolds, CutOff, Unreaped
<1>31. Uncut'
  <2>1. SUFFICES ASSUME Live, cut = None PROVE Uncut'
    BY <1>1 DEF Uncut, Live
  <2>2. Failing' <=> Failing
    BY <1>1, <1>5 DEF Failing
  <2>3. ASSUME NEW c \in 1..chunk, Somewhere(c) PROVE Somewhere(c)'
    <3>1. c # None
      BY <1>0, Data, Numbers
    <3>2. CASE \E k \in Gates : c \in Loaded(k) \/ gate[k].hand = c
      <4>1. PICK k \in Gates : c \in Loaded(k) \/ gate[k].hand = c
        BY <3>2
      <4>2. CASE k = g
        BY <1>3, <1>6, <3>1, <4>1, <4>2 DEF Somewhere
      <4>3. CASE k # g
        BY <1>5, <1>8, <4>1, <4>3 DEF Somewhere
      <4> QED
        BY <4>2, <4>3
    <3> QED
      BY <1>1, <2>3, <3>2 DEF Somewhere, Ready
  <2> QED
    BY <1>0, <1>1, <1>5, <2>1, <2>2, <2>3 DEF Uncut
<1>32. Paused'
  BY <1>0, <1>1, <1>5, <1>7 DEF Paused, Live
<1>33. StreamIsWhole'
  BY <1>0, <1>1, <1>2, <1>3, WholeKept
<1> QED
  BY <1>20, <1>21, <1>22, <1>23, <1>24, <1>25, <1>26, <1>27, <1>28, <1>29, <1>30, <1>31, <1>32, <1>33
    DEF IInv

(* A flusher delivers the chunk in its hand: nobody else has it.           *)
LEMMA FlusherSendsKeeps ==
  ASSUME IInv, NEW g \in Gates, FlusherSends(g), Send(gate[g].hand),
         Turns(g, gate[g].state, gate[g].buf, gate[g].terminal, gate[g].error,
               gate[g].cached, "check", None, gate[g].reap)
  PROVE  IInv'
<1>0. /\ TypeOK /\ Shaped /\ Numbered /\ Phases /\ Closing /\ Behind /\ Stale
      /\ Apart /\ ErrorOnce /\ LastAlone /\ CutHolds /\ Uncut /\ Paused /\ StreamIsWhole
  BY DEF IInv
<1>1. /\ UNCHANGED <<current, made, gated, prodVars, ctlVars, ctxDone, closed, completed, histVars>>
      /\ gate[g].flusher = "send" /\ Send(gate[g].hand)
      /\ Turns(g, gate[g].state, gate[g].buf, gate[g].terminal, gate[g].error,
               gate[g].cached, "check", None, gate[g].reap)
      /\ g <= made /\ gated
  <2>1. gate[g].flusher = "send"
    BY DEF FlusherSends, FlushStep
  <2>2. g <= made /\ gated
    BY <1>0, <2>1, WasMade DEF Shaped, Untouched
  <2>3. gate \in [Gates -> GateRec]
    BY <1>0, Data
  <2> QED
    BY <2>1, <2>2, <2>3, FlusherTurns DEF FlusherSends, FlushStep, Drains, Unsent, DeliveredSet
<1>2. Shape(g) /\ g # 0 /\ (current # 0 => current \in Gates)
  BY <1>0, Data, Numbers DEF Shaped
<1>0a. /\ prod \in {"gate", "end", "wait", "drain"} => via \in Gates
       /\ current # 0 => current \in Gates
  BY <1>0, Data, Numbers DEF Phases
<1>3. /\ delivered' \in Seq(Chunks \cup {Error}) /\ ~closed
      /\ Len(delivered) \in Nat /\ Len(delivered') = Len(delivered) + 1
      /\ \A i \in 1..Len(delivered) : delivered'[i] = delivered[i]
      /\ delivered'[Len(delivered) + 1] = gate[g].hand
      /\ DeliveredSet' = DeliveredSet \cup {gate[g].hand}
  BY <1>0, <1>1, <1>2, Data, SendGives DEF Shape
<1>4. \A i \in 1..Len(delivered') :
         \/ /\ i \in 1..Len(delivered) /\ delivered'[i] = delivered[i]
            /\ delivered'[i] \in DeliveredSet
         \/ i = Len(delivered) + 1 /\ delivered'[i] = gate[g].hand
  BY <1>3 DEF DeliveredSet
<1>5. /\ gate' \in [Gates -> GateRec]
      /\ \A k \in Gates : k # g => gate'[k] = gate[k]
      /\ \A k \in Gates : /\ (FlusherOn(k)' <=> FlusherOn(k)) /\ gate'[k].state = gate[k].state
                          /\ (gate'[k].reap <=> gate[k].reap)
                          /\ (gate'[k].flusher = "exited" <=> gate[k].flusher = "exited")
                          /\ (gate'[k].error <=> gate[k].error)
                          /\ (gate'[k].cached <=> gate[k].cached)
                          /\ (gate'[k].terminal <=> gate[k].terminal)
                          /\ gate'[k].buf = gate[k].buf /\ Loaded(k)' = Loaded(k)
                          /\ gate'[k].flusher = "send" => gate[k].flusher = "send" /\ k # g
                          /\ gate'[k].hand = IF k = g THEN None ELSE gate[k].hand
  BY <1>1 DEF Turns, FlusherOn, Loaded
<1>6. /\ gate[g].hand \in Chunks /\ gate[g].hand # Error /\ gate[g].hand # None
      /\ gate[g].hand \in Nat /\ chunk \in Nat /\ chunk # None /\ gate[g].hand <= chunk
  BY <1>0, <1>1, <1>2, Data, Numbers DEF Shape, Behind
<1>7. Live => /\ g = current /\ gate[g].hand \notin DeliveredSet
              /\ \A k \in Gates : gate[g].hand \notin Loaded(k)
              /\ \A k \in Gates : k # g => gate[k].buf = <<>> /\ gate[k].flusher # "send"
              /\ Ready => gate[g].hand # chunk
  <2>1. SUFFICES ASSUME Live
        PROVE /\ g = current /\ gate[g].hand \notin DeliveredSet
              /\ \A k \in Gates : gate[g].hand \notin Loaded(k)
              /\ \A k \in Gates : k # g => gate[k].buf = <<>> /\ gate[k].flusher # "send"
              /\ Ready => gate[g].hand # chunk
    OBVIOUS
  <2>2. g = current
    BY <1>0, <1>1, <2>1 DEF Stale
  <2>3. \A k \in Gates : k # g => gate[k].buf = <<>> /\ gate[k].flusher # "send"
    BY <1>0, <2>1, <2>2 DEF Stale
  <2>4. gate[g].hand \notin Loaded(g)
    <3>1. \A i \in 1..Len(gate[g].buf) : gate[g].hand < gate[g].buf[i]
      BY <1>0, <1>1, <2>1 DEF Apart
    <3> QED
      BY <1>6, <3>1 DEF Loaded
  <2>5. \A k \in Gates : k # g => Loaded(k) = {}
    BY <2>3 DEF Loaded
  <2> QED
    BY <1>0, <1>1, <2>1, <2>2, <2>3, <2>4, <2>5 DEF Apart
<1>8. Live => \A i, j \in 1..Len(delivered') :
                 delivered'[i] = delivered'[j] /\ delivered'[i] # Error => i = j
  BY <1>0, <1>3, <1>4, <1>7 DEF Apart
<1>20. TypeOK'
  BY <1>0, <1>1, <1>3, <1>5 DEF TypeOK, GateRec
<1>21. Shaped'
  <2>1. \A k \in Gates : k # g => Shape(k)'
    BY <1>0, <1>5 DEF Shaped, Shape, FlusherOn
  <2>2. Shape(g)'
    BY <1>1, <1>2 DEF Turns, Shape, FlusherOn
  <2> QED
    BY <1>1, <2>1, <2>2 DEF Shaped
<1>22. Numbered'
  BY <1>0, <1>1, <1>5, SameNumbers DEF Unreaped
<1>23. Phases'
  BY <1>0, <1>1, <1>2, <1>3, Numbers DEF Phases
<1>24. Closing'
  BY <1>0, <1>0a, <1>1, <1>5 DEF Closing
<1>25. Behind'
  BY <1>0, <1>1, <1>3, <1>4, <1>5, <1>6 DEF Behind
<1>26. Stale'
  BY <1>0, <1>0a, <1>1, <1>5 DEF Stale, Token, Live
<1>27. Apart'
  <2>1. SUFFICES ASSUME Live PROVE Apart'
    BY <1>1 DEF Apart, Live
  <2>2. ASSUME NEW k \in Gates
        PROVE  /\ \A i \in 1..Len(gate'[k].buf) :
                     /\ gate'[k].buf[i] \notin DeliveredSet'
                     /\ gate'[k].flusher = "send" => gate'[k].hand < gate'[k].buf[i]
                     /\ \A j \in 1..Len(gate'[k].buf) :
                           i < j => gate'[k].buf[i] < gate'[k].buf[j]
               /\ gate'[k].flusher # "send"
    <3>1. gate'[k].flusher # "send" /\ gate'[k].buf = gate[k].buf
      BY <1>5, <1>7, <2>1
    <3>2. ASSUME NEW i \in 1..Len(gate[k].buf)
          PROVE  /\ gate[k].buf[i] \notin DeliveredSet'
                 /\ \A j \in 1..Len(gate[k].buf) : i < j => gate[k].buf[i] < gate[k].buf[j]
      <4>1. gate[k].buf[i] \in Loaded(k)
        BY DEF Loaded
      <4>2. gate[k].buf[i] # gate[g].hand
        BY <1>7, <2>1, <4>1
      <4> QED
        BY <1>0, <1>3, <2>1, <4>2 DEF Apart
    <3> QED
      BY <3>1, <3>2
  <2>3. Ready => /\ chunk \notin DeliveredSet'
                 /\ \A k \in Gates : chunk \notin Loaded(k)' /\ gate'[k].hand # chunk
    BY <1>0, <1>3, <1>5, <1>6, <1>7, <2>1 DEF Apart
  <2> QED
    BY <1>1, <1>8, <2>1, <2>2, <2>3 DEF Apart, Ready
<1>28. ErrorOnce'
  <2>1. gate[1].flusher \in {"exit", "exited"} => gate'[1].flusher = gate[1].flusher
    BY <1>1, <1>5, Numbers
  <2> QED
    BY <1>0, <1>1, <1>3, <1>4, <1>6, <2>1 DEF ErrorOnce, Live
<1>29. LastAlone'
  <2>1. SUFFICES ASSUME Live, final, LastSent' PROVE LastAlone'
    BY <1>1 DEF LastAlone, Live
  <2>2. LastSent
    BY <1>1, <1>3, <1>5, <1>6, <2>1 DEF LastSent
  <2> QED
    BY <1>0, <1>1, <1>5, <2>1, <2>2 DEF LastAlone
<1>30. CutHolds'
  <2>1. SUFFICES ASSUME Live, cut # None PROVE CutHolds'
    BY <1>1 DEF CutHolds, Live
  <2>2. \A i \in 1..Len(delivered') : delivered'[i] # Error => CutOff(delivered'[i])
    BY <1>0, <1>1, <1>4, <2>1 DEF CutHolds
  <2>3. ASSUME NEW k \in Gates
        PROVE  /\ \A i \in 1..Len(gate'[k].buf) : CutOff(gate'[k].buf[i])
               /\ gate'[k].flusher = "send" => CutOff(gate'[k].hand)
    BY <1>0, <1>5, <2>1 DEF CutHolds
  <2> QED
    BY <1>0, <1>1, <1>5, <2>1, <2>2, <2>3, FirstGate DEF CutHolds, CutOff, Unreaped
<1>31. Uncut'
  <2>1. SUFFICES ASSUME Live, cut = None PROVE Uncut'
    BY <1>1 DEF Uncut, Live
  <2>2. Failing' <=> Failing
    BY <1>3, <1>5, <1>6 DEF Failing
  <2>3. \A c \in 1..chunk : Somewhere(c) => Somewhere(c)'
    BY <1>1, <1>3, <1>5 DEF Somewhere, Ready
  <2> QED
    BY <1>0, <1>1, <1>5, <2>1, <2>2, <2>3 DEF Uncut
<1>32. Paused'
  <2>1. \A k \in Gates : gate'[k].flusher = "send" =>
            gate[k].flusher = "send" /\ gate'[k].hand = gate[k].hand
    BY <1>5
  <2>2. current # 0 => gate'[current].state = gate[current].state
    BY <1>2, <1>5
  <2> QED
    BY <1>0, <1>1, <2>1, <2>2, PauseKept DEF Live
<1>33. StreamIsWhole'
  <2>1. SUFFICES ASSUME Live PROVE StreamIsWhole'
    BY <1>1, <1>3 DEF StreamIsWhole, NothingDropped, OnceOnly, FinalIsLast, EndDropsLater, Live
  <2>2. OnceOnly'
    BY <1>0, <1>1, <1>3, <1>4, <1>6, <1>8, <2>1 DEF StreamIsWhole, OnceOnly, Live
  <2>3. FinalIsLast'
    <3>1. ASSUME NEW i \in 1..Len(delivered'), final, delivered'[i] = chunk
          PROVE  i = Len(delivered) + 1
      <4>1. ASSUME chunk \in DeliveredSet PROVE FALSE
        <5>1. gate[g].hand = chunk
          BY <1>0, <1>6, <2>1, <3>1, <4>1 DEF LastAlone, LastSent
        <5> QED
          BY <1>7, <2>1, <4>1, <5>1
      <4> QED
        BY <1>4, <3>1, <4>1
    <3>2. \A i, j \in Nat : i = Len(delivered) + 1 => ~(j \in (i + 1)..Len(delivered'))
      BY <1>3
    <3> QED
      BY <1>1, <1>3, <3>1, <3>2 DEF FinalIsLast
  <2>4. EndDropsLater'
    <3>1. cut # None => CutOff(gate[g].hand)
      BY <1>0, <1>1, <2>1 DEF CutHolds
    <3> QED
      BY <1>0, <1>1, <1>3, <1>4, <2>1, <3>1 DEF StreamIsWhole, EndDropsLater, CutOff, Live
  <2> QED
    BY <1>1, <1>3, <2>2, <2>3, <2>4 DEF StreamIsWhole, NothingDropped
<1> QED
  BY <1>20, <1>21, <1>22, <1>23, <1>24, <1>25, <1>26, <1>27, <1>28, <1>29, <1>30, <1>31, <1>32, <1>33
    DEF IInv

(* A flusher cannot send: the client has left, or the channel is closed.   *)
LEMMA FlusherGivesUpKeeps ==
  ASSUME IInv, NEW g \in Gates, FlusherSends(g), Unsent,
         Turns(g, "ended", <<>>, gate[g].terminal, gate[g].error,
               gate[g].cached, "check", None, gate[g].reap)
  PROVE  IInv'
<1>0. /\ TypeOK /\ Shaped /\ Numbered /\ Phases /\ Closing /\ Behind /\ Stale
      /\ Apart /\ ErrorOnce /\ LastAlone /\ CutHolds /\ Uncut /\ Paused /\ StreamIsWhole
  BY DEF IInv
<1>1. /\ UNCHANGED <<current, made, gated, prodVars, ctlVars, ctxDone, closed, completed, histVars>>
      /\ gate[g].flusher = "send" /\ Unsent /\ delivered' = delivered /\ DeliveredSet' = DeliveredSet
      /\ Turns(g, "ended", <<>>, gate[g].terminal, gate[g].error,
               gate[g].cached, "check", None, gate[g].reap)
      /\ g <= made /\ gated
  <2>1. gate[g].flusher = "send"
    BY DEF FlusherSends, FlushStep
  <2>2. g <= made /\ gated
    BY <1>0, <2>1, WasMade DEF Shaped, Untouched
  <2>3. gate \in [Gates -> GateRec]
    BY <1>0, Data
  <2> QED
    BY <2>1, <2>2, <2>3, FlusherTurns DEF FlusherSends, FlushStep, Drains, Unsent, DeliveredSet
<1>2. Shape(g) /\ g # 0 /\ (current # 0 => current \in Gates)
  BY <1>0, Data, Numbers DEF Shaped
<1>0a. /\ prod \in {"gate", "end", "wait", "drain"} => via \in Gates
       /\ current # 0 => current \in Gates
  BY <1>0, Data, Numbers DEF Phases
<1>3. /\ ~Live /\ ~Live' /\ gate' \in [Gates -> GateRec]
      /\ \A k \in Gates : k # g => gate'[k] = gate[k]
      /\ gate'[g].state = "ended" /\ gate'[g].buf = <<>> /\ gate'[g].hand = None
      /\ \A k \in Gates : (FlusherOn(k)' <=> FlusherOn(k)) /\ (gate'[k].cached <=> gate[k].cached)
  BY <1>1 DEF Turns, FlusherOn, Live, Unsent
<1>4. Shape(g)' /\ \A k \in Gates : k # g => Shape(k)'
  BY <1>0, <1>1, <1>2, <1>3 DEF Turns, Shaped, Shape, FlusherOn
<1>20. TypeOK'
  BY <1>0, <1>1, <1>3 DEF TypeOK, GateRec
<1>21. Shaped'
  BY <1>1, <1>4 DEF Shaped
<1>22. Numbered'
  BY <1>0, <1>1, <1>3, SameNumbers DEF Turns, Unreaped
<1>23. Phases'
  BY <1>0, <1>1, <1>2, <1>3, Numbers DEF Phases
<1>24. Closing'
  BY <1>0, <1>0a, <1>1, <1>3 DEF Closing, FlusherOn
<1>25. Behind'
  BY <1>0, <1>1, <1>3 DEF Behind, Turns
<1>26. Stale'
  BY <1>0, <1>1, <1>2, <1>3, Numbers DEF Stale, Live, FlusherOn, Token
<1>27. Apart'
  BY <1>0, <1>1, <1>2, <1>3, Numbers DEF Apart, Live, Ready, Loaded
<1>28. ErrorOnce'
  BY <1>0, <1>1, <1>2, <1>3, Numbers DEF ErrorOnce, Live
<1>29. LastAlone'
  BY <1>0, <1>1, <1>2, <1>3, Numbers DEF LastAlone, LastSent, Live
<1>30. CutHolds'
  BY <1>0, <1>1, <1>2, <1>3, Numbers DEF CutHolds, CutOff, Live, Unreaped
<1>31. Uncut'
  BY <1>0, <1>1, <1>2, <1>3, Numbers DEF Uncut, Failing, Somewhere, Live, Ready, Loaded, FlusherOn
<1>32. Paused'
  BY <1>0, <1>1, <1>2, <1>3, Numbers DEF Paused, Live, InFlight
<1>33. StreamIsWhole'
  BY <1>0, <1>1, <1>2, <1>3, WholeKept
<1> QED
  BY <1>20, <1>21, <1>22, <1>23, <1>24, <1>25, <1>26, <1>27, <1>28, <1>29, <1>30, <1>31, <1>32, <1>33
    DEF IInv

(* The error is delivered, once until the last chunk.                      *)
LEMMA FlusherSendsErrorKeeps ==
  ASSUME IInv, NEW g \in Gates, FlusherSendsError(g), Send(Error)
  PROVE  IInv'
<1>0. /\ TypeOK /\ Shaped /\ Numbered /\ Phases /\ Closing /\ Behind /\ Stale
      /\ Apart /\ ErrorOnce /\ LastAlone /\ CutHolds /\ Uncut /\ Paused /\ StreamIsWhole
  BY DEF IInv
<1>1. /\ UNCHANGED <<current, made, gated, prodVars, ctlVars, ctxDone, closed, completed, histVars>>
      /\ gate[g].flusher = "error" /\ Send(Error)
      /\ Turns(g, gate[g].state, gate[g].buf, gate[g].terminal, FALSE,
               gate[g].cached, "exit", gate[g].hand, gate[g].reap)
      /\ g <= made /\ gated
  <2>1. gate[g].flusher = "error"
    BY DEF FlusherSendsError, FlushStep
  <2>2. g <= made /\ gated
    BY <1>0, <2>1, WasMade DEF Shaped, Untouched
  <2>3. gate \in [Gates -> GateRec]
    BY <1>0, Data
  <2> QED
    BY <2>1, <2>2, <2>3, FlusherTurns DEF FlusherSendsError, FlushStep, Drains, Unsent, DeliveredSet
<1>2. Shape(g) /\ g # 0 /\ (current # 0 => current \in Gates)
  BY <1>0, Data, Numbers DEF Shaped
<1>0a. /\ prod \in {"gate", "end", "wait", "drain"} => via \in Gates
       /\ current # 0 => current \in Gates
  BY <1>0, Data, Numbers DEF Phases
<1>3. /\ delivered' \in Seq(Chunks \cup {Error}) /\ ~closed
      /\ Len(delivered) \in Nat /\ Len(delivered') = Len(delivered) + 1
      /\ \A i \in 1..Len(delivered) : delivered'[i] = delivered[i]
      /\ delivered'[Len(delivered) + 1] = Error
      /\ DeliveredSet' = DeliveredSet \cup {Error}
  BY <1>0, <1>1, <1>2, Data, SendGives DEF Shape
<1>4. \A i \in 1..Len(delivered') :
         \/ /\ i \in 1..Len(delivered) /\ delivered'[i] = delivered[i]
            /\ delivered'[i] \in DeliveredSet
         \/ i = Len(delivered) + 1 /\ delivered'[i] = Error
  BY <1>3 DEF DeliveredSet
<1>5. /\ gate' \in [Gates -> GateRec]
      /\ \A k \in Gates : k # g => gate'[k] = gate[k]
      /\ \A k \in Gates : /\ (FlusherOn(k)' <=> FlusherOn(k)) /\ gate'[k].state = gate[k].state
                          /\ (gate'[k].reap <=> gate[k].reap)
                          /\ (gate'[k].flusher = "exited" <=> gate[k].flusher = "exited")
                          /\ (gate'[k].cached <=> gate[k].cached)
                          /\ (gate'[k].terminal <=> gate[k].terminal)
                          /\ gate'[k].buf = gate[k].buf /\ Loaded(k)' = Loaded(k)
                          /\ gate'[k].flusher = "send" <=> gate[k].flusher = "send"
                          /\ gate'[k].hand = gate[k].hand
                          /\ gate'[k].error => gate[k].error
      /\ gate'[g].flusher = "exit" /\ ~gate'[g].error
  BY <1>1 DEF Turns, FlusherOn, Loaded
<1>6. \A k \in Gates : Shape(k)'
  BY <1>0, <1>1, <1>2, <1>5 DEF Shaped, Shape, FlusherOn
<1>7. chunk # Error /\ Error # None
  BY <1>0, Data, Numbers
<1>8. Live /\ ~final => g = 1 /\ Error \notin DeliveredSet
  <2>1. SUFFICES ASSUME Live, ~final PROVE g = 1 /\ Error \notin DeliveredSet
    OBVIOUS
  <2>2. g = 1
    BY <1>0, <1>1, <2>1, OneGate DEF Unreaped
  <2> QED
    BY <1>0, <1>1, <2>1, <2>2 DEF ErrorOnce
<1>20. TypeOK'
  BY <1>0, <1>1, <1>3, <1>5 DEF TypeOK, GateRec
<1>21. Shaped'
  BY <1>1, <1>6 DEF Shaped
<1>22. Numbered'
  BY <1>0, <1>1, <1>5, SameNumbers DEF Unreaped
<1>23. Phases'
  BY <1>0, <1>1, <1>2, <1>3, Numbers DEF Phases
<1>24. Closing'
  BY <1>0, <1>0a, <1>1, <1>5 DEF Closing
<1>25. Behind'
  BY <1>0, <1>1, <1>3, <1>4, <1>5 DEF Behind
<1>26. Stale'
  BY <1>0, <1>0a, <1>1, <1>5 DEF Stale, Token, Live
<1>27. Apart'
  <2>1. SUFFICES ASSUME Live PROVE Apart'
    BY <1>1 DEF Apart, Live
  <2>2. \A k \in Gates : \A i \in 1..Len(gate[k].buf) : gate[k].buf[i] # Error
    <3>1. ASSUME NEW k \in Gates, NEW i \in 1..Len(gate[k].buf) PROVE gate[k].buf[i] # Error
      <4>1. gate[k].buf[i] \in Nat /\ gate[k].buf[i] <= MaxChunks
        BY <1>0, Data
      <4> QED
        BY <4>1, Numbers
    <3> QED
      BY <3>1
  <2>3. ASSUME NEW k \in Gates PROVE gate[k].hand # Error
    <3>1. gate[k].hand = None \/ gate[k].hand <= MaxChunks
      BY <1>0, Data
    <3> QED
      BY <3>1, Numbers
  <2>4. \A i, j \in 1..Len(delivered') :
           delivered'[i] = delivered'[j] /\ delivered'[i] # Error => i = j
    BY <1>0, <1>3, <1>4, <2>1 DEF Apart
  <2>5. ASSUME NEW k \in Gates
        PROVE  /\ \A i \in 1..Len(gate'[k].buf) :
                     /\ gate'[k].buf[i] \notin DeliveredSet'
                     /\ gate'[k].flusher = "send" => gate'[k].hand < gate'[k].buf[i]
                     /\ \A j \in 1..Len(gate'[k].buf) :
                           i < j => gate'[k].buf[i] < gate'[k].buf[j]
               /\ gate'[k].flusher = "send" => gate'[k].hand \notin DeliveredSet'
    <3>1. /\ gate'[k].buf = gate[k].buf /\ gate'[k].hand = gate[k].hand
          /\ gate'[k].flusher = "send" <=> gate[k].flusher = "send"
      BY <1>5
    <3>2. \A c : c # Error => (c \in DeliveredSet' <=> c \in DeliveredSet)
      BY <1>3
    <3> QED
      BY <1>0, <2>1, <2>2, <2>3, <3>1, <3>2 DEF Apart
  <2>6. Ready => /\ chunk \notin DeliveredSet'
                 /\ \A k \in Gates : chunk \notin Loaded(k)' /\ gate'[k].hand # chunk
    BY <1>0, <1>3, <1>5, <1>7, <2>1 DEF Apart
  <2> QED
    BY <1>1, <2>1, <2>4, <2>5, <2>6 DEF Apart, Ready
<1>28. ErrorOnce'
  <2>1. SUFFICES ASSUME Live, ~final PROVE ErrorOnce'
    BY <1>1 DEF ErrorOnce, Live
  <2>2. gate'[1].flusher = "exit"
    BY <1>5, <1>8, <2>1
  <2>3. \A i, j \in 1..Len(delivered') : delivered'[i] = Error /\ delivered'[j] = Error => i = j
    BY <1>3, <1>4, <1>8, <2>1
  <2> QED
    BY <2>2, <2>3 DEF ErrorOnce
<1>29. LastAlone'
  BY <1>0, <1>1, <1>3, <1>5, <1>7 DEF LastAlone, LastSent, Live
<1>30. CutHolds'
  <2>1. SUFFICES ASSUME Live, cut # None PROVE CutHolds'
    BY <1>1 DEF CutHolds, Live
  <2>2. \A i \in 1..Len(delivered') : delivered'[i] # Error => CutOff(delivered'[i])
    BY <1>0, <1>1, <1>4, <2>1 DEF CutHolds
  <2> QED
    BY <1>0, <1>1, <1>5, <2>1, <2>2, FirstGate DEF CutHolds, CutOff, Unreaped
<1>31. Uncut'
  <2>1. SUFFICES ASSUME Live, cut = None PROVE Uncut'
    BY <1>1 DEF Uncut, Live
  <2>2. Failing'
    BY <1>3 DEF Failing
  <2> QED
    BY <1>0, <1>1, <1>5, <2>1, <2>2 DEF Uncut
<1>32. Paused'
  <2>1. InFlight' = InFlight
    BY <1>1, <1>5 DEF InFlight
  <2> QED
    BY <1>0, <1>1, <1>2, <1>5, <2>1 DEF Paused, Live
<1>33. StreamIsWhole'
  <2>1. SUFFICES ASSUME Live PROVE StreamIsWhole'
    BY <1>1, <1>3 DEF StreamIsWhole, NothingDropped, OnceOnly, FinalIsLast, EndDropsLater, Live
  <2>2. OnceOnly'
    <3>1. ASSUME NEW i \in 1..Len(delivered'), NEW j \in 1..Len(delivered'),
                 delivered'[i] = delivered'[j], final => delivered'[i] # Error
          PROVE  i = j
      <4>1. CASE final
        BY <1>0, <1>3, <1>4, <2>1, <3>1, <4>1 DEF Apart
      <4>2. CASE ~final
        BY <1>0, <1>3, <1>4, <1>8, <2>1, <3>1, <4>2 DEF Apart, ErrorOnce
      <4> QED
        BY <4>1, <4>2
    <3> QED
      BY <1>1, <3>1 DEF OnceOnly
  <2>3. FinalIsLast'
    <3>1. ASSUME NEW i \in 1..Len(delivered'), final, delivered'[i] = chunk,
                 NEW j \in (i + 1)..Len(delivered')
          PROVE  delivered'[j] = Error
      <4>1. i \in 1..Len(delivered) /\ delivered[i] = chunk
        BY <1>4, <1>7, <3>1
      <4>2. j = Len(delivered) + 1 \/ j \in (i + 1)..Len(delivered)
        BY <1>3, <3>1
      <4>3. j \in 1..Len(delivered')
        BY <1>3, <3>1
      <4> QED
        BY <1>0, <1>3, <1>4, <2>1, <3>1, <4>1, <4>2, <4>3
           DEF StreamIsWhole, FinalIsLast, Live
    <3> QED
      BY <1>1, <3>1 DEF FinalIsLast
  <2>4. EndDropsLater'
    BY <1>0, <1>1, <1>4, <2>1 DEF StreamIsWhole, EndDropsLater, Live
  <2> QED
    BY <1>1, <1>3, <2>2, <2>3, <2>4 DEF StreamIsWhole, NothingDropped
<1> QED
  BY <1>20, <1>21, <1>22, <1>23, <1>24, <1>25, <1>26, <1>27, <1>28, <1>29, <1>30, <1>31, <1>32, <1>33
    DEF IInv

(* The error cannot be sent.                                               *)
LEMMA FlusherDropsErrorKeeps ==
  ASSUME IInv, NEW g \in Gates, FlusherSendsError(g), Unsent
  PROVE  IInv'
<1>0. /\ TypeOK /\ Shaped /\ Numbered /\ Phases /\ Closing /\ Behind /\ Stale
      /\ Apart /\ ErrorOnce /\ LastAlone /\ CutHolds /\ Uncut /\ Paused /\ StreamIsWhole
  BY DEF IInv
<1>1. /\ UNCHANGED <<current, made, gated, prodVars, ctlVars, ctxDone, closed, completed, histVars>>
      /\ gate[g].flusher = "error" /\ Unsent /\ delivered' = delivered /\ DeliveredSet' = DeliveredSet
      /\ Turns(g, gate[g].state, gate[g].buf, gate[g].terminal, FALSE,
               gate[g].cached, "exit", gate[g].hand, gate[g].reap)
      /\ g <= made /\ gated
  <2>1. gate[g].flusher = "error"
    BY DEF FlusherSendsError, FlushStep
  <2>2. g <= made /\ gated
    BY <1>0, <2>1, WasMade DEF Shaped, Untouched
  <2>3. gate \in [Gates -> GateRec]
    BY <1>0, Data
  <2> QED
    BY <2>1, <2>2, <2>3, FlusherTurns DEF FlusherSendsError, FlushStep, Drains, Unsent, DeliveredSet
<1>2. Shape(g) /\ g # 0 /\ (current # 0 => current \in Gates)
  BY <1>0, Data, Numbers DEF Shaped
<1>0a. /\ prod \in {"gate", "end", "wait", "drain"} => via \in Gates
       /\ current # 0 => current \in Gates
  BY <1>0, Data, Numbers DEF Phases
<1>3. ~Live /\ ~Live'
  BY <1>1 DEF Live, Unsent
<1>5. /\ gate' \in [Gates -> GateRec]
      /\ \A k \in Gates : k # g => gate'[k] = gate[k]
      /\ \A k \in Gates : /\ (FlusherOn(k)' <=> FlusherOn(k)) /\ gate'[k].state = gate[k].state
                          /\ (gate'[k].reap <=> gate[k].reap)
                          /\ (gate'[k].flusher = "exited" <=> gate[k].flusher = "exited")
                          /\ (gate'[k].cached <=> gate[k].cached)
                          /\ (gate'[k].terminal <=> gate[k].terminal)
                          /\ gate'[k].buf = gate[k].buf /\ Loaded(k)' = Loaded(k)
                          /\ gate'[k].flusher = "send" <=> gate[k].flusher = "send"
                          /\ gate'[k].hand = gate[k].hand
                          /\ gate'[k].error => gate[k].error
      /\ gate'[g].flusher = "exit" /\ ~gate'[g].error
  BY <1>1 DEF Turns, FlusherOn, Loaded
<1>6. \A k \in Gates : Shape(k)'
  BY <1>0, <1>1, <1>2, <1>5 DEF Shaped, Shape, FlusherOn
<1>20. TypeOK'
  BY <1>0, <1>1, <1>5 DEF TypeOK, GateRec
<1>21. Shaped'
  BY <1>1, <1>6 DEF Shaped
<1>22. Numbered'
  BY <1>0, <1>1, <1>5, SameNumbers DEF Unreaped
<1>23. Phases'
  BY <1>0, <1>1, <1>2, <1>3, Numbers DEF Phases
<1>24. Closing'
  BY <1>0, <1>0a, <1>1, <1>5 DEF Closing
<1>25. Behind'
  BY <1>0, <1>1, <1>5 DEF Behind
<1>26. Stale'
  BY <1>0, <1>1, <1>2, <1>3, Numbers DEF Stale, Live, FlusherOn, Token
<1>27. Apart'
  BY <1>0, <1>1, <1>2, <1>3, Numbers DEF Apart, Live, Ready, Loaded
<1>28. ErrorOnce'
  BY <1>0, <1>1, <1>2, <1>3, Numbers DEF ErrorOnce, Live
<1>29. LastAlone'
  BY <1>0, <1>1, <1>2, <1>3, Numbers DEF LastAlone, LastSent, Live
<1>30. CutHolds'
  BY <1>0, <1>1, <1>2, <1>3, Numbers DEF CutHolds, CutOff, Live, Unreaped
<1>31. Uncut'
  BY <1>0, <1>1, <1>2, <1>3, Numbers DEF Uncut, Failing, Somewhere, Live, Ready, Loaded, FlusherOn
<1>32. Paused'
  BY <1>0, <1>1, <1>2, <1>3, Numbers DEF Paused, Live, InFlight
<1>33. StreamIsWhole'
  BY <1>0, <1>1, <1>2, <1>3, WholeKept
<1> QED
  BY <1>20, <1>21, <1>22, <1>23, <1>24, <1>25, <1>26, <1>27, <1>28, <1>29, <1>30, <1>31, <1>32, <1>33
    DEF IInv

(* A flusher leaves with nothing to reap.                                  *)
LEMMA FlusherExitsKeeps ==
  ASSUME IInv, NEW g \in Gates, FlusherExits(g), ~gate[g].reap, current' = current,
         Turns(g, gate[g].state, gate[g].buf, gate[g].terminal, gate[g].error,
               gate[g].cached, "exited", gate[g].hand, gate[g].reap)
  PROVE  IInv'
<1>0. /\ TypeOK /\ Shaped /\ Numbered /\ Phases /\ Closing /\ Behind /\ Stale
      /\ Apart /\ ErrorOnce /\ LastAlone /\ CutHolds /\ Uncut /\ Paused /\ StreamIsWhole
  BY DEF IInv
<1>1. /\ UNCHANGED <<made, gated, prodVars, ctlVars, ctxDone, closed, completed, delivered, histVars>>
      /\ DeliveredSet' = DeliveredSet /\ gate[g].flusher = "exit" /\ g <= made /\ gated
  <2>1. gate[g].flusher = "exit"
    BY DEF FlusherExits
  <2>2. g <= made /\ gated
    BY <1>0, <2>1, WasMade DEF Shaped, Untouched
  <2> QED
    BY <2>1, <2>2 DEF FlusherExits, DeliveredSet
<1>2. /\ Shape(g) /\ g # 0 /\ (current # 0 => current \in Gates)
      /\ gate[g].state = "ended" /\ gate[g].buf = <<>> /\ ~gate[g].error /\ gate[g].hand = None
      /\ FlusherOn(g)
  <2>1. Shape(g) /\ FlusherOn(g)
    BY <1>0, <1>1 DEF Shaped, FlusherOn
  <2>2. g # 0 /\ (current # 0 => current \in Gates)
    BY <1>0, Data, Numbers
  <2> QED
    BY <1>1, <2>1, <2>2 DEF Shape
<1>0a. /\ prod \in {"gate", "end", "wait", "drain"} => via \in Gates
  BY <1>0, Data, Numbers DEF Phases
<1>3. /\ gate' \in [Gates -> GateRec]
      /\ \A k \in Gates : /\ gate'[k].state = gate[k].state /\ gate'[k].buf = gate[k].buf
                          /\ gate'[k].hand = gate[k].hand /\ Loaded(k)' = Loaded(k)
                          /\ (gate'[k].terminal <=> gate[k].terminal)
                          /\ (gate'[k].error <=> gate[k].error)
                          /\ (gate'[k].cached <=> gate[k].cached)
                          /\ (k # g => gate'[k].flusher = gate[k].flusher)
                          /\ (FlusherOn(k)' <=> FlusherOn(k) /\ k # g)
                          /\ (gate'[k].flusher = "send" <=> gate[k].flusher = "send")
      /\ gate'[g].flusher = "exited"
  BY <1>1, <1>2 DEF Turns, Loaded, FlusherOn
<1>4. \A k \in Gates : Shape(k)'
  BY <1>0, <1>1, <1>2, <1>3 DEF Shaped, Shape, FlusherOn
<1>5. Live /\ Token(g) => g = current
  BY <1>0 DEF Stale
<1>6. gate[g].reap => Token(g) /\ ~Unreaped /\ ~Unreaped'
  BY <1>0, <1>1 DEF Token, Numbered, Unreaped

<1>7. current' = current
  OBVIOUS
<1>8. \A k \in Gates : (Token(k)' <=> Token(k)) /\ (gate'[k].reap <=> gate[k].reap)
  BY <1>1, <1>3 DEF Token, Turns
<1>20. TypeOK'
  BY <1>0, <1>1, <1>3, <1>7, Numbers DEF TypeOK, GateRec
<1>21. Shaped'
  BY <1>1, <1>4 DEF Shaped
<1>22. Numbered'
  <2>1. (Reaping' <=> Reaping) /\ (Unreaped' <=> Unreaped)
    BY <1>1, <1>8 DEF Reaping, Unreaped
  <2>2. \A k \in Gates : k > made => k # g
    BY <1>0, <1>1, Data, Numbers
  <2>3. \A k \in Gates : k > made' => gate'[k] = NewGate
    BY <1>0, <1>1, <2>2 DEF Numbered, Turns
  <2> QED
    BY <1>0, <1>1, <1>7, <1>8, <2>1, <2>3 DEF Numbered
<1>23. Phases'
  BY <1>0, <1>1, Numbers DEF Phases
<1>24. Closing'
  BY <1>0, <1>0a, <1>1, <1>2, <1>3, <1>7 DEF Closing
<1>25. Behind'
  BY <1>0, <1>1, <1>3 DEF Behind
<1>26. Stale'
  BY <1>0, <1>0a, <1>1, <1>3, <1>7, <1>8 DEF Stale, Live
<1>27. Apart'
  BY <1>0, <1>1, <1>3 DEF Apart, Live, Ready
<1>28. ErrorOnce'
  <2>1. gate[1].flusher \in {"exit", "exited"} => gate'[1].flusher \in {"exit", "exited"}
    BY <1>3, Numbers
  <2> QED
    BY <1>0, <1>1, <2>1 DEF ErrorOnce, Live
<1>29. LastAlone'
  BY <1>0, <1>1, <1>3 DEF LastAlone, LastSent, Live
<1>30. CutHolds'
  BY <1>0, <1>1, <1>3, FirstGate DEF CutHolds, CutOff, Live, Unreaped
<1>31. Uncut'
  <2>1. SUFFICES ASSUME Live, cut = None PROVE Uncut'
    BY <1>1 DEF Uncut, Live
  <2>2. (Failing' <=> Failing) /\ \A c \in 1..chunk : Somewhere(c) => Somewhere(c)'
    BY <1>1, <1>3 DEF Failing, Somewhere, Ready
  <2>3. ASSUME NEW k \in Gates
        PROVE  /\ FlusherOn(k)' => k = current'
               /\ gate'[k].error => FlusherOn(k)'
               /\ gate'[k].terminal => prod' \in {"closing", "end", "wait", "drain"}
    BY <1>0, <1>1, <1>2, <1>3, <1>5, <1>6, <1>7, <2>1 DEF Uncut
  <2> QED
    BY <1>0, <1>1, <1>3, <2>1, <2>2, <2>3 DEF Uncut
<1>32. Paused'
  <2>1. InFlight' = InFlight
    BY <1>1, <1>3 DEF InFlight
  <2>2. current' # 0 => current' = current /\ gate'[current].state = gate[current].state
    BY <1>2, <1>3, <1>7
  <2> QED
    BY <1>0, <1>1, <2>1, <2>2 DEF Paused, Live
<1>33. StreamIsWhole'
  BY <1>0, <1>1, WholeKept
<1> QED
  BY <1>20, <1>21, <1>22, <1>23, <1>24, <1>25, <1>26, <1>27, <1>28, <1>29, <1>30, <1>31, <1>32, <1>33
    DEF IInv

(* A flusher leaves and reaps the entry, which is its own for a client     *)
(* that is there.                                                          *)
LEMMA FlusherReapsKeeps ==
  ASSUME IInv, NEW g \in Gates, FlusherExits(g), gate[g].reap, current' = 0,
         Turns(g, gate[g].state, gate[g].buf, gate[g].terminal, gate[g].error,
               gate[g].cached, "exited", gate[g].hand, gate[g].reap)
  PROVE  IInv'
<1>0. /\ TypeOK /\ Shaped /\ Numbered /\ Phases /\ Closing /\ Behind /\ Stale
      /\ Apart /\ ErrorOnce /\ LastAlone /\ CutHolds /\ Uncut /\ Paused /\ StreamIsWhole
  BY DEF IInv
<1>1. /\ UNCHANGED <<made, gated, prodVars, ctlVars, ctxDone, closed, completed, delivered, histVars>>
      /\ DeliveredSet' = DeliveredSet /\ gate[g].flusher = "exit" /\ g <= made /\ gated
  <2>1. gate[g].flusher = "exit"
    BY DEF FlusherExits
  <2>2. g <= made /\ gated
    BY <1>0, <2>1, WasMade DEF Shaped, Untouched
  <2> QED
    BY <2>1, <2>2 DEF FlusherExits, DeliveredSet
<1>2. /\ Shape(g) /\ g # 0 /\ (current # 0 => current \in Gates)
      /\ gate[g].state = "ended" /\ gate[g].buf = <<>> /\ ~gate[g].error /\ gate[g].hand = None
      /\ FlusherOn(g)
  <2>1. Shape(g) /\ FlusherOn(g)
    BY <1>0, <1>1 DEF Shaped, FlusherOn
  <2>2. g # 0 /\ (current # 0 => current \in Gates)
    BY <1>0, Data, Numbers
  <2> QED
    BY <1>1, <2>1, <2>2 DEF Shape
<1>0a. /\ prod \in {"gate", "end", "wait", "drain"} => via \in Gates
  BY <1>0, Data, Numbers DEF Phases
<1>3. /\ gate' \in [Gates -> GateRec]
      /\ \A k \in Gates : /\ gate'[k].state = gate[k].state /\ gate'[k].buf = gate[k].buf
                          /\ gate'[k].hand = gate[k].hand /\ Loaded(k)' = Loaded(k)
                          /\ (gate'[k].terminal <=> gate[k].terminal)
                          /\ (gate'[k].error <=> gate[k].error)
                          /\ (gate'[k].cached <=> gate[k].cached)
                          /\ (k # g => gate'[k].flusher = gate[k].flusher)
                          /\ (FlusherOn(k)' <=> FlusherOn(k) /\ k # g)
                          /\ (gate'[k].flusher = "send" <=> gate[k].flusher = "send")
      /\ gate'[g].flusher = "exited"
  BY <1>1, <1>2 DEF Turns, Loaded, FlusherOn
<1>4. \A k \in Gates : Shape(k)'
  BY <1>0, <1>1, <1>2, <1>3 DEF Shaped, Shape, FlusherOn
<1>5. Live /\ Token(g) => g = current
  BY <1>0 DEF Stale
<1>6. gate[g].reap => Token(g) /\ ~Unreaped /\ ~Unreaped'
  BY <1>0, <1>1 DEF Token, Numbered, Unreaped

<1>7. current' = 0
  OBVIOUS
<1>8. \A k \in Gates : ~Token(k)'
  <2>1. \A k \in Gates : k # g => ~Token(k)
    BY <1>0, <1>6 DEF Numbered
  <2> QED
    BY <1>3, <2>1 DEF Token, Turns
<1>20. TypeOK'
  BY <1>0, <1>1, <1>3, <1>7, Numbers DEF TypeOK, GateRec
<1>21. Shaped'
  BY <1>1, <1>4 DEF Shaped
<1>22. Numbered'
  <2> DEFINE complete == IF completed THEN 1 ELSE 0
  <2>1. /\ complete \in Nat /\ complete' = complete /\ made \in Nat /\ Reaping
        /\ made <= (IF current = 0 THEN 0 ELSE 1) + complete
    BY <1>0, <1>1, <1>6, Data DEF Numbered, Reaping
  <2>2. ~Reaping'
    BY <1>6, <1>8 DEF Reaping
  <2>3. made' <= (IF current' = 0 THEN 0 ELSE 1) + (IF Reaping' THEN 0 ELSE 1) + complete'
    <3> HIDE DEF complete
    <3> QED
      BY <1>1, <1>7, <2>1, <2>2
  <2>4. \A k \in Gates : k > made => k # g
    BY <1>0, <1>1, Data, Numbers
  <2>5. \A k \in Gates : k > made' => gate'[k] = NewGate
    BY <1>0, <1>1, <2>4 DEF Numbered, Turns
  <2>6. 1 <= made' /\ current' <= made' /\ via' <= made' /\ at' <= made'
    BY <1>0, <1>1, <1>7, Data DEF Numbered
  <2> QED
    BY <1>6, <1>8, <2>3, <2>5, <2>6 DEF Numbered
<1>23. Phases'
  BY <1>0, <1>1, Numbers DEF Phases
<1>24. Closing'
  BY <1>0, <1>0a, <1>1, <1>2, <1>3, <1>7 DEF Closing
<1>25. Behind'
  BY <1>0, <1>1, <1>3 DEF Behind
<1>26. Stale'
  BY <1>0, <1>0a, <1>1, <1>2, <1>3, <1>5, <1>6, <1>7, <1>8 DEF Stale, Live
<1>27. Apart'
  BY <1>0, <1>1, <1>3 DEF Apart, Live, Ready
<1>28. ErrorOnce'
  <2>1. gate[1].flusher \in {"exit", "exited"} => gate'[1].flusher \in {"exit", "exited"}
    BY <1>3, Numbers
  <2> QED
    BY <1>0, <1>1, <2>1 DEF ErrorOnce, Live
<1>29. LastAlone'
  BY <1>0, <1>1, <1>3 DEF LastAlone, LastSent, Live
<1>30. CutHolds'
  BY <1>0, <1>1, <1>3, <1>6 DEF CutHolds, CutOff, Live
<1>31. Uncut'
  <2>1. SUFFICES ASSUME Live, cut = None PROVE Uncut'
    BY <1>1 DEF Uncut, Live
  <2>2. (Failing' <=> Failing) /\ \A c \in 1..chunk : Somewhere(c) => Somewhere(c)'
    BY <1>1, <1>3 DEF Failing, Somewhere, Ready
  <2>3. ASSUME NEW k \in Gates
        PROVE  /\ FlusherOn(k)' => k = current'
               /\ gate'[k].error => FlusherOn(k)'
               /\ gate'[k].terminal => prod' \in {"closing", "end", "wait", "drain"}
    BY <1>0, <1>1, <1>2, <1>3, <1>5, <1>6, <1>7, <2>1 DEF Uncut
  <2> QED
    BY <1>0, <1>1, <1>3, <2>1, <2>2, <2>3 DEF Uncut
<1>32. Paused'
  <2>1. InFlight' = InFlight
    BY <1>1, <1>3 DEF InFlight
  <2>2. current' # 0 => current' = current /\ gate'[current].state = gate[current].state
    BY <1>2, <1>3, <1>7
  <2> QED
    BY <1>0, <1>1, <2>1, <2>2 DEF Paused, Live
<1>33. StreamIsWhole'
  BY <1>0, <1>1, WholeKept
<1> QED
  BY <1>20, <1>21, <1>22, <1>23, <1>24, <1>25, <1>26, <1>27, <1>28, <1>29, <1>30, <1>31, <1>32, <1>33
    DEF IInv

(* A flusher leaves, and passes its reaping on to another accumulator.     *)
LEMMA FlusherPassesOnKeeps ==
  ASSUME IInv, NEW g \in Gates, FlusherExits(g), gate[g].reap, current' = current, current \in Gates \ {g},
         FlusherOn(current) \/ gate[current].state = "paused",
         gate' \in [Gates -> GateRec],
         \A k \in Gates : k \notin {g, current} => gate'[k] = gate[k],
         gate'[g] = [gate[g] EXCEPT !.flusher = "exited"],
         gate'[current] = [gate[current] EXCEPT !.reap = TRUE]
  PROVE  IInv'
<1>0. /\ TypeOK /\ Shaped /\ Numbered /\ Phases /\ Closing /\ Behind /\ Stale
      /\ Apart /\ ErrorOnce /\ LastAlone /\ CutHolds /\ Uncut /\ Paused /\ StreamIsWhole
  BY DEF IInv
<1>1. /\ UNCHANGED <<made, gated, prodVars, ctlVars, ctxDone, closed, completed, delivered, histVars>>
      /\ DeliveredSet' = DeliveredSet /\ gate[g].flusher = "exit" /\ g <= made /\ gated
  <2>1. gate[g].flusher = "exit"
    BY DEF FlusherExits
  <2>2. g <= made /\ gated
    BY <1>0, <2>1, WasMade DEF Shaped, Untouched
  <2> QED
    BY <2>1, <2>2 DEF FlusherExits, DeliveredSet
<1>2. /\ Shape(g) /\ g # 0 /\ (current # 0 => current \in Gates)
      /\ gate[g].state = "ended" /\ gate[g].buf = <<>> /\ ~gate[g].error /\ gate[g].hand = None
      /\ FlusherOn(g)
  <2>1. Shape(g) /\ FlusherOn(g)
    BY <1>0, <1>1 DEF Shaped, FlusherOn
  <2>2. g # 0 /\ (current # 0 => current \in Gates)
    BY <1>0, Data, Numbers
  <2> QED
    BY <1>1, <2>1, <2>2 DEF Shape
<1>0a. /\ prod \in {"gate", "end", "wait", "drain"} => via \in Gates
  BY <1>0, Data, Numbers DEF Phases
<1>3. /\ gate' \in [Gates -> GateRec]
      /\ \A k \in Gates : /\ gate'[k].state = gate[k].state /\ gate'[k].buf = gate[k].buf
                          /\ gate'[k].hand = gate[k].hand /\ Loaded(k)' = Loaded(k)
                          /\ (gate'[k].terminal <=> gate[k].terminal)
                          /\ (gate'[k].error <=> gate[k].error)
                          /\ (gate'[k].cached <=> gate[k].cached)
                          /\ (k # g => gate'[k].flusher = gate[k].flusher)
                          /\ (FlusherOn(k)' <=> FlusherOn(k) /\ k # g)
                          /\ (gate'[k].flusher = "send" <=> gate[k].flusher = "send")
      /\ gate'[g].flusher = "exited"
  <2> DEFINE Same(k) == /\ gate'[k].state = gate[k].state /\ gate'[k].buf = gate[k].buf
                        /\ gate'[k].hand = gate[k].hand /\ Loaded(k)' = Loaded(k)
                        /\ (gate'[k].terminal <=> gate[k].terminal)
                        /\ (gate'[k].error <=> gate[k].error)
                        /\ (gate'[k].cached <=> gate[k].cached)
                        /\ (k # g => gate'[k].flusher = gate[k].flusher)
                        /\ (FlusherOn(k)' <=> FlusherOn(k) /\ k # g)
                        /\ (gate'[k].flusher = "send" <=> gate[k].flusher = "send")
  <2>1. \A k \in Gates : gate[k] \in GateRec
    BY <1>0, Data
  <2>2. gate'[g].flusher = "exited"
    BY <2>1 DEF GateRec
  <2>3. ASSUME NEW k \in Gates PROVE Same(k)
    <3>1. CASE k = g
      BY <1>1, <2>1, <3>1 DEF GateRec, Loaded, FlusherOn
    <3>2. CASE k = current
      BY <1>1, <2>1, <3>2 DEF GateRec, Loaded, FlusherOn
    <3>3. CASE k \notin {g, current}
      BY <3>3 DEF Loaded, FlusherOn
    <3> QED
      BY <3>1, <3>2, <3>3
  <2> HIDE DEF Same
  <2>4. \A k \in Gates : Same(k)
    BY <2>3
  <2> QED
    BY <2>2, <2>4 DEF Same
<1>4. \A k \in Gates : Shape(k)'
  BY <1>0, <1>1, <1>2, <1>3 DEF Shaped, Shape, FlusherOn
<1>5. Live /\ Token(g) => g = current
  BY <1>0 DEF Stale
<1>6. gate[g].reap => Token(g) /\ ~Unreaped /\ ~Unreaped'
  BY <1>0, <1>1 DEF Token, Numbered, Unreaped

<1>7. current' = current
  OBVIOUS
<1>8. /\ ~Live /\ ~Live' /\ gate[current].flusher # "exited"
      /\ \A k \in Gates : Token(k)' <=> k = current
  <2>1. ~Live /\ ~Live'
    BY <1>1, <1>5, <1>6 DEF Live
  <2>2. gate[current].flusher # "exited"
    BY <1>0, <1>2 DEF FlusherOn, Shaped, Shape
  <2>3. gate'[current].reap /\ gate'[current].flusher = gate[current].flusher
    BY <1>0, Data DEF GateRec
  <2>4. \A k \in Gates : k \notin {g, current} => ~Token(k)'
    BY <1>0, <1>6 DEF Numbered, Token
  <2>5. ASSUME NEW k \in Gates PROVE Token(k)' <=> k = current
    BY <1>3, <2>2, <2>3, <2>4 DEF Token
  <2> QED
    BY <2>1, <2>2, <2>5
<1>20. TypeOK'
  BY <1>0, <1>1, <1>3, <1>7, Numbers DEF TypeOK, GateRec
<1>21. Shaped'
  BY <1>1, <1>4 DEF Shaped
<1>22. Numbered'
  <2>1. Reaping /\ Reaping'
    BY <1>6, <1>8 DEF Reaping
  <2>2. \A k \in Gates : k > made => k # g /\ k # current
    BY <1>0, <1>1, Data, Numbers DEF Numbered
  <2>3. \A k \in Gates : k > made' => gate'[k] = NewGate
    BY <1>0, <1>1, <2>2 DEF Numbered
  <2> QED
    BY <1>0, <1>1, <1>6, <1>7, <1>8, <2>1, <2>3 DEF Numbered
<1>23. Phases'
  BY <1>0, <1>1, Numbers DEF Phases
<1>24. Closing'
  BY <1>0, <1>0a, <1>1, <1>2, <1>3, <1>7 DEF Closing
<1>25. Behind'
  BY <1>0, <1>1, <1>3 DEF Behind
<1>26. Stale'
  BY <1>8 DEF Stale
<1>27. Apart'
  BY <1>8 DEF Apart
<1>28. ErrorOnce'
  BY <1>8 DEF ErrorOnce
<1>29. LastAlone'
  BY <1>8 DEF LastAlone
<1>30. CutHolds'
  BY <1>8 DEF CutHolds
<1>31. Uncut'
  BY <1>8 DEF Uncut
<1>32. Paused'
  BY <1>8 DEF Paused
<1>33. StreamIsWhole'
  BY <1>0, <1>1, WholeKept
<1> QED
  BY <1>20, <1>21, <1>22, <1>23, <1>24, <1>25, <1>26, <1>27, <1>28, <1>29, <1>30, <1>31, <1>32, <1>33
    DEF IInv

(* The transport completes a stream that is closed or abandoned.           *)
LEMMA CompleteKeeps ==
  ASSUME IInv, Complete
  PROVE  IInv'
<1>0. /\ TypeOK /\ Shaped /\ Numbered /\ Phases /\ Closing /\ Behind /\ Stale
      /\ Apart /\ ErrorOnce /\ LastAlone /\ CutHolds /\ Uncut /\ Paused /\ StreamIsWhole
  BY DEF IInv
<1>1. /\ ~completed /\ completed' = TRUE /\ current' = 0 /\ ~Live /\ ~Live'
      /\ UNCHANGED <<made, gated, prodVars, ctlVars, ctxDone, closed, delivered, histVars>>
      /\ DeliveredSet' = DeliveredSet /\ (closed \/ ctxDone)
  BY DEF Complete, Live, DeliveredSet
<1>2. /\ gate' \in [Gates -> GateRec]
      /\ \A k \in Gates : /\ k # current => gate'[k] = gate[k]
                          /\ gate'[k].buf \in {gate[k].buf, <<>>}
                          /\ gate'[k].state \in {gate[k].state, "ended"}
                          /\ gate'[k].error => gate[k].error
                          /\ gate'[k].terminal => gate[k].terminal
                          /\ (gate'[k].cached <=> gate[k].cached)
                          /\ (gate'[k].reap <=> gate[k].reap)
                          /\ gate'[k].flusher = gate[k].flusher /\ gate'[k].hand = gate[k].hand
  <2>1. current \in Gates \cup {0}
    BY <1>0, Data, Numbers
  <2> QED
    BY <1>0, <2>1, Data, CompleteTurns DEF Turns
<1>3. \A k \in Gates : (FlusherOn(k)' <=> FlusherOn(k)) /\ (Token(k)' <=> Token(k)) /\ Shape(k)'
  BY <1>0, <1>2 DEF FlusherOn, Token, Shaped, Shape
<1>0a. prod \in {"gate", "end", "wait", "drain"} => via \in Gates
  BY <1>0, Data, Numbers DEF Phases
<1>20. TypeOK'
  BY <1>0, <1>1, <1>2, Numbers DEF TypeOK, GateRec
<1>21. Shaped'
  BY <1>0, <1>1, <1>2, <1>3 DEF Shaped, Untouched
<1>22. Numbered'
  <2> DEFINE reaping == IF Reaping THEN 0 ELSE 1
             held == IF current = 0 THEN 0 ELSE 1
  <2>1. /\ reaping \in Nat /\ reaping' = reaping /\ held \in 0..1 /\ made \in Nat
        /\ made <= held + reaping
    BY <1>0, <1>1, <1>2, <1>3, Data DEF Numbered, Reaping, Unreaped
  <2>2. made' <= (IF current' = 0 THEN 0 ELSE 1) + reaping' + (IF completed' THEN 1 ELSE 0)
    <3> HIDE DEF reaping, held
    <3> QED
      BY <1>1, <2>1
  <2>3. \A k \in Gates : k > made' => gate'[k] = NewGate
    <3>1. \A k \in Gates : k > made => k # current
      BY <1>0, Data, Numbers DEF Numbered
    <3> QED
      BY <1>0, <1>1, <1>2, <3>1 DEF Numbered
  <2>4. 1 <= made' /\ current' <= made' /\ via' <= made' /\ at' <= made'
    BY <1>0, <1>1, Data DEF Numbered
  <2>5. /\ Unreaped' => \A k \in Gates : ~gate'[k].reap
        /\ \A j, k \in Gates : Token(j)' /\ Token(k)' => j = k
    BY <1>0, <1>1, <1>2, <1>3 DEF Numbered, Unreaped
  <2> QED
    BY <2>2, <2>3, <2>4, <2>5 DEF Numbered
<1>23. Phases'
  BY <1>0, <1>1, Numbers DEF Phases
<1>24. Closing'
  BY <1>0, <1>0a, <1>1, <1>2, <1>3 DEF Closing
<1>25. Behind'
  <2>1. ASSUME NEW k \in Gates
        PROVE  \A i \in 1..Len(gate'[k].buf) : gate'[k].buf[i] <= chunk
    <3>1. CASE gate'[k].buf = gate[k].buf
      BY <1>0, <3>1 DEF Behind
    <3>2. CASE gate'[k].buf = <<>>
      BY <3>2
    <3> QED
      BY <1>2, <3>1, <3>2
  <2> QED
    BY <1>0, <1>1, <1>2, <2>1 DEF Behind
<1>26. Stale'
  BY <1>1 DEF Stale
<1>27. Apart'
  BY <1>1 DEF Apart
<1>28. ErrorOnce'
  BY <1>1 DEF ErrorOnce
<1>29. LastAlone'
  BY <1>1 DEF LastAlone
<1>30. CutHolds'
  BY <1>1 DEF CutHolds
<1>31. Uncut'
  BY <1>1 DEF Uncut
<1>32. Paused'
  BY <1>1 DEF Paused
<1>33. StreamIsWhole'
  BY <1>0, <1>1, WholeKept
<1> QED
  BY <1>20, <1>21, <1>22, <1>23, <1>24, <1>25, <1>26, <1>27, <1>28, <1>29, <1>30, <1>31, <1>32, <1>33
    DEF IInv

(* Nothing happens.                                                        *)
LEMMA StutterKeeps ==
  ASSUME IInv, UNCHANGED vars
  PROVE  IInv'
<1>0. /\ TypeOK /\ Shaped /\ Numbered /\ Phases /\ Closing /\ Behind /\ Stale
      /\ Apart /\ ErrorOnce /\ LastAlone /\ CutHolds /\ Uncut /\ Paused /\ StreamIsWhole
  BY DEF IInv
<1>1. UNCHANGED <<gate, current, made, gated, prodVars, ctlVars, ctxDone, closed, completed,
                  delivered, histVars>> /\ DeliveredSet' = DeliveredSet
  BY DEF vars, DeliveredSet
<1>20. TypeOK'
  BY <1>0, <1>1, Numbers DEF TypeOK, GateRec
<1>21. Shaped'
  BY <1>0, <1>1, Numbers DEF Shaped, Shape, Untouched, FlusherOn
<1>22. Numbered'
  BY <1>0, <1>1, Numbers DEF Numbered, Token, Unreaped, Reaping
<1>23. Phases'
  BY <1>0, <1>1, Numbers DEF Phases
<1>24. Closing'
  BY <1>0, <1>1, Numbers DEF Closing, FlusherOn
<1>25. Behind'
  BY <1>0, <1>1, Numbers DEF Behind
<1>26. Stale'
  BY <1>0, <1>1, Numbers DEF Stale, Live, FlusherOn, Token
<1>27. Apart'
  BY <1>0, <1>1, Numbers DEF Apart, Live, Ready, Loaded
<1>28. ErrorOnce'
  BY <1>0, <1>1, Numbers DEF ErrorOnce, Live
<1>29. LastAlone'
  BY <1>0, <1>1, Numbers DEF LastAlone, LastSent, Live
<1>30. CutHolds'
  BY <1>0, <1>1, Numbers DEF CutHolds, CutOff, Live, Unreaped
<1>31. Uncut'
  BY <1>0, <1>1, Numbers DEF Uncut, Failing, Somewhere, Live, Ready, Loaded, FlusherOn
<1>32. Paused'
  BY <1>0, <1>1, Numbers DEF Paused, Live, InFlight
<1>33. StreamIsWhole'
  BY <1>0, <1>1, WholeKept
<1> QED
  BY <1>20, <1>21, <1>22, <1>23, <1>24, <1>25, <1>26, <1>27, <1>28, <1>29, <1>30, <1>31, <1>32, <1>33
    DEF IInv

-----------------------------------------------------------------------------
(* GateSend, by what it does with the chunk.                               *)
LEMMA GateSendKeeps ==
  ASSUME IInv, GateSend
  PROVE  IInv'
<1>1. SendFrame
  BY DEF GateSend, SendFrame
<1>2. /\ gate \in [Gates -> GateRec] /\ via \in Gates /\ chunk \in Chunks /\ final \in BOOLEAN
  BY <1>1, SendFacts, Data DEF IInv, TypeOK
<1> DEFINE v == gate[via]
           Holds(s, t, f) == Turns(via, s, Append(v.buf, chunk), t, v.error, TRUE, f,
                                   v.hand, v.reap)
           Keeps(s, e, f) == Turns(via, s, v.buf, v.terminal, e, TRUE, f, v.hand, v.reap)
<1>3. \/ v.state = "ended" /\ AfterChunk /\ Keeps("ended", v.error, v.flusher)
      \/ v.state = "paused" /\ AfterChunk /\ Keeps("ended", TRUE, On(v.flusher))
      \/ v.state = "paused" /\ AfterChunk /\ Holds("paused", v.terminal \/ final, On(v.flusher))
      \/ /\ v.state = "active" /\ final /\ AfterChunk
         /\ v.flusher \notin {"none", "exited"} \/ v.buf # <<>>
         /\ Holds("ended", v.terminal, v.flusher)
      \/ /\ v.state = "active" /\ final /\ prod' = "direct"
         /\ v.flusher \in {"none", "exited"} /\ v.buf = <<>>
         /\ Keeps("ended", v.error, v.flusher)
      \/ /\ v.state = "active" /\ ~final /\ AfterChunk /\ v.buf # <<>>
         /\ Holds("active", v.terminal, v.flusher)
      \/ /\ v.state = "active" /\ ~final /\ prod' = "direct" /\ v.buf = <<>>
         /\ Keeps("active", v.error, v.flusher)
  BY <1>2, GateSendTurns
<1>4. CASE v.state = "ended" /\ AfterChunk /\ Keeps("ended", v.error, v.flusher)
  BY <1>1, <1>4, GateDropsKeeps
<1>5. CASE v.state = "paused" /\ AfterChunk /\ Keeps("ended", TRUE, On(v.flusher))
  BY <1>1, <1>5, GateOverflowsKeeps
<1>6. CASE v.state = "paused" /\ AfterChunk /\ Holds("paused", v.terminal \/ final, On(v.flusher))
  BY <1>1, <1>6, GateHoldsKeeps
<1>7. CASE /\ v.state = "active" /\ final /\ AfterChunk
           /\ v.flusher \notin {"none", "exited"} \/ v.buf # <<>>
           /\ Holds("ended", v.terminal, v.flusher)
  BY <1>1, <1>7, GateBuffersLastKeeps
<1>8. CASE /\ v.state = "active" /\ final /\ prod' = "direct"
           /\ v.flusher \in {"none", "exited"} /\ v.buf = <<>>
           /\ Keeps("ended", v.error, v.flusher)
  BY <1>1, <1>8, GatePassesLastKeeps
<1>9. CASE /\ v.state = "active" /\ ~final /\ AfterChunk /\ v.buf # <<>>
           /\ Holds("active", v.terminal, v.flusher)
  BY <1>1, <1>9, GateBuffersKeeps
<1>10. CASE /\ v.state = "active" /\ ~final /\ prod' = "direct" /\ v.buf = <<>>
            /\ Keeps("active", v.error, v.flusher)
  BY <1>1, <1>10, GatePassesKeeps
<1> QED
  BY <1>3, <1>4, <1>5, <1>6, <1>7, <1>8, <1>9, <1>10

(* A flusher's step.                                                       *)
LEMMA FlusherKeeps ==
  ASSUME IInv, NEW g \in Gates, Flusher(g)
  PROVE  IInv'
<1>0. gate \in [Gates -> GateRec] /\ current \in Gates \cup {0}
  BY Data, Numbers DEF IInv
<1>1. CASE FlusherWakes(g)
  BY <1>1, FlusherWakesKeeps
<1>2. CASE FlusherTakes(g)
  BY <1>2, FlusherTakesKeeps
<1>3. CASE FlusherSends(g)
  <2>1. \/ /\ Send(gate[g].hand)
           /\ Turns(g, gate[g].state, gate[g].buf, gate[g].terminal, gate[g].error,
                    gate[g].cached, "check", None, gate[g].reap)
        \/ /\ Unsent
           /\ Turns(g, "ended", <<>>, gate[g].terminal, gate[g].error,
                    gate[g].cached, "check", None, gate[g].reap)
    BY <1>0, <1>3, FlusherTurns
  <2> QED
    BY <1>3, <2>1, FlusherSendsKeeps, FlusherGivesUpKeeps
<1>4. CASE FlusherDrained(g)
  BY <1>4, FlusherDrainedKeeps
<1>5. CASE FlusherSendsError(g)
  <2>1. Send(Error) \/ Unsent
    BY <1>5 DEF FlusherSendsError
  <2> QED
    BY <1>5, <2>1, FlusherSendsErrorKeeps, FlusherDropsErrorKeeps
<1>6. CASE FlusherExits(g)
  <2> DEFINE v == gate[g]
             Exits == Turns(g, v.state, v.buf, v.terminal, v.error, v.cached, "exited",
                            v.hand, v.reap)
  <2>1. \/ ~v.reap /\ current' = current /\ Exits
        \/ v.reap /\ current' = 0 /\ Exits
        \/ /\ v.reap /\ current' = current /\ current \in Gates \ {g}
           /\ FlusherOn(current) \/ gate[current].state = "paused"
           /\ gate' \in [Gates -> GateRec]
           /\ \A k \in Gates : k \notin {g, current} => gate'[k] = gate[k]
           /\ gate'[g] = [v EXCEPT !.flusher = "exited"]
           /\ gate'[current] = [gate[current] EXCEPT !.reap = TRUE]
    BY <1>0, <1>6, ExitTurns
  <2>2. CASE ~v.reap /\ current' = current /\ Exits
    BY <1>6, <2>2, FlusherExitsKeeps
  <2>3. CASE v.reap /\ current' = 0 /\ Exits
    BY <1>6, <2>3, FlusherReapsKeeps
  <2>4. CASE /\ v.reap /\ current' = current /\ current \in Gates \ {g}
             /\ FlusherOn(current) \/ gate[current].state = "paused"
             /\ gate' \in [Gates -> GateRec]
             /\ \A k \in Gates : k \notin {g, current} => gate'[k] = gate[k]
             /\ gate'[g] = [v EXCEPT !.flusher = "exited"]
             /\ gate'[current] = [gate[current] EXCEPT !.reap = TRUE]
    BY <1>6, <2>4, FlusherPassesOnKeeps
  <2> QED
    BY <2>1, <2>2, <2>3, <2>4
<1> QED
  BY <1>1, <1>2, <1>3, <1>4, <1>5, <1>6 DEF Flusher

(* The initial state.                                                      *)
LEMMA InitHolds ==
  ASSUME Init
  PROVE  IInv
<1>0. /\ gate = [g \in Gates |-> NewGate] /\ current = 1 /\ made = 1 /\ gated = FALSE
      /\ prod = "next" /\ chunk = 0 /\ final = FALSE /\ via = 0 /\ ctl = "idle" /\ at = 0
      /\ ctxDone = FALSE /\ closed = FALSE /\ completed = FALSE /\ delivered = <<>>
      /\ cut = None /\ spared = {} /\ op = "pause" /\ ops = 0
  BY DEF Init
<1>1. \A g \in Gates : gate[g] = NewGate
  BY <1>0
<1>2. NewGate \in GateRec
  <2>1. <<>> \in Seq(Chunks)
    OBVIOUS
  <2> QED
    BY <2>1 DEF NewGate, GateRec
<1>3. gate \in [Gates -> GateRec] /\ delivered \in Seq(Chunks \cup {Error}) /\ Len(delivered) = 0
  BY <1>0, <1>2
<1>4. TypeOK
  <2>1. /\ 0 \in 0..MaxGates /\ 1 \in 0..MaxGates /\ 0 \in 0..MaxOps /\ 0 \in 0..MaxChunks
    BY Numbers, GateAssumption
  <2>2. gate \in [Gates ->
          [state : {"active", "paused", "ended"}, buf : Seq(Chunks),
           terminal : BOOLEAN, error : BOOLEAN, cached : BOOLEAN,
           flusher : {"none", "wait", "check", "send", "error", "exit", "exited"},
           hand : Chunks \cup {None}, reap : BOOLEAN]]
    BY <1>3 DEF GateRec
  <2> QED
    BY <1>0, <1>3, <2>1, <2>2 DEF TypeOK
<1>5. /\ \A g \in Gates : ~FlusherOn(g) /\ Loaded(g) = {} /\ ~Token(g)
      /\ DeliveredSet = {} /\ Unreaped /\ Reaping
  BY <1>0, <1>1, <1>3, NewFields DEF FlusherOn, Loaded, Token, DeliveredSet, Unreaped, Reaping
<1>6. Shaped
  BY <1>0, <1>1, <1>5, NewFields DEF Shaped, Shape, Untouched
<1>7. Numbered
  BY <1>0, <1>1, <1>5, NewFields DEF Numbered
<1>8. Phases /\ Closing
  BY <1>0, Numbers DEF Phases, Closing
<1>9. Behind /\ Stale
  BY <1>0, <1>1, <1>3, <1>5, NewFields DEF Behind, Stale
<1>10. Apart
  BY <1>0, <1>1, <1>3, <1>5, NewFields DEF Apart, Ready
<1>11. ErrorOnce /\ LastAlone /\ CutHolds
  BY <1>0, <1>1, <1>3, <1>5 DEF ErrorOnce, LastAlone, CutHolds
<1>12. Uncut
  BY <1>0, <1>1, <1>5, NewFields DEF Uncut
<1>13. Paused
  BY <1>0, <1>1, NewFields, Numbers DEF Paused
<1>14. StreamIsWhole
  BY <1>0, <1>3 DEF StreamIsWhole, NothingDropped, OnceOnly, FinalIsLast, EndDropsLater
<1> QED
  BY <1>4, <1>6, <1>7, <1>8, <1>9, <1>10, <1>11, <1>12, <1>13, <1>14 DEF IInv

(* Every step.                                                             *)
LEMMA NextKeeps ==
  ASSUME IInv, [Next]_vars
  PROVE  IInv'
<1>1. CASE Provider
  <2>1. CASE NextChunk
    BY <2>1, NextChunkKeeps
  <2>2. CASE FinalHooks
    BY <2>2, FinalHooksKeeps
  <2>3. CASE Choose
    BY <2>3, ChooseGatedKeeps, ChooseDirectKeeps
  <2>4. CASE Direct
    <3>1. Send(chunk) \/ Unsent
      BY <2>4 DEF Direct
    <3> QED
      BY <2>4, <3>1, DirectSendsKeeps, DirectFailsKeeps
  <2>5. CASE GateSend
    BY <2>5, GateSendKeeps
  <2>6. CASE CloseUngated
    BY <2>6, CloseUngatedKeeps
  <2>7. CASE CloseFind
    BY <2>7, CloseFindKeeps
  <2>8. CASE CloseEnd
    BY <2>8, CloseEndKeeps
  <2>9. CASE CloseWait
    BY <2>9, CloseWaitKeeps
  <2>10. CASE CloseDrained
    BY <2>10, CloseDrainedKeeps
  <2> QED
    BY <1>1, <2>1, <2>2, <2>3, <2>4, <2>5, <2>6, <2>7, <2>8, <2>9, <2>10 DEF Provider
<1>2. CASE \E g \in Gates : Flusher(g)
  BY <1>2, FlusherKeeps
<1>3. CASE Engage
  BY <1>3, EngageKeeps
<1>4. CASE Plugin
  BY <1>4, LookUpKeeps, PauseKeeps, ResumeKeeps, EndByPluginKeeps DEF Plugin
<1>5. CASE Cancel
  BY <1>5, CancelKeeps
<1>6. CASE Complete
  BY <1>6, CompleteKeeps
<1>7. CASE UNCHANGED vars
  BY <1>7, StutterKeeps
<1> QED
  BY <1>1, <1>2, <1>3, <1>4, <1>5, <1>6, <1>7 DEF Next

(* The invariant.                                                          *)
LEMMA Inductive == Spec => []IInv
<1>1. IInv /\ [Next]_vars => IInv'
  BY NextKeeps
<1> QED
  BY InitHolds, <1>1, PTL DEF Spec

(* The variables keep their types; in particular                           *)
(* getOrCreateStreamAccumulator always has a gate to create, made or found.*)
THEOREM TypeCorrect == Spec => []TypeOK
<1>1. IInv => TypeOK
  BY DEF IInv
<1> QED
  BY Inductive, <1>1, PTL

(* One stream has three accumulators at most: the entry is deleted by the  *)
(* reaping of the last chunk's post-hooks and by the transport's           *)
(* completion, and by nothing else.                                        *)
THEOREM ThreeGates == Spec => [](made <= 3)
<1>1. IInv => made <= 3
  <2>1. SUFFICES ASSUME IInv PROVE made <= 3
    OBVIOUS
  <2>2. made \in Nat
    BY <2>1, Data DEF IInv
  <2>3. made <= (IF current = 0 THEN 0 ELSE 1) + (IF Reaping THEN 0 ELSE 1)
                + (IF completed THEN 1 ELSE 0)
    BY <2>1 DEF IInv, Numbered
  <2> QED
    BY <2>2, <2>3
<1> QED
  BY Inductive, <1>1, PTL

(* What the client receives, whatever the plugin calls while the provider, *)
(* the flusher and the reaping of the accumulator take turns: every chunk  *)
(* once, none after the last, none that EndStream cut off, and none        *)
(* dropped unless an overflow is reported (gate.go, GateSend and           *)
(* gateFlusherLoop; gate_send.go and CloseStream).                         *)
THEOREM StreamWhole == Spec => []StreamIsWhole
<1>1. IInv => StreamIsWhole
  BY DEF IInv
<1> QED
  BY Inductive, <1>1, PTL

(* A flusher that CloseStream waits for, or that the closed channel leaves *)
(* behind, is not asleep on gateCond: CloseStream has ended its gate.      *)
THEOREM FlushersAreReleased == Spec => []FlushersRelease
<1>1. IInv => FlushersRelease
  BY DEF IInv, Closing, Phases, FlushersRelease, FlusherOn
<1> QED
  BY Inductive, <1>1, PTL

(* What reaches a client while the gate is paused was already on its way:  *)
(* GateSend buffers, and the flusher looks at the state before each chunk. *)
THEOREM PausesHold == Spec => PauseHolds
<1> DEFINE Delivers == /\ delivered' # delivered /\ ~ctxDone /\ cut = None
                       /\ current # 0 /\ gate[current].state = "paused"
<1>1. ASSUME IInv, Next, Delivers PROVE delivered'[Len(delivered')] \in spared
  <2>1. ~closed /\ Live /\ TypeOK /\ current \in Gates /\ InFlight \subseteq spared
    <3>1. TypeOK /\ Paused /\ Phases /\ (current # 0 => current \in Gates)
      BY <1>1, Data, Numbers DEF IInv
    <3>2. CASE closed
      <4>1. prod = "done"
        BY <3>1, <3>2 DEF Phases
      <4> QED
        BY <1>1, <3>2, <4>1 DEF Next, Provider, NextChunk, FinalHooks, Choose, Direct, GateSend,
           CloseUngated, CloseFind, CloseEnd, CloseWait, CloseDrained, Flusher, FlusherWakes,
           FlusherTakes, FlusherSends, FlusherDrained, FlusherSendsError, FlusherExits, Send,
           Unsent, Engage, Plugin, LookUp, Pause, Resume, EndByPlugin, Applied, Cancel, Complete
    <3> QED
      BY <1>1, <3>1, <3>2 DEF Paused, Live
  <2>2. delivered \in Seq(Chunks \cup {Error})
    BY <2>1, Data
  <2>3. ASSUME NEW c \in Chunks \cup {Error}, Send(c) PROVE delivered'[Len(delivered')] = c
    BY <2>2, <2>3, SendGives
  <2>4. \/ prod = "direct" /\ Send(chunk)
        \/ \E g \in Gates : gate[g].flusher = "send" /\ Send(gate[g].hand)
        \/ \E g \in Gates : gate[g].flusher = "error" /\ Send(Error)
    BY <1>1, <2>1 DEF Live, Next, Provider, NextChunk, FinalHooks, Choose, Direct, GateSend,
       CloseUngated, CloseFind, CloseEnd, CloseWait, CloseDrained, Flusher, FlusherWakes,
       FlusherTakes, FlusherSends, FlusherDrained, FlusherSendsError, FlusherExits,
       Unsent, Engage, Plugin, LookUp, Pause, Resume, EndByPlugin, Applied, Cancel, Complete
  <2>5. CASE prod = "direct" /\ Send(chunk)
    <3>1. chunk \in InFlight /\ chunk \in Chunks
      BY <1>1, <2>1, <2>5, Data, Numbers DEF InFlight, IInv, Phases
    <3> QED
      BY <2>1, <2>3, <2>5, <3>1
  <2>6. CASE \E g \in Gates : gate[g].flusher = "send" /\ Send(gate[g].hand)
    <3>1. PICK g \in Gates : gate[g].flusher = "send" /\ Send(gate[g].hand)
      BY <2>6
    <3>2. gate[g].hand \in InFlight /\ gate[g].hand \in Chunks
      BY <1>1, <3>1 DEF InFlight, IInv, Shaped, Shape
    <3> QED
      BY <2>1, <2>3, <3>1, <3>2
  <2>7. CASE \E g \in Gates : gate[g].flusher = "error" /\ Send(Error)
    BY <1>1, <2>1, <2>7 DEF IInv, Uncut, FlusherOn, Shaped, Shape
  <2> QED
    BY <2>4, <2>5, <2>6, <2>7
<1>2. IInv /\ [Next]_vars => [Delivers => delivered'[Len(delivered')] \in spared]_vars
  BY <1>1
<1>3. Spec => [][Delivers => delivered'[Len(delivered')] \in spared]_vars
  BY Inductive, <1>2, PTL DEF Spec
<1> QED
  BY <1>3 DEF PauseHolds
=============================================================================
