--------------------------- MODULE LogWriterProofs ---------------------------
(***************************************************************************)
(* Theorems about LogWriter, for any logs, queue and batch size: its types,*)
(* that no log is lost in silence or blamed on the sweeper, and that no    *)
(* row is written behind Cleanup's back.                                   *)
(***************************************************************************)
EXTENDS LogWriter, SequenceTheorems, NaturalsInduction, WellFoundedInduction, TLAPS

\* A log whose hook has not ended has data in the map, or the sweeper took it.
Hooked(l) ==
  /\ l \in pending => pc[l] = "running"
  /\ pc[l] = "running" => l \in pending \union swept
  /\ pc[l] \in {"append", "held"} => l \in Traced
  /\ l \in finished => l \notin pending /\ pc[l] # "new"

\* The sweeper has made an error row of the log's data, or is about to.
Abandoned(l) ==
  \/ rows[l] = "stale" \/ Waiting(Entry(l, "stale"))
  \/ sweeper.step \in {"built", "checked"} /\ sweeper.log = l

\* Then the data was in the map, and its own post-hook can no longer find it.
Swept(l) == Abandoned(l) => l \notin pending \union finished /\ pc[l] # "new"

\* Producers have been told and the writer is gone before Cleanup takes the queue,
\* which is closed last.
Handover ==
  /\ writer = "select" => Len(batch) < MaxBatch
  /\ cleanup \notin {"no", "begun"} => closed
  /\ Drained => writer = "gone"
  /\ shut => cleanup \in {"waiting", "returned"}
  /\ left # << >> => cleanup = "draining"

IInv ==
  /\ TypeOK
  /\ \A l \in Logs : Hooked(l) /\ Swept(l)
  /\ Handover
  /\ NoSilentLoss

USE DEF hooks, channel, writing, closing, store
-----------------------------------------------------------------------------
\* A set of numbers that is not empty has a least element.
LEMMA LeastNatural ==
  ASSUME NEW T \in SUBSET Nat, T # {}
  PROVE  Min(T) \in T
<1> DEFINE R == OpToRel(<, Nat)
<1>1. IsWellFoundedOn(R, Nat)
  BY NatLessThanWellFounded
<1>2. \A z, y \in Nat : z < y => <<z, y>> \in R
  BY DEF OpToRel
<1> HIDE DEF R
<1>3. PICK y \in T : \A z \in T : ~ (<<z, y>> \in R)
  BY <1>1, WFMin
<1>4. ASSUME NEW z \in T PROVE y <= z
  <2>1. ~(z < y) BY <1>2, <1>3
  <2> QED BY <2>1
<1> QED BY <1>4 DEF Min

\* What is in a sequence after an entry is sent, taken or handed over.
LEMMA InSequence ==
  ASSUME NEW S, NEW s \in Seq(S)
  PROVE  /\ \A e : e \in ToSet(s) <=> \E i \in 1 .. Len(s) : s[i] = e
         /\ ToSet(s) \subseteq S
<1>1. DOMAIN s = 1 .. Len(s) /\ \A i \in 1 .. Len(s) : s[i] \in S OBVIOUS
<1>2. \A e : e \in ToSet(s) <=> \E i \in 1 .. Len(s) : s[i] = e BY <1>1 DEF ToSet
<1> QED BY <1>1, <1>2

\* A send adds the entry at the end.
LEMMA InAppend ==
  ASSUME NEW S, NEW s \in Seq(S), NEW x \in S
  PROVE  Append(s, x) \in Seq(S) /\ \A e : e \in ToSet(Append(s, x)) <=> e \in ToSet(s) \/ e = x
<1>1. Append(s, x) \in Seq(S) /\ Len(Append(s, x)) = Len(s) + 1 /\ Len(s) \in Nat OBVIOUS
<1>2. \A i \in 1 .. Len(s) : Append(s, x)[i] = s[i] OBVIOUS
<1>3. Append(s, x)[Len(s) + 1] = x OBVIOUS
<1>4. \A e : e \in ToSet(Append(s, x)) <=> \E i \in 1 .. Len(s) + 1 : Append(s, x)[i] = e
  BY <1>1, InSequence
<1>5. \A e : e \in ToSet(s) <=> \E i \in 1 .. Len(s) : s[i] = e BY InSequence
<1> HIDE DEF ToSet
<1>6. ASSUME NEW e PROVE e \in ToSet(Append(s, x)) <=> e \in ToSet(s) \/ e = x
  <2>1. ASSUME e \in ToSet(Append(s, x)) PROVE e \in ToSet(s) \/ e = x
    <3>1. PICK i \in 1 .. Len(s) + 1 : Append(s, x)[i] = e BY <1>4, <2>1
    <3>2. CASE i = Len(s) + 1 BY <1>3, <3>1, <3>2
    <3>3. CASE i # Len(s) + 1
      <4>1. i \in 1 .. Len(s) BY <1>1, <3>3
      <4> QED BY <1>2, <1>5, <3>1, <4>1
    <3> QED BY <3>2, <3>3
  <2>2. ASSUME e \in ToSet(s) PROVE e \in ToSet(Append(s, x))
    <3>1. PICK i \in 1 .. Len(s) : s[i] = e BY <1>5, <2>2
    <3>2. i \in 1 .. Len(s) + 1 BY <1>1
    <3> QED BY <1>2, <1>4, <3>1, <3>2
  <2>3. x \in ToSet(Append(s, x))
    <3>1. Len(s) + 1 \in 1 .. Len(s) + 1 BY <1>1
    <3> QED BY <1>3, <1>4, <3>1
  <2> QED BY <2>1, <2>2, <2>3
<1> QED BY <1>1, <1>6

\* What is handed over is what either had.
LEMMA InConcat ==
  ASSUME NEW S, NEW s \in Seq(S), NEW t \in Seq(S)
  PROVE  s \o t \in Seq(S) /\ \A e : e \in ToSet(s \o t) <=> e \in ToSet(s) \/ e \in ToSet(t)
<1>1. /\ s \o t \in Seq(S) /\ Len(s \o t) = Len(s) + Len(t) /\ Len(s) \in Nat /\ Len(t) \in Nat
      /\ \A i \in 1 .. Len(s) + Len(t) : (s \o t)[i] = IF i <= Len(s) THEN s[i] ELSE t[i - Len(s)]
  BY ConcatProperties
<1>2. ASSUME NEW e PROVE e \in ToSet(s \o t) <=> e \in ToSet(s) \/ e \in ToSet(t)
  <2>0. /\ e \in ToSet(s \o t) <=> \E i \in 1 .. Len(s) + Len(t) : (s \o t)[i] = e
        /\ e \in ToSet(s) <=> \E i \in 1 .. Len(s) : s[i] = e
        /\ e \in ToSet(t) <=> \E i \in 1 .. Len(t) : t[i] = e
    <3>1. /\ e \in ToSet(s) <=> \E i \in 1 .. Len(s) : s[i] = e
          /\ e \in ToSet(t) <=> \E i \in 1 .. Len(t) : t[i] = e
      BY InSequence
    <3>2. s \o t \in Seq(S)
      BY <1>1
    <3>3. e \in ToSet(s \o t) <=> \E i \in 1 .. Len(s \o t) : (s \o t)[i] = e
      BY <3>2, InSequence
    <3> QED BY <1>1, <3>1, <3>3
  <2>1. ASSUME NEW i \in 1 .. Len(s) + Len(t), (s \o t)[i] = e PROVE e \in ToSet(s) \/ e \in ToSet(t)
    <3>1. CASE i <= Len(s) BY <1>1, <2>0, <2>1, <3>1
    <3>2. CASE i > Len(s)
      <4>1. i - Len(s) \in 1 .. Len(t) BY <1>1, <3>2
      <4> QED BY <1>1, <2>0, <2>1, <3>2, <4>1
    <3> QED BY <1>1, <3>1, <3>2
  <2>2. ASSUME NEW i \in 1 .. Len(s), s[i] = e PROVE e \in ToSet(s \o t)
    <3>1. i \in 1 .. Len(s) + Len(t) /\ i <= Len(s) BY <1>1
    <3> QED BY <1>1, <2>0, <2>2, <3>1
  <2>3. ASSUME NEW i \in 1 .. Len(t), t[i] = e PROVE e \in ToSet(s \o t)
    <3>1. /\ Len(s) + i \in 1 .. Len(s) + Len(t) /\ ~(Len(s) + i <= Len(s)) /\ (Len(s) + i) - Len(s) = i
      BY <1>1
    <3>2. (s \o t)[Len(s) + i] = t[i] BY <1>1, <3>1
    <3> QED BY <2>0, <2>3, <3>1, <3>2
  <2> QED BY <2>0, <2>1, <2>2, <2>3
<1> QED BY <1>1, <1>2

\* What is cut in two is in one of the parts.
LEMMA InParts ==
  ASSUME NEW S, NEW s \in Seq(S), NEW n \in 1 .. Len(s)
  PROVE  /\ SubSeq(s, 1, n) \in Seq(S) /\ SubSeq(s, n + 1, Len(s)) \in Seq(S)
         /\ \A e : e \in ToSet(s) <=> e \in ToSet(SubSeq(s, 1, n)) \/ e \in ToSet(SubSeq(s, n + 1, Len(s)))
<1>1. Len(s) \in Nat /\ n \in Nat /\ 1 <= n /\ n <= Len(s) OBVIOUS
<1>2. \A i \in 1 .. Len(s) : s[i] \in S OBVIOUS
<1>3. SubSeq(s, 1, n) \in Seq(S) /\ SubSeq(s, n + 1, Len(s)) \in Seq(S)
  BY <1>1, <1>2, SubSeqProperties
<1>4. SubSeq(s, 1, n) \o SubSeq(s, n + 1, Len(s)) = s
  BY <1>1, ConcatAdjacentSubSeq, SubSeqFull
<1>5. \A e : e \in ToSet(SubSeq(s, 1, n) \o SubSeq(s, n + 1, Len(s)))
                 <=> e \in ToSet(SubSeq(s, 1, n)) \/ e \in ToSet(SubSeq(s, n + 1, Len(s)))
  BY <1>3, InConcat
<1> QED BY <1>3, <1>4, <1>5

\* What is taken is the head.
LEMMA InTail ==
  ASSUME NEW S, NEW s \in Seq(S), s # <<>>
  PROVE  /\ Head(s) \in S /\ Tail(s) \in Seq(S) /\ Len(Tail(s)) = Len(s) - 1
         /\ \A e : e \in ToSet(s) <=> e = Head(s) \/ e \in ToSet(Tail(s))
<1>1. /\ Head(s) \in S /\ Tail(s) \in Seq(S) /\ Len(Tail(s)) = Len(s) - 1
      /\ \A i \in 1 .. Len(Tail(s)) : Tail(s)[i] = s[i + 1]
      /\ Head(s) = s[1] /\ Len(s) \in Nat /\ Len(s) >= 1
  BY HeadTailProperties
<1>2. ASSUME NEW e PROVE e \in ToSet(s) <=> e = Head(s) \/ e \in ToSet(Tail(s))
  <2>0. /\ e \in ToSet(s) <=> \E i \in 1 .. Len(s) : s[i] = e
        /\ e \in ToSet(Tail(s)) <=> \E i \in 1 .. Len(Tail(s)) : Tail(s)[i] = e
    <3>1. e \in ToSet(s) <=> \E i \in 1 .. Len(s) : s[i] = e
      BY InSequence
    <3>2. Tail(s) \in Seq(S)
      BY <1>1
    <3>3. e \in ToSet(Tail(s)) <=> \E i \in 1 .. Len(Tail(s)) : Tail(s)[i] = e
      BY <3>2, InSequence
    <3> QED BY <3>1, <3>3
  <2>1. ASSUME NEW i \in 1 .. Len(s), s[i] = e PROVE e = Head(s) \/ e \in ToSet(Tail(s))
    <3>1. CASE i = 1 BY <1>1, <2>1, <3>1
    <3>2. CASE i # 1
      <4>1. i - 1 \in 1 .. Len(Tail(s)) /\ (i - 1) + 1 = i BY <1>1, <3>2
      <4>2. Tail(s)[i - 1] = e BY <1>1, <2>1, <4>1
      <4> QED BY <2>0, <4>1, <4>2
    <3> QED BY <3>1, <3>2
  <2>2. ASSUME NEW i \in 1 .. Len(Tail(s)), Tail(s)[i] = e PROVE e \in ToSet(s)
    <3>1. i + 1 \in 1 .. Len(s) BY <1>1
    <3> QED BY <1>1, <2>0, <2>2, <3>1
  <2>3. e = Head(s) => e \in ToSet(s)
    <3>1. 1 \in 1 .. Len(s) BY <1>1
    <3> QED BY <1>1, <2>0, <3>1
  <2> QED BY <2>0, <2>1, <2>2, <2>3
<1> QED BY <1>1, <1>2

\* Nothing is in an empty sequence.
LEMMA InNone ==
  ASSUME NEW S
  PROVE  << >> \in Seq(S) /\ Len(<< >>) = 0 /\ \A e : ~(e \in ToSet(<< >>))
<1>1. << >> \in Seq(S) /\ Len(<< >>) = 0 OBVIOUS
<1>2. DOMAIN << >> = {} BY <1>1
<1> QED BY <1>1, <1>2 DEF ToSet

\* What processBatch is given is written or counted, and what was settled stays so.
LEMMA ProcessSettles ==
  ASSUME TypeOK, NEW b \in Seq(EntriesOfLogs), Process(b)
  PROVE  /\ rows' \in [Logs -> {"none", "final", "stale"}]
         /\ counted' \subseteq EntriesOfLogs /\ counted \subseteq counted'
         /\ \A l \in Logs : rows[l] # "none" => rows'[l] = rows[l]
         /\ \A l \in Logs : rows'[l] = "stale" => rows[l] = "stale" \/ Entry(l, "stale") \in ToSet(b)
         /\ \A e \in ToSet(b) : Settled(e)'
<1>0. PICK ok \in SUBSET DOMAIN b :
        /\ rows' = [l \in Logs |->
             LET mine == {i \in ok : b[i].log = l}
             IN  IF rows[l] # "none" \/ mine = {} THEN rows[l] ELSE b[Min(mine)].status]
        /\ counted' \in {counted \union {b[i] : i \in DOMAIN b \ ok}, counted \union ToSet(b)}
  BY DEF Process
<1> DEFINE Mine(l) == {i \in ok : b[i].log = l}
           First(l) == Min(Mine(l))
<1>1. DOMAIN b = 1 .. Len(b) /\ (\A i \in 1 .. Len(b) : b[i] \in EntriesOfLogs) /\ ok \subseteq 1 .. Len(b)
      /\ ok \in SUBSET Nat
  OBVIOUS
<1>2. \A l \in Logs : rows'[l] = IF rows[l] # "none" \/ Mine(l) = {} THEN rows[l] ELSE b[First(l)].status
  BY <1>0
<1>3. \A l \in Logs : Mine(l) # {} => First(l) \in Mine(l)
  BY <1>1, LeastNatural
<1>4. \A e : e \in ToSet(b) <=> \E i \in 1 .. Len(b) : b[i] = e
  BY InSequence
<1>5. \A l \in Logs : Mine(l) # {} =>
        /\ First(l) \in 1 .. Len(b) /\ b[First(l)].status \in {"final", "stale"} /\ b[First(l)].log = l
        /\ b[First(l)] = Entry(l, b[First(l)].status)
  BY <1>1, <1>3 DEF EntriesOfLogs, Entry
<1>6. \A i \in ok : i \in Mine(b[i].log) OBVIOUS
<1>7. \A i \in DOMAIN b \ ok : b[i] \in counted'
  <2>1. CASE counted' = counted \union {b[i] : i \in DOMAIN b \ ok} BY <2>1
  <2>2. CASE counted' = counted \union ToSet(b) BY <1>1, <1>4, <2>2
  <2> QED BY <1>0, <2>1, <2>2
<1>8. counted' \subseteq EntriesOfLogs /\ counted \subseteq counted'
  <2>1. CASE counted' = counted \union {b[i] : i \in DOMAIN b \ ok}
    <3>1. \A i \in DOMAIN b \ ok : b[i] \in EntriesOfLogs BY <1>1
    <3> QED BY <2>1, <3>1 DEF TypeOK
  <2>2. CASE counted' = counted \union ToSet(b) BY <2>2, InSequence DEF TypeOK
  <2> QED BY <1>0, <2>1, <2>2
<1> HIDE DEF First
<1>9. rows' \in [Logs -> {"none", "final", "stale"}]
  <2>1. DOMAIN rows' = Logs /\ rows' = [l \in Logs |-> rows'[l]] BY <1>0
  <2>2. rows \in [Logs -> {"none", "final", "stale"}] BY DEF TypeOK
  <2> HIDE DEF Mine
  <2>3. ASSUME NEW l \in Logs PROVE rows'[l] \in {"none", "final", "stale"}
    <3>1. CASE rows[l] # "none" \/ Mine(l) = {} BY <1>2, <2>2, <3>1
    <3>2. CASE ~(rows[l] # "none" \/ Mine(l) = {})
      <4>1. rows'[l] = b[First(l)].status BY <1>2, <3>2
      <4> QED BY <1>5, <3>2, <4>1
    <3> QED BY <3>1, <3>2
  <2> QED BY <2>1, <2>3
<1>10. \A l \in Logs : rows'[l] = "stale" => rows[l] = "stale" \/ Entry(l, "stale") \in ToSet(b)
  <2> SUFFICES ASSUME NEW l \in Logs, rows'[l] = "stale", rows[l] # "stale" PROVE Entry(l, "stale") \in ToSet(b)
    OBVIOUS
  <2>1. Mine(l) # {} /\ b[First(l)].status = "stale" BY <1>2
  <2> HIDE DEF Mine
  <2>2. b[First(l)] = Entry(l, "stale") /\ First(l) \in 1 .. Len(b) BY <1>5, <2>1
  <2> QED BY <1>4, <2>2
<1>11. ASSUME NEW e \in ToSet(b) PROVE Settled(e)'
  <2>1. PICK i \in 1 .. Len(b) : b[i] = e BY <1>4
  <2>2. e \in EntriesOfLogs BY <1>1, <2>1
  <2>3. e.log \in Logs BY <2>2 DEF EntriesOfLogs
  <2>4. CASE i \in ok
    <3>1. Mine(e.log) # {} BY <1>6, <2>1, <2>4
    <3> HIDE DEF Mine
    <3>2. rows'[e.log] # "none" BY <1>2, <1>5, <2>3, <3>1
    <3> QED BY <3>2 DEF Settled
  <2>5. CASE i \notin ok BY <1>1, <1>7, <2>1, <2>5 DEF Settled
  <2> QED BY <2>4, <2>5
<1> QED BY <1>2, <1>8, <1>9, <1>10, <1>11

-----------------------------------------------------------------------------
\* The data is put into the map as the attempt begins.
LEMMA PreHookKeeps ==
  ASSUME IInv, NEW l \in Logs, PreHook(l)
  PROVE  IInv'
<1>1. TypeOK'
  BY LogsAssumption, LimitsAssumption
    DEF IInv, TypeOK, Hooked, Handover, Drained, Free, Gone, Tools, Traced, PreHook, To
<1>2. ASSUME NEW k \in Logs PROVE Hooked(k)'
  BY LogsAssumption DEF IInv, TypeOK, Hooked, Traced, Tools, Free, Gone, PreHook, To
<1>3. ASSUME NEW k \in Logs PROVE Swept(k)'
  BY LogsAssumption
    DEF IInv, TypeOK, Hooked, Swept, Abandoned, Waiting, Drained, Tools, Free, Gone, PreHook, To
<1>4. Handover'
  BY LimitsAssumption DEF IInv, TypeOK, Handover, Drained, PreHook, To
<1>5. NoSilentLoss'
  BY LogsAssumption
    DEF IInv, TypeOK, Hooked, NoSilentLoss, Waiting, Drained, Settled, Traced, Tools, PreHook, To
<1> QED BY <1>1, <1>2, <1>3, <1>4, <1>5 DEF IInv

\* A chunk only makes the data young again.
LEMMA ChunkKeeps ==
  ASSUME IInv, NEW l \in Logs, Chunk(l)
  PROVE  IInv'
<1>1. TypeOK'
  BY LogsAssumption, LimitsAssumption
    DEF IInv, TypeOK, Hooked, Handover, Drained, Free, Gone, Tools, Traced, Chunk
<1>2. ASSUME NEW k \in Logs PROVE Hooked(k)'
  BY LogsAssumption DEF IInv, TypeOK, Hooked, Traced, Tools, Free, Gone, Chunk
<1>3. ASSUME NEW k \in Logs PROVE Swept(k)'
  BY LogsAssumption
    DEF IInv, TypeOK, Hooked, Swept, Abandoned, Waiting, Drained, Tools, Free, Gone, Chunk
<1>4. Handover'
  BY LimitsAssumption DEF IInv, TypeOK, Handover, Drained, Chunk
<1>5. NoSilentLoss'
  BY LogsAssumption
    DEF IInv, TypeOK, Hooked, NoSilentLoss, Waiting, Drained, Settled, Traced, Tools, Chunk
<1> QED BY <1>1, <1>2, <1>3, <1>4, <1>5 DEF IInv

\* An attempt that ends takes its data along.
LEMMA PostLLMHookKeeps ==
  ASSUME IInv, NEW l \in Logs, PostLLMHook(l)
  PROVE  IInv'
<1>1. TypeOK'
  <2>1. pc' \in [Logs -> {"new", "running", "append", "held", "built", "checked", "end", "never"}]
    BY DEF IInv, TypeOK, PostLLMHook, Store, To
  <2>2. /\ pending' \subseteq Logs /\ old' \subseteq Logs \union {Trace}
        /\ missed' \subseteq Traced /\ finished' \subseteq Tools
    BY DEF IInv, TypeOK, PostLLMHook, TakePending
  <2>3. deferred' \in [Logs -> {"no", "receiving", "updating"}]
    BY DEF IInv, TypeOK, PostLLMHook
  <2>4. UNCHANGED <<kind, complete, channel, writing, closing, store, sweeper, swept>>
    BY DEF PostLLMHook
  <2> QED BY <2>1, <2>2, <2>3, <2>4 DEF IInv, TypeOK, Tools, Traced
<1>2. ASSUME NEW k \in Logs PROVE Hooked(k)'
  BY LogsAssumption
    DEF IInv, TypeOK, Hooked, Traced, Tools, Free, Gone, PostLLMHook, Store, TakePending, To
<1>3. ASSUME NEW k \in Logs PROVE Swept(k)'
  BY LogsAssumption
    DEF IInv, TypeOK, Hooked, Swept, Abandoned, Waiting, Drained, Tools, Free, Gone, PostLLMHook,
        Store, TakePending, To
<1>4. Handover'
  BY LimitsAssumption DEF IInv, TypeOK, Handover, Drained, PostLLMHook, Store, TakePending, To
<1>5. NoSilentLoss'
  BY LogsAssumption
    DEF IInv, TypeOK, Hooked, NoSilentLoss, Waiting, Drained, Settled, Traced, Tools, PostLLMHook,
        Store, TakePending,
        To
<1> QED BY <1>1, <1>2, <1>3, <1>4, <1>5 DEF IInv

\* A success without data is one the sweeper took.
LEMMA PostLLMHookSkipsKeeps ==
  ASSUME IInv, NEW l \in Logs, PostLLMHookSkips(l)
  PROVE  IInv'
<1>1. TypeOK'
  BY LogsAssumption, LimitsAssumption
    DEF IInv, TypeOK, Hooked, Handover, Drained, Free, Gone, Tools, Traced, PostLLMHookSkips,
        TakePending, To
<1>2. ASSUME NEW k \in Logs PROVE Hooked(k)'
  BY LogsAssumption
    DEF IInv, TypeOK, Hooked, Traced, Tools, Free, Gone, PostLLMHookSkips, TakePending, To
<1>3. ASSUME NEW k \in Logs PROVE Swept(k)'
  BY LogsAssumption
    DEF IInv, TypeOK, Hooked, Swept, Abandoned, Waiting, Drained, Tools, Free, Gone,
        PostLLMHookSkips,
        TakePending, To
<1>4. Handover'
  BY LimitsAssumption DEF IInv, TypeOK, Handover, Drained, PostLLMHookSkips, TakePending, To
<1>5. NoSilentLoss'
  BY LogsAssumption
    DEF IInv, TypeOK, Hooked, NoSilentLoss, Waiting, Drained, Settled, Traced, Tools,
        PostLLMHookSkips,
        TakePending, To
<1> QED BY <1>1, <1>2, <1>3, <1>4, <1>5 DEF IInv

\* A tool that finds its data has not been swept.
LEMMA PostMCPHookKeeps ==
  ASSUME IInv, NEW l \in Logs, PostMCPHook(l)
  PROVE  IInv'
<1>1. TypeOK'
  BY LogsAssumption, LimitsAssumption
    DEF IInv, TypeOK, Hooked, Handover, Drained, Free, Gone, Tools, Traced, PostMCPHook,
        TakePending, To
<1>2. ASSUME NEW k \in Logs PROVE Hooked(k)'
  BY LogsAssumption
    DEF IInv, TypeOK, Hooked, Traced, Tools, Free, Gone, PostMCPHook, TakePending, To
<1>3. ASSUME NEW k \in Logs PROVE Swept(k)'
  BY LogsAssumption
    DEF IInv, TypeOK, Hooked, Swept, Abandoned, Waiting, Drained, Tools, Free, Gone, PostMCPHook,
        TakePending, To
<1>4. Handover'
  BY LimitsAssumption DEF IInv, TypeOK, Handover, Drained, PostMCPHook, TakePending, To
<1>5. NoSilentLoss'
  BY LogsAssumption
    DEF IInv, TypeOK, Hooked, NoSilentLoss, Waiting, Drained, Settled, Traced, Tools, PostMCPHook,
        TakePending,
        To
<1> QED BY <1>1, <1>2, <1>3, <1>4, <1>5 DEF IInv

\* The entry is in the record.
LEMMA AppendEntryKeeps ==
  ASSUME IInv, NEW l \in Logs, AppendEntry(l)
  PROVE  IInv'
<1>1. TypeOK'
  BY LogsAssumption, LimitsAssumption
    DEF IInv, TypeOK, Hooked, Free, Gone, Tools, Traced, AppendEntry, To
<1>2. ASSUME NEW k \in Logs PROVE Hooked(k)'
  BY LogsAssumption DEF IInv, TypeOK, Hooked, Traced, Tools, AppendEntry, To
<1>3. ASSUME NEW k \in Logs PROVE Swept(k)'
  BY LogsAssumption
    DEF IInv, TypeOK, Hooked, Swept, Abandoned, Waiting, Drained, Tools, AppendEntry, To
<1>4. Handover'
  BY LimitsAssumption DEF IInv, TypeOK, Handover, Drained, AppendEntry, To
<1>5. NoSilentLoss'
  BY LogsAssumption
    DEF IInv, TypeOK, Hooked, NoSilentLoss, Waiting, Drained, Settled, Traced, Tools, AppendEntry,
        To
<1> QED BY <1>1, <1>2, <1>3, <1>4, <1>5 DEF IInv

\* After Cleanup has begun nothing more is promised.
LEMMA CheckKeeps ==
  ASSUME IInv, NEW l \in Logs, Check(l)
  PROVE  IInv'
<1>1. TypeOK'
  BY LogsAssumption, LimitsAssumption
    DEF IInv, TypeOK, Hooked, Handover, Drained, Free, Gone, Tools, Traced, Check, To
<1>2. ASSUME NEW k \in Logs PROVE Hooked(k)'
  BY LogsAssumption DEF IInv, TypeOK, Hooked, Traced, Tools, Free, Gone, Check, To
<1>3. ASSUME NEW k \in Logs PROVE Swept(k)'
  BY LogsAssumption
    DEF IInv, TypeOK, Hooked, Swept, Abandoned, Waiting, Drained, Tools, Free, Gone, Check, To
<1>4. Handover'
  BY LimitsAssumption DEF IInv, TypeOK, Handover, Drained, Check, To
<1>5. NoSilentLoss'
  BY LogsAssumption
    DEF IInv, TypeOK, Hooked, NoSilentLoss, Waiting, Drained, Settled, Traced, Tools, Check, To
<1> QED BY <1>1, <1>2, <1>3, <1>4, <1>5 DEF IInv

\* The held attempts are built.
LEMMA InjectKeeps ==
  ASSUME IInv, Inject
  PROVE  IInv'
<1>1. TypeOK'
  BY LogsAssumption, LimitsAssumption
    DEF IInv, TypeOK, Hooked, Handover, Drained, Free, Gone, Tools, Traced, Inject
<1>2. ASSUME NEW k \in Logs PROVE Hooked(k)'
  BY LogsAssumption DEF IInv, TypeOK, Hooked, Traced, Tools, Free, Gone, Inject
<1>3. ASSUME NEW k \in Logs PROVE Swept(k)'
  BY LogsAssumption
    DEF IInv, TypeOK, Hooked, Swept, Abandoned, Waiting, Drained, Tools, Free, Gone, Inject
<1>4. Handover'
  BY LimitsAssumption DEF IInv, TypeOK, Handover, Drained, Inject
<1>5. NoSilentLoss'
  BY LogsAssumption
    DEF IInv, TypeOK, Hooked, NoSilentLoss, Waiting, Drained, Settled, Traced, Tools, Inject
<1> QED BY <1>1, <1>2, <1>3, <1>4, <1>5 DEF IInv

\* To grow old changes nothing yet.
LEMMA GrowOldKeeps ==
  ASSUME IInv, GrowOld
  PROVE  IInv'
<1>1. TypeOK'
  BY LogsAssumption, LimitsAssumption
    DEF IInv, TypeOK, Hooked, Handover, Drained, Free, Gone, Tools, Traced, GrowOld
<1>2. ASSUME NEW k \in Logs PROVE Hooked(k)'
  BY LogsAssumption DEF IInv, TypeOK, Hooked, Traced, Tools, Free, Gone, GrowOld
<1>3. ASSUME NEW k \in Logs PROVE Swept(k)'
  BY LogsAssumption
    DEF IInv, TypeOK, Hooked, Swept, Abandoned, Waiting, Drained, Tools, Free, Gone, GrowOld
<1>4. Handover'
  BY LimitsAssumption DEF IInv, TypeOK, Handover, Drained, GrowOld
<1>5. NoSilentLoss'
  BY LogsAssumption
    DEF IInv, TypeOK, Hooked, NoSilentLoss, Waiting, Drained, Settled, Traced, Tools, GrowOld
<1> QED BY <1>1, <1>2, <1>3, <1>4, <1>5 DEF IInv

\* The sweeper has only looked.
LEMMA JudgeKeeps ==
  ASSUME IInv, Judge
  PROVE  IInv'
<1>1. TypeOK'
  BY LogsAssumption, LimitsAssumption
    DEF IInv, TypeOK, Hooked, Handover, Drained, Free, Gone, Tools, Traced, Judge
<1>2. ASSUME NEW k \in Logs PROVE Hooked(k)'
  BY LogsAssumption DEF IInv, TypeOK, Hooked, Traced, Tools, Free, Gone, Judge
<1>3. ASSUME NEW k \in Logs PROVE Swept(k)'
  BY LogsAssumption
    DEF IInv, TypeOK, Hooked, Swept, Abandoned, Waiting, Drained, Tools, Free, Gone, Judge
<1>4. Handover'
  BY LimitsAssumption DEF IInv, TypeOK, Handover, Drained, Judge
<1>5. NoSilentLoss'
  BY LogsAssumption
    DEF IInv, TypeOK, Hooked, NoSilentLoss, Waiting, Drained, Settled, Traced, Tools, Judge
<1> QED BY <1>1, <1>2, <1>3, <1>4, <1>5 DEF IInv

\* The attempts of a swept trace are exempt.
LEMMA SweepTraceKeeps ==
  ASSUME IInv, SweepTrace
  PROVE  IInv'
<1>1. TypeOK'
  BY LogsAssumption, LimitsAssumption
    DEF IInv, TypeOK, Hooked, Handover, Drained, Free, Gone, Tools, Traced, SweepTrace
<1>2. ASSUME NEW k \in Logs PROVE Hooked(k)'
  BY LogsAssumption DEF IInv, TypeOK, Hooked, Traced, Tools, Free, Gone, SweepTrace
<1>3. ASSUME NEW k \in Logs PROVE Swept(k)'
  BY LogsAssumption
    DEF IInv, TypeOK, Hooked, Swept, Abandoned, Waiting, Drained, Tools, Free, Gone, SweepTrace
<1>4. Handover'
  BY LimitsAssumption DEF IInv, TypeOK, Handover, Drained, SweepTrace
<1>5. NoSilentLoss'
  BY LogsAssumption
    DEF IInv, TypeOK, Hooked, NoSilentLoss, Waiting, Drained, Settled, Traced, Tools, SweepTrace
<1> QED BY <1>1, <1>2, <1>3, <1>4, <1>5 DEF IInv

\* What the sweeper blames it has taken out of the map.
LEMMA SweepKeeps ==
  ASSUME IInv, Sweep
  PROVE  IInv'
<1>1. TypeOK'
  BY LogsAssumption, LimitsAssumption
    DEF IInv, TypeOK, Hooked, Handover, Drained, Free, Gone, Tools, Traced, Sweep
<1>2. ASSUME NEW k \in Logs PROVE Hooked(k)'
  BY LogsAssumption DEF IInv, TypeOK, Hooked, Traced, Tools, Free, Gone, Sweep
<1>3. ASSUME NEW k \in Logs PROVE Swept(k)'
  BY LogsAssumption
    DEF IInv, TypeOK, Hooked, Swept, Abandoned, Waiting, Drained, Tools, Free, Gone, Sweep
<1>4. Handover'
  BY LimitsAssumption DEF IInv, TypeOK, Handover, Drained, Sweep
<1>5. NoSilentLoss'
  BY LogsAssumption
    DEF IInv, TypeOK, Hooked, NoSilentLoss, Waiting, Drained, Settled, Traced, Tools, Sweep
<1> QED BY <1>1, <1>2, <1>3, <1>4, <1>5 DEF IInv

\* The sweeper holds nothing when it ends.
LEMMA SweeperEndsKeeps ==
  ASSUME IInv, SweeperEnds
  PROVE  IInv'
<1>1. TypeOK'
  BY LogsAssumption, LimitsAssumption
    DEF IInv, TypeOK, Hooked, Handover, Drained, Free, Gone, Tools, Traced, SweeperEnds
<1>2. ASSUME NEW k \in Logs PROVE Hooked(k)'
  BY LogsAssumption DEF IInv, TypeOK, Hooked, Traced, Tools, Free, Gone, SweeperEnds
<1>3. ASSUME NEW k \in Logs PROVE Swept(k)'
  BY LogsAssumption
    DEF IInv, TypeOK, Hooked, Swept, Abandoned, Waiting, Drained, Tools, Free, Gone, SweeperEnds
<1>4. Handover'
  BY LimitsAssumption DEF IInv, TypeOK, Handover, Drained, SweeperEnds
<1>5. NoSilentLoss'
  BY LogsAssumption
    DEF IInv, TypeOK, Hooked, NoSilentLoss, Waiting, Drained, Settled, Traced, Tools, SweeperEnds
<1> QED BY <1>1, <1>2, <1>3, <1>4, <1>5 DEF IInv

\* The timer writes nothing itself.
LEMMA TimerFiresKeeps ==
  ASSUME IInv, TimerFires
  PROVE  IInv'
<1>1. TypeOK'
  BY LogsAssumption, LimitsAssumption
    DEF IInv, TypeOK, Hooked, Handover, Drained, Free, Gone, Tools, Traced, TimerFires
<1>2. ASSUME NEW k \in Logs PROVE Hooked(k)'
  BY LogsAssumption DEF IInv, TypeOK, Hooked, Traced, Tools, Free, Gone, TimerFires
<1>3. ASSUME NEW k \in Logs PROVE Swept(k)'
  BY LogsAssumption
    DEF IInv, TypeOK, Hooked, Swept, Abandoned, Waiting, Drained, Tools, Free, Gone, TimerFires
<1>4. Handover'
  BY LimitsAssumption DEF IInv, TypeOK, Handover, Drained, TimerFires
<1>5. NoSilentLoss'
  BY LogsAssumption
    DEF IInv, TypeOK, Hooked, NoSilentLoss, Waiting, Drained, Settled, Traced, Tools, TimerFires
<1> QED BY <1>1, <1>2, <1>3, <1>4, <1>5 DEF IInv

\* The writer keeps its batch.
LEMMA WriterTimerKeeps ==
  ASSUME IInv, WriterTimer
  PROVE  IInv'
<1>1. TypeOK'
  BY LogsAssumption, LimitsAssumption
    DEF IInv, TypeOK, Hooked, Handover, Drained, Free, Gone, Tools, Traced, WriterTimer
<1>2. ASSUME NEW k \in Logs PROVE Hooked(k)'
  BY LogsAssumption DEF IInv, TypeOK, Hooked, Traced, Tools, Free, Gone, WriterTimer
<1>3. ASSUME NEW k \in Logs PROVE Swept(k)'
  BY LogsAssumption
    DEF IInv, TypeOK, Hooked, Swept, Abandoned, Waiting, Drained, Tools, Free, Gone, WriterTimer
<1>4. Handover'
  BY LimitsAssumption DEF IInv, TypeOK, Handover, Drained, WriterTimer
<1>5. NoSilentLoss'
  BY LogsAssumption
    DEF IInv, TypeOK, Hooked, NoSilentLoss, Waiting, Drained, Settled, Traced, Tools, WriterTimer
<1> QED BY <1>1, <1>2, <1>3, <1>4, <1>5 DEF IInv

\* The batch stays behind.
LEMMA WriterEndsKeeps ==
  ASSUME IInv, WriterEnds
  PROVE  IInv'
<1>1. TypeOK'
  BY LogsAssumption, LimitsAssumption
    DEF IInv, TypeOK, Hooked, Handover, Drained, Free, Gone, Tools, Traced, WriterEnds
<1>2. ASSUME NEW k \in Logs PROVE Hooked(k)'
  BY LogsAssumption DEF IInv, TypeOK, Hooked, Traced, Tools, Free, Gone, WriterEnds
<1>3. ASSUME NEW k \in Logs PROVE Swept(k)'
  BY LogsAssumption
    DEF IInv, TypeOK, Hooked, Swept, Abandoned, Waiting, Drained, Tools, Free, Gone, WriterEnds
<1>4. Handover'
  BY LimitsAssumption DEF IInv, TypeOK, Handover, Drained, WriterEnds
<1>5. NoSilentLoss'
  BY LogsAssumption
    DEF IInv, TypeOK, Hooked, NoSilentLoss, Waiting, Drained, Settled, Traced, Tools, WriterEnds
<1> QED BY <1>1, <1>2, <1>3, <1>4, <1>5 DEF IInv

\* Nothing is promised differently yet.
LEMMA CleanupBeginsKeeps ==
  ASSUME IInv, CleanupBegins
  PROVE  IInv'
<1>1. TypeOK'
  BY LogsAssumption, LimitsAssumption
    DEF IInv, TypeOK, Hooked, Handover, Drained, Free, Gone, Tools, Traced, CleanupBegins
<1>2. ASSUME NEW k \in Logs PROVE Hooked(k)'
  BY LogsAssumption DEF IInv, TypeOK, Hooked, Traced, Tools, Free, Gone, CleanupBegins
<1>3. ASSUME NEW k \in Logs PROVE Swept(k)'
  BY LogsAssumption
    DEF IInv, TypeOK, Hooked, Swept, Abandoned, Waiting, Drained, Tools, Free, Gone, CleanupBegins
<1>4. Handover'
  BY LimitsAssumption DEF IInv, TypeOK, Handover, Drained, CleanupBegins
<1>5. NoSilentLoss'
  BY LogsAssumption
    DEF IInv, TypeOK, Hooked, NoSilentLoss, Waiting, Drained, Settled, Traced, Tools, CleanupBegins
<1> QED BY <1>1, <1>2, <1>3, <1>4, <1>5 DEF IInv

\* From here the producers drop.
LEMMA CleanupClosesKeeps ==
  ASSUME IInv, CleanupCloses
  PROVE  IInv'
<1>1. TypeOK'
  BY LogsAssumption, LimitsAssumption
    DEF IInv, TypeOK, Hooked, Handover, Drained, Free, Gone, Tools, Traced, CleanupCloses
<1>2. ASSUME NEW k \in Logs PROVE Hooked(k)'
  BY LogsAssumption DEF IInv, TypeOK, Hooked, Traced, Tools, Free, Gone, CleanupCloses
<1>3. ASSUME NEW k \in Logs PROVE Swept(k)'
  BY LogsAssumption
    DEF IInv, TypeOK, Hooked, Swept, Abandoned, Waiting, Drained, Tools, Free, Gone, CleanupCloses
<1>4. Handover'
  BY LimitsAssumption DEF IInv, TypeOK, Handover, Drained, CleanupCloses
<1>5. NoSilentLoss'
  BY LogsAssumption
    DEF IInv, TypeOK, Hooked, NoSilentLoss, Waiting, Drained, Settled, Traced, Tools, CleanupCloses
<1> QED BY <1>1, <1>2, <1>3, <1>4, <1>5 DEF IInv

\* The writer is told to end.
LEMMA CleanupCancelsKeeps ==
  ASSUME IInv, CleanupCancels
  PROVE  IInv'
<1>1. TypeOK'
  BY LogsAssumption, LimitsAssumption
    DEF IInv, TypeOK, Hooked, Handover, Drained, Free, Gone, Tools, Traced, CleanupCancels
<1>2. ASSUME NEW k \in Logs PROVE Hooked(k)'
  BY LogsAssumption DEF IInv, TypeOK, Hooked, Traced, Tools, Free, Gone, CleanupCancels
<1>3. ASSUME NEW k \in Logs PROVE Swept(k)'
  BY LogsAssumption
    DEF IInv, TypeOK, Hooked, Swept, Abandoned, Waiting, Drained, Tools, Free, Gone, CleanupCancels
<1>4. Handover'
  BY LimitsAssumption DEF IInv, TypeOK, Handover, Drained, CleanupCancels
<1>5. NoSilentLoss'
  BY LogsAssumption
    DEF IInv, TypeOK, Hooked, NoSilentLoss, Waiting, Drained, Settled, Traced, Tools, CleanupCancels
<1> QED BY <1>1, <1>2, <1>3, <1>4, <1>5 DEF IInv

\* Nothing is left when the queue is closed.
LEMMA CleanupShutsKeeps ==
  ASSUME IInv, CleanupShuts
  PROVE  IInv'
<1>1. TypeOK'
  BY LogsAssumption, LimitsAssumption
    DEF IInv, TypeOK, Hooked, Handover, Drained, Free, Gone, Tools, Traced, CleanupShuts
<1>2. ASSUME NEW k \in Logs PROVE Hooked(k)'
  BY LogsAssumption DEF IInv, TypeOK, Hooked, Traced, Tools, Free, Gone, CleanupShuts
<1>3. ASSUME NEW k \in Logs PROVE Swept(k)'
  BY LogsAssumption
    DEF IInv, TypeOK, Hooked, Swept, Abandoned, Waiting, Drained, Tools, Free, Gone, CleanupShuts
<1>4. Handover'
  BY LimitsAssumption DEF IInv, TypeOK, Handover, Drained, CleanupShuts
<1>5. NoSilentLoss'
  BY LogsAssumption
    DEF IInv, TypeOK, Hooked, NoSilentLoss, Waiting, Drained, Settled, Traced, Tools, CleanupShuts
<1> QED BY <1>1, <1>2, <1>3, <1>4, <1>5 DEF IInv

\* Cleanup has done its work.
LEMMA CleanupReturnsNowKeeps ==
  ASSUME IInv, CleanupReturnsNow
  PROVE  IInv'
<1>1. TypeOK'
  BY LogsAssumption, LimitsAssumption
    DEF IInv, TypeOK, Hooked, Handover, Drained, Free, Gone, Tools, Traced, CleanupReturnsNow
<1>2. ASSUME NEW k \in Logs PROVE Hooked(k)'
  BY LogsAssumption DEF IInv, TypeOK, Hooked, Traced, Tools, Free, Gone, CleanupReturnsNow
<1>3. ASSUME NEW k \in Logs PROVE Swept(k)'
  BY LogsAssumption
    DEF IInv, TypeOK, Hooked, Swept, Abandoned, Waiting, Drained, Tools, Free, Gone,
        CleanupReturnsNow
<1>4. Handover'
  BY LimitsAssumption DEF IInv, TypeOK, Handover, Drained, CleanupReturnsNow
<1>5. NoSilentLoss'
  BY LogsAssumption
    DEF IInv, TypeOK, Hooked, NoSilentLoss, Waiting, Drained, Settled, Traced, Tools,
        CleanupReturnsNow
<1> QED BY <1>1, <1>2, <1>3, <1>4, <1>5 DEF IInv

\* An update changes no row that is not there.
LEMMA DeferredUpdateKeeps ==
  ASSUME IInv, NEW l \in Logs, DeferredUpdate(l)
  PROVE  IInv'
<1>1. TypeOK'
  <2>1. deferred' \in [Logs -> {"no", "receiving", "updating"}]
    BY DEF IInv, TypeOK, DeferredUpdate
  <2>2. UNCHANGED <<hooks, channel, writing, closing, store, sweeper, swept>>
    BY DEF DeferredUpdate
  <2> QED
    BY <2>1, <2>2 DEF IInv, TypeOK, Tools, Traced
<1>2. ASSUME NEW k \in Logs PROVE Hooked(k)'
  BY LogsAssumption DEF IInv, TypeOK, Hooked, Traced, Tools, Free, Gone, DeferredUpdate
<1>3. ASSUME NEW k \in Logs PROVE Swept(k)'
  BY LogsAssumption
    DEF IInv, TypeOK, Hooked, Swept, Abandoned, Waiting, Drained, Tools, Free, Gone, DeferredUpdate
<1>4. Handover'
  BY LimitsAssumption DEF IInv, TypeOK, Handover, Drained, DeferredUpdate
<1>5. NoSilentLoss'
  BY LogsAssumption
    DEF IInv, TypeOK, Hooked, NoSilentLoss, Waiting, Drained, Settled, Traced, Tools, DeferredUpdate
<1> QED BY <1>1, <1>2, <1>3, <1>4, <1>5 DEF IInv

\* What is taken from the queue is in the batch.
LEMMA WriterTakesKeeps ==
  ASSUME IInv, WriterTakes
  PROVE  IInv'
<1>0. /\ queue' \in Seq(EntriesOfLogs) /\ batch' \in Seq(EntriesOfLogs)
      /\ Len(queue') <= QueueCap /\ Len(batch') = Len(batch) + 1
      /\ \A e : Waiting(e)' <=> Waiting(e)
  <2>1. queue \in Seq(EntriesOfLogs) /\ batch \in Seq(EntriesOfLogs) /\ Len(queue) <= QueueCap BY
    DEF IInv, TypeOK
  <2>2. /\ Head(queue) \in EntriesOfLogs /\ queue' \in Seq(EntriesOfLogs) /\ Len(queue') = Len(queue) - 1
        /\ \A e : e \in ToSet(queue) <=> e = Head(queue) \/ e \in ToSet(queue')
    BY <2>1, InTail DEF WriterTakes
  <2>3. /\ batch' \in Seq(EntriesOfLogs)
        /\ \A e : e \in ToSet(batch') <=> e \in ToSet(batch) \/ e = Head(queue)
    BY <2>1, <2>2, InAppend DEF WriterTakes
  <2>4. Len(batch') = Len(batch) + 1 BY <2>1, <2>2 DEF WriterTakes
  <2>5. Len(queue') <= QueueCap BY <2>1, <2>2, LimitsAssumption
  <2>6. \A e : Waiting(e)' <=> Waiting(e) BY <2>2, <2>3 DEF Waiting, Drained, WriterTakes
  <2> QED BY <2>2, <2>3, <2>4, <2>5, <2>6
<1>1. TypeOK'
  BY <1>0, LogsAssumption, LimitsAssumption
    DEF IInv, TypeOK, Hooked, Handover, Drained, Free, Gone, Tools, Traced, WriterTakes
<1>2. ASSUME NEW k \in Logs PROVE Hooked(k)'
  BY <1>0, LogsAssumption DEF IInv, TypeOK, Hooked, Traced, Tools, Free, Gone, WriterTakes
<1>3. ASSUME NEW k \in Logs PROVE Swept(k)'
  BY <1>0, LogsAssumption DEF IInv, TypeOK, Hooked, Swept, Abandoned, Tools, Free, Gone, WriterTakes
<1>4. Handover'
  BY <1>0, LimitsAssumption DEF IInv, TypeOK, Handover, Drained, WriterTakes
<1>5. NoSilentLoss'
  BY <1>0, LogsAssumption
    DEF IInv, TypeOK, Hooked, NoSilentLoss, Settled, Traced, Tools, WriterTakes
<1> QED BY <1>1, <1>2, <1>3, <1>4, <1>5 DEF IInv

\* Cleanup takes the batch and the queue.
LEMMA CleanupTakesKeeps ==
  ASSUME IInv, CleanupTakes
  PROVE  IInv'
<1>0. /\ queue' \in Seq(EntriesOfLogs) /\ batch' \in Seq(EntriesOfLogs) /\ left' \in Seq(EntriesOfLogs)
      /\ Len(queue') = 0 /\ Len(batch') = 0
      /\ \A e : Waiting(e)' <=> Waiting(e)
  <2>1. queue \in Seq(EntriesOfLogs) /\ batch \in Seq(EntriesOfLogs) BY DEF IInv, TypeOK
  <2>2. /\ left' \in Seq(EntriesOfLogs)
        /\ \A e : e \in ToSet(left') <=> e \in ToSet(batch) \/ e \in ToSet(queue)
    BY <2>1, InConcat DEF CleanupTakes
  <2>3. /\ queue' \in Seq(EntriesOfLogs) /\ Len(queue') = 0 /\ \A e : ~(e \in ToSet(queue'))
        /\ batch' \in Seq(EntriesOfLogs) /\ Len(batch') = 0 /\ \A e : ~(e \in ToSet(batch'))
    BY InNone DEF CleanupTakes
  <2>4. \A e : Waiting(e)' <=> e \in ToSet(left') BY <2>3 DEF Waiting, Drained
  <2>5. \A e : ~(e \in ToSet(left)) BY InNone DEF IInv, Handover, Drained, CleanupTakes
  <2>6. \A e : Waiting(e) <=> e \in ToSet(left') BY <2>2, <2>5 DEF Waiting, Drained, CleanupTakes
  <2> QED BY <2>2, <2>3, <2>4, <2>6
<1>1. TypeOK'
  BY <1>0, LogsAssumption, LimitsAssumption
    DEF IInv, TypeOK, Hooked, Handover, Drained, Free, Gone, Tools, Traced, CleanupTakes
<1>2. ASSUME NEW k \in Logs PROVE Hooked(k)'
  BY <1>0, LogsAssumption DEF IInv, TypeOK, Hooked, Traced, Tools, Free, Gone, CleanupTakes
<1>3. ASSUME NEW k \in Logs PROVE Swept(k)'
  BY <1>0, LogsAssumption
    DEF IInv, TypeOK, Hooked, Swept, Abandoned, Tools, Free, Gone, CleanupTakes
<1>4. Handover'
  BY <1>0, LimitsAssumption DEF IInv, TypeOK, Handover, Drained, CleanupTakes
<1>5. NoSilentLoss'
  BY <1>0, LogsAssumption
    DEF IInv, TypeOK, Hooked, NoSilentLoss, Settled, Traced, Tools, CleanupTakes
<1> QED BY <1>1, <1>2, <1>3, <1>4, <1>5 DEF IInv

\* An entry that is sent is in the queue or counted, and only the queue accepts.
LEMMA SendSettles ==
  ASSUME TypeOK, NEW e \in EntriesOfLogs, Send(e), UNCHANGED <<batch, left, cleanup>>
  PROVE  /\ queue' \in Seq(EntriesOfLogs) /\ Len(queue') <= QueueCap /\ shut' = shut
         /\ accepted' \subseteq accepted \union {e}
         /\ Drained => accepted' = accepted
         /\ counted \subseteq counted' /\ counted' \subseteq counted \union {e}
         /\ \A x : Waiting(x) => Waiting(x)'
         /\ \A x : Waiting(x)' => Waiting(x) \/ x = e
         /\ ~Drained => Waiting(e)' \/ e \in counted'
<1>1. queue \in Seq(EntriesOfLogs) /\ Len(queue) <= QueueCap /\ Len(queue) \in Nat /\ QueueCap \in Nat
  BY LimitsAssumption DEF TypeOK
<1>2. CASE Len(queue) < QueueCap /\ ~shut
  <2>1. queue' = Append(queue, e) BY <1>2 DEF Send
  <2>2. queue' \in Seq(EntriesOfLogs) /\ \A x : x \in ToSet(queue') <=> x \in ToSet(queue) \/ x = e
    BY <1>1, <2>1, InAppend
  <2>3. Len(queue') <= QueueCap BY <1>1, <1>2, <2>1
  <2>4. /\ \A x : Waiting(x) => Waiting(x)'
        /\ \A x : Waiting(x)' => Waiting(x) \/ x = e
        /\ ~Drained => Waiting(e)'
    BY <2>2 DEF Waiting, Drained
  <2> QED BY <1>2, <2>2, <2>3, <2>4 DEF Send
<1>3. CASE ~(Len(queue) < QueueCap /\ ~shut)
  BY <1>1, <1>3 DEF Send, Waiting, Drained
<1> QED BY <1>2, <1>3

\* An ended log's own entry has been sent.
LEMMA EnqueueKeeps ==
  ASSUME IInv, NEW l \in Logs, Enqueue(l)
  PROVE  IInv'
<1> DEFINE e == Entry(l, "final")
<1>1. e \in EntriesOfLogs BY DEF Entry, EntriesOfLogs
<1>2. Send(e) /\ UNCHANGED <<batch, left, cleanup>> BY DEF Enqueue
<1>3. \A k \in Logs : Entry(k, "stale") # e BY DEF Entry
<1>4. e.log = l BY DEF Entry
<1>5. \A k \in Logs : k # l => pc'[k] = pc[k] BY DEF IInv, TypeOK, Enqueue, To
<1>6. pc' = [pc EXCEPT ![l] = "end"] /\ pc[l] = "checked" BY DEF Enqueue, To
<1> HIDE DEF e
<1>7. /\ queue' \in Seq(EntriesOfLogs) /\ Len(queue') <= QueueCap /\ shut' = shut
      /\ accepted' \subseteq accepted \union {e}
      /\ Drained => accepted' = accepted
      /\ counted \subseteq counted' /\ counted' \subseteq counted \union {e}
      /\ \A x : Waiting(x) => Waiting(x)'
      /\ \A x : Waiting(x)' => Waiting(x) \/ x = e
      /\ ~Drained => Waiting(e)' \/ e \in counted'
  BY <1>1, <1>2, SendSettles DEF IInv
<1>8. TypeOK' BY <1>1, <1>6, <1>7 DEF IInv, TypeOK, Tools, Traced, Enqueue
<1>9. ASSUME NEW k \in Logs PROVE Hooked(k)'
  BY <1>6 DEF IInv, TypeOK, Hooked, Traced, Enqueue
<1>10. ASSUME NEW k \in Logs PROVE Swept(k)'
  BY <1>3, <1>6, <1>7 DEF IInv, TypeOK, Swept, Abandoned, Enqueue
<1>11. Handover' BY <1>7 DEF IInv, Handover, Drained, Enqueue
<1>12. NoSilentLoss'
  <2>1. \A x : Settled(x) => Settled(x)' BY <1>7 DEF Settled, Enqueue
  <2>2. \A x \in accepted' : Waiting(x)' \/ Settled(x)'
    BY <1>7, <2>1 DEF IInv, NoSilentLoss, Settled
  <2>3. ~closed => Waiting(Entry(l, "final"))' \/ Settled(Entry(l, "final"))'
    BY <1>7 DEF IInv, Handover, Drained, Settled, e
  <2>4. ASSUME ~closed', NEW k \in Logs, pc'[k] = "end", k \notin swept' \union missed'
        PROVE  Waiting(Entry(k, "final"))' \/ Settled(Entry(k, "final"))'
    <3>1. CASE k = l BY <2>3, <2>4, <3>1 DEF Enqueue
    <3>2. CASE k # l
      <4>1. Waiting(Entry(k, "final")) \/ Settled(Entry(k, "final"))
        BY <1>5, <2>4, <3>2 DEF IInv, NoSilentLoss, Traced, Enqueue
      <4> QED BY <1>7, <2>1, <4>1
    <3> QED BY <3>1, <3>2
  <2> QED BY <2>2, <2>4 DEF NoSilentLoss, Entry
<1> QED BY <1>8, <1>9, <1>10, <1>11, <1>12 DEF IInv

\* The error row the sweeper sends is about a log it has taken out of the map.
LEMMA SweeperSendsKeeps ==
  ASSUME IInv, SweeperSends
  PROVE  IInv'
<1>1. CASE /\ sweeper.step = "built"
           /\ sweeper' = IF closed THEN Free ELSE [sweeper EXCEPT !.step = "checked"]
           /\ UNCHANGED <<channel, counted>>
  <2>1. TypeOK'
    <3>1. sweeper' \in [step : {"judged", "built", "checked"}, log : Logs] \union {Free, Gone}
      <4>1. sweeper \in [step : {"judged", "built", "checked"}, log : Logs] \union {Free, Gone}
        BY DEF IInv, TypeOK
      <4> QED BY <1>1, <4>1 DEF Free, Gone
    <3> QED BY <1>1, <3>1 DEF IInv, TypeOK, SweeperSends, Tools, Traced
  <2>2. sweeper'.step \in {"built", "checked"} => sweeper'.log = sweeper.log
    BY <1>1 DEF IInv, TypeOK, Free, Gone
  <2>3. ASSUME NEW k \in Logs PROVE Hooked(k)' /\ Swept(k)'
    BY <1>1, <2>2 DEF IInv, Hooked, Swept, Abandoned, Waiting, Drained, Traced, SweeperSends
  <2>4. Handover' /\ NoSilentLoss'
    BY <1>1 DEF IInv, Handover, NoSilentLoss, Waiting, Drained, Settled, Traced, SweeperSends
  <2> QED BY <2>1, <2>3, <2>4 DEF IInv
<1>2. CASE sweeper.step = "checked" /\ sweeper' = Free /\ Send(Entry(sweeper.log, "stale"))
  <2>0. PICK e : e = Entry(sweeper.log, "stale") OBVIOUS
  <2>1. sweeper.log \in Logs BY <1>2 DEF IInv, TypeOK, Free, Gone
  <2>2. e \in EntriesOfLogs BY <2>0, <2>1 DEF Entry, EntriesOfLogs
  <2>3. Send(e) /\ UNCHANGED <<batch, left, cleanup>> BY <1>2, <2>0 DEF SweeperSends
  <2>4. \A k \in Logs : Entry(k, "stale") = e => sweeper.log = k BY <2>0 DEF Entry
  <2>5. /\ queue' \in Seq(EntriesOfLogs) /\ Len(queue') <= QueueCap /\ shut' = shut
        /\ accepted' \subseteq accepted \union {e}
        /\ Drained => accepted' = accepted
        /\ counted \subseteq counted' /\ counted' \subseteq counted \union {e}
        /\ \A x : Waiting(x) => Waiting(x)'
        /\ \A x : Waiting(x)' => Waiting(x) \/ x = e
        /\ ~Drained => Waiting(e)' \/ e \in counted'
    BY <2>2, <2>3, SendSettles DEF IInv
  <2>6. TypeOK' BY <1>2, <2>2, <2>5 DEF IInv, TypeOK, Tools, Traced, Free, SweeperSends
  <2>7. ASSUME NEW k \in Logs PROVE Hooked(k)'
    BY DEF IInv, Hooked, Traced, SweeperSends
  <2>8. ASSUME NEW k \in Logs PROVE Swept(k)'
    BY <1>2, <2>4, <2>5 DEF IInv, Swept, Abandoned, Free, SweeperSends
  <2>9. Handover' BY <2>5 DEF IInv, Handover, Drained, SweeperSends
  <2>10. \A x : Settled(x) => Settled(x)' BY <2>5 DEF Settled, SweeperSends
  <2>11. NoSilentLoss'
    BY <2>5, <2>10 DEF IInv, NoSilentLoss, Settled, Traced, SweeperSends
  <2> QED BY <2>6, <2>7, <2>8, <2>9, <2>11 DEF IInv
<1> QED BY <1>1, <1>2 DEF SweeperSends

\* A step that writes some of what waits, and gives up none of it.
LEMMA WritingKeeps ==
  ASSUME IInv, NEW b \in Seq(EntriesOfLogs), Process(b),
         UNCHANGED <<hooks, channel, sweeper, swept, deferred, closed>>,
         \A e : Waiting(e) => Waiting(e)' \/ e \in ToSet(b), \A e : Waiting(e)' => Waiting(e),
         \A e \in ToSet(b) : Waiting(e)
  PROVE  /\ rows' \in [Logs -> {"none", "final", "stale"}] /\ counted' \subseteq EntriesOfLogs
         /\ \A k \in Logs : Hooked(k)' /\ Swept(k)'
         /\ NoSilentLoss'
<1>1. /\ rows' \in [Logs -> {"none", "final", "stale"}]
      /\ counted' \subseteq EntriesOfLogs /\ counted \subseteq counted'
      /\ \A l \in Logs : rows[l] # "none" => rows'[l] = rows[l]
      /\ \A l \in Logs : rows'[l] = "stale" => rows[l] = "stale" \/ Entry(l, "stale") \in ToSet(b)
      /\ \A e \in ToSet(b) : Settled(e)'
  BY ProcessSettles DEF IInv
<1>2. ASSUME NEW k \in Logs PROVE Hooked(k)' BY DEF IInv, Hooked, Traced
<1>3. ASSUME NEW k \in Logs PROVE Swept(k)'
  <2>1. Abandoned(k)' => Abandoned(k) BY <1>1 DEF Abandoned
  <2> QED BY <2>1 DEF IInv, Swept
<1>4. \A e : e.log \in Logs /\ Settled(e) => Settled(e)' BY <1>1 DEF Settled
<1>5. \A e \in accepted : e.log \in Logs BY DEF IInv, TypeOK, EntriesOfLogs
<1>6. \A l \in Logs : Entry(l, "final").log = l BY DEF Entry
<1>7. NoSilentLoss'
  BY <1>1, <1>4, <1>5, <1>6 DEF IInv, NoSilentLoss, Traced
<1> QED BY <1>1, <1>2, <1>3, <1>7

\* The batch is written, or counted as dropped.
LEMMA WriterWritesKeeps ==
  ASSUME IInv, WriterWrites
  PROVE  IInv'
<1>1. batch \in Seq(EntriesOfLogs) BY DEF IInv, TypeOK
<1>2. batch' \in Seq(EntriesOfLogs) /\ Len(batch') = 0 /\ \A e : ~(e \in ToSet(batch'))
  BY InNone DEF WriterWrites
<1>3. /\ \A e : Waiting(e) => Waiting(e)' \/ e \in ToSet(batch)
      /\ \A e : Waiting(e)' => Waiting(e)
      /\ \A e \in ToSet(batch) : Waiting(e)
  BY <1>2 DEF IInv, Handover, Waiting, Drained, WriterWrites
<1>4. /\ rows' \in [Logs -> {"none", "final", "stale"}] /\ counted' \subseteq EntriesOfLogs
      /\ \A k \in Logs : Hooked(k)' /\ Swept(k)'
      /\ NoSilentLoss'
  BY <1>1, <1>3, WritingKeeps DEF WriterWrites
<1>5. TypeOK' BY <1>2, <1>4, LimitsAssumption DEF IInv, TypeOK, Tools, Traced, WriterWrites
<1>6. Handover' BY <1>2, LimitsAssumption DEF IInv, Handover, Drained, WriterWrites
<1> QED BY <1>4, <1>5, <1>6 DEF IInv

\* A chunk has at least one entry and at most those there are.
LEMMA OneChunk ==
  ASSUME NEW k \in Nat \ {0}
  PROVE  Min({MaxBatch, k}) \in 1 .. k
<1>1. MaxBatch \in Nat \ {0} BY LimitsAssumption
<1>2. \E x \in {MaxBatch, k} : \A y \in {MaxBatch, k} : x <= y BY <1>1
<1>3. /\ Min({MaxBatch, k}) \in {MaxBatch, k}
      /\ \A y \in {MaxBatch, k} : Min({MaxBatch, k}) <= y
  BY <1>2 DEF Min
<1> QED BY <1>1, <1>3

\* A chunk of what is left is written, the rest stays.
LEMMA CleanupWritesKeeps ==
  ASSUME IInv, CleanupWrites
  PROVE  IInv'
<1> DEFINE n == Min({MaxBatch, Len(left)})
           b == SubSeq(left, 1, n)
<1>1. left \in Seq(EntriesOfLogs) /\ Len(left) \in Nat \ {0} /\ MaxBatch \in Nat \ {0}
  BY LimitsAssumption DEF IInv, TypeOK, CleanupWrites
<1>3. n \in 1 .. Len(left) BY <1>1, OneChunk
<1>4. Process(b) /\ left' = SubSeq(left, n + 1, Len(left)) BY DEF CleanupWrites
<1> HIDE DEF n
<1>5. /\ b \in Seq(EntriesOfLogs) /\ left' \in Seq(EntriesOfLogs)
      /\ \A e : e \in ToSet(left) <=> e \in ToSet(b) \/ e \in ToSet(left')
  BY <1>1, <1>3, <1>4, InParts
<1> HIDE DEF b
<1>6. /\ \A e : Waiting(e) => Waiting(e)' \/ e \in ToSet(b)
      /\ \A e : Waiting(e)' => Waiting(e)
      /\ \A e \in ToSet(b) : Waiting(e)
  BY <1>5 DEF Waiting, Drained, CleanupWrites
<1>7. /\ rows' \in [Logs -> {"none", "final", "stale"}] /\ counted' \subseteq EntriesOfLogs
      /\ \A k \in Logs : Hooked(k)' /\ Swept(k)'
      /\ NoSilentLoss'
  BY <1>4, <1>5, <1>6, WritingKeeps DEF CleanupWrites
<1>8. TypeOK' BY <1>5, <1>7 DEF IInv, TypeOK, Tools, Traced, CleanupWrites
<1>9. Handover' BY DEF IInv, Handover, Drained, CleanupWrites
<1> QED BY <1>7, <1>8, <1>9 DEF IInv

\* What is not written before the deadline is counted.
LEMMA CleanupGivesUpKeeps ==
  ASSUME IInv, CleanupGivesUp
  PROVE  IInv'
<1>1. left \in Seq(EntriesOfLogs) BY DEF IInv, TypeOK
<1>2. ToSet(left) \subseteq EntriesOfLogs BY <1>1, InSequence
<1>3. left' \in Seq(EntriesOfLogs) /\ \A e : ~(e \in ToSet(left')) BY InNone DEF CleanupGivesUp
<1>4. TypeOK' BY <1>2, <1>3 DEF IInv, TypeOK, Tools, Traced, CleanupGivesUp
<1>5. Handover' BY DEF IInv, Handover, Drained, CleanupGivesUp
<1>6. /\ \A e : Waiting(e) => Waiting(e)' \/ e \in ToSet(left)
      /\ \A e : Waiting(e)' => Waiting(e)
  BY <1>3 DEF Waiting, Drained, CleanupGivesUp
<1>7. ASSUME NEW k \in Logs PROVE Hooked(k)' /\ Swept(k)'
  BY <1>6 DEF IInv, Hooked, Swept, Abandoned, Traced, CleanupGivesUp
<1>8. /\ \A e : Settled(e) => Settled(e)'
      /\ \A e \in ToSet(left) : Settled(e)'
  BY DEF Settled, CleanupGivesUp
<1>9. NoSilentLoss' BY <1>6, <1>8 DEF IInv, NoSilentLoss, Traced, CleanupGivesUp
<1> QED BY <1>4, <1>5, <1>7, <1>9 DEF IInv

-----------------------------------------------------------------------------
\* Nothing has been logged yet.
LEMMA Starts == Init => IInv
<1> SUFFICES ASSUME Init PROVE IInv OBVIOUS
<1>1. /\ queue \in Seq(EntriesOfLogs) /\ batch \in Seq(EntriesOfLogs) /\ left \in Seq(EntriesOfLogs)
      /\ Len(queue) = 0 /\ Len(batch) = 0 /\ \A e : ~Waiting(e)
  BY InNone DEF Init, Waiting, Drained
<1>2. TypeOK
  <2>1. Len(queue) <= QueueCap /\ Len(batch) <= MaxBatch BY <1>1, LimitsAssumption
  <2>2. pc \in [Logs -> {"new", "running", "append", "held", "built", "checked", "end", "never"}] BY DEF Init
  <2>3. deferred \in [Logs -> {"no", "receiving", "updating"}] BY DEF Init
  <2>4. rows \in [Logs -> {"none", "final", "stale"}] BY DEF Init
  <2>5. sweeper \in {Free, Gone} BY DEF Init
  <2> QED BY <1>1, <2>1, <2>2, <2>3, <2>4, <2>5 DEF Init, TypeOK
<1>3. ASSUME NEW l \in Logs PROVE Hooked(l) /\ Swept(l)
  BY <1>1, <1>3 DEF Init, Hooked, Swept, Abandoned, Free
<1>4. Handover BY <1>1, LimitsAssumption DEF Init, Handover, Drained
<1>5. NoSilentLoss BY DEF Init, NoSilentLoss
<1> QED BY <1>2, <1>3, <1>4, <1>5 DEF IInv

\* Every step of the hooks, the sweeper, the writer and Cleanup keeps the invariant.
LEMMA StepKeeps == IInv /\ [Next]_vars => IInv'
<1> SUFFICES ASSUME IInv, [Next]_vars PROVE IInv' OBVIOUS
<1>1. ASSUME NEW l \in Logs,
             \/ PreHook(l) \/ Chunk(l) \/ PostLLMHook(l) \/ PostLLMHookSkips(l)
             \/ PostMCPHook(l) \/ SendSteps(l) \/ DeferredUpdate(l)
      PROVE  IInv'
  BY <1>1, PreHookKeeps, ChunkKeeps, PostLLMHookKeeps, PostLLMHookSkipsKeeps, PostMCPHookKeeps,
     AppendEntryKeeps, CheckKeeps, EnqueueKeeps, DeferredUpdateKeeps DEF SendSteps
<1>2. CASE Inject \/ GrowOld \/ Judge \/ SweepTrace \/ SweeperSteps
  BY <1>2, InjectKeeps, GrowOldKeeps, JudgeKeeps, SweepTraceKeeps, SweepKeeps, SweeperSendsKeeps,
     SweeperEndsKeeps DEF SweeperSteps
<1>3. CASE TimerFires \/ WriterSteps
  BY <1>3, TimerFiresKeeps, WriterTakesKeeps, WriterTimerKeeps, WriterWritesKeeps, WriterEndsKeeps
  DEF WriterSteps
<1>4. CASE CleanupBegins \/ CleanupSteps
  BY <1>4, CleanupBeginsKeeps, CleanupClosesKeeps, CleanupCancelsKeeps, CleanupTakesKeeps,
     CleanupWritesKeeps, CleanupGivesUpKeeps, CleanupShutsKeeps, CleanupReturnsNowKeeps
  DEF CleanupSteps
<1>5. CASE UNCHANGED vars
  <2>1. TypeOK' BY <1>5 DEF vars, IInv, TypeOK, Tools, Traced
  <2>2. ASSUME NEW l \in Logs PROVE Hooked(l)' /\ Swept(l)'
    BY <1>5 DEF vars, IInv, Hooked, Swept, Abandoned, Waiting, Drained, Traced
  <2>3. Handover' /\ NoSilentLoss'
    BY <1>5 DEF vars, IInv, Handover, NoSilentLoss, Waiting, Drained, Settled, Traced
  <2> QED BY <2>1, <2>2, <2>3 DEF IInv
<1> QED BY <1>1, <1>2, <1>3, <1>4, <1>5 DEF Next

\* The invariant holds in every behaviour.
LEMMA Invariance == Spec => []IInv
  BY Starts, StepKeeps, PTL DEF Spec

-----------------------------------------------------------------------------
\* Whatever the number of logs and the limits, the plugin's state is well formed,
\* and the queue and the batch never hold more than they may.
\* (writer.go:64-127, 270-301)
THEOREM TypeCorrect == Spec => []TypeOK
<1>1. IInv => TypeOK BY DEF IInv
<1> QED BY <1>1, Invariance, PTL

\* What the queue has accepted is always waiting for somebody who will take it,
\* written or counted, through the handover to Cleanup too; before Cleanup begins so
\* is every ended log, but for those the sweeper took and those that came to the
\* trace's record too late; and a tool whose post-hook found its data is never
\* recorded as abandoned.  (writer.go:131-294, main.go:1284-1318, 1323-1372)
THEOREM EveryLogAccounted == Spec => []LogsAccounted
<1>1. IInv => LogsAccounted
  <2> SUFFICES ASSUME IInv PROVE LogsAccounted OBVIOUS
  <2>1. ASSUME NEW l \in finished PROVE rows[l] # "stale"
    <3>1. l \in Logs BY DEF IInv, TypeOK, Tools
    <3> QED BY <3>1 DEF IInv, Swept, Abandoned
  <2> QED BY <2>1 DEF IInv, LogsAccounted, ToolRowIsTrue
<1> QED BY <1>1, Invariance, PTL

\* No row is inserted once Cleanup has closed the queue: the writer is gone and
\* nothing is left to drain.  (main.go:1256-1266, 1284-1318)
THEOREM NoRowAfterCleanup == Spec => QuietAfterCleanup
<1>1. IInv /\ [Next]_vars => [shut => UNCHANGED rows]_rows
  <2> SUFFICES ASSUME IInv, [Next]_vars, shut PROVE UNCHANGED rows OBVIOUS
  <2>1. writer = "gone" /\ cleanup \in {"waiting", "returned"} BY DEF IInv, Handover, Drained
  <2>2. ~WriterWrites /\ ~CleanupWrites BY <2>1 DEF WriterWrites, CleanupWrites
  <2>3. ASSUME NEW l \in Logs,
               \/ PreHook(l) \/ Chunk(l) \/ PostLLMHook(l) \/ PostLLMHookSkips(l)
               \/ PostMCPHook(l) \/ SendSteps(l) \/ DeferredUpdate(l)
        PROVE  UNCHANGED rows
    BY <2>3
      DEF PreHook, Chunk, PostLLMHook, PostLLMHookSkips, PostMCPHook, SendSteps, AppendEntry,
          Check, Enqueue,
                DeferredUpdate
  <2>4. CASE Inject \/ GrowOld \/ Judge \/ SweepTrace \/ SweeperSteps
    BY <2>4 DEF Inject, GrowOld, Judge, SweepTrace, SweeperSteps, Sweep, SweeperSends, SweeperEnds
  <2>5. CASE TimerFires \/ WriterSteps
    BY <2>2, <2>5 DEF TimerFires, WriterSteps, WriterTakes, WriterTimer, WriterEnds
  <2>6. CASE CleanupBegins \/ CleanupSteps
    BY <2>2, <2>6 DEF CleanupBegins, CleanupSteps, CleanupCloses, CleanupCancels, CleanupTakes,
                      CleanupGivesUp, CleanupShuts, CleanupReturnsNow
  <2>7. CASE UNCHANGED vars BY <2>7 DEF vars
  <2> QED BY <2>3, <2>4, <2>5, <2>6, <2>7 DEF Next
<1> QED BY <1>1, Invariance, PTL DEF Spec, QuietAfterCleanup

-----------------------------------------------------------------------------
\* Where Cleanup is.
Stage == CASE cleanup = "no" -> 0 [] cleanup = "begun" -> 1 [] cleanup = "closed" -> 2
           [] cleanup = "cancelled" -> 3 [] cleanup = "draining" -> 4
           [] cleanup = "waiting" -> 5 [] OTHER -> 6

\* A step of Cleanup takes it to a later stage or shortens what it drains.
Onward ==
  \/ UNCHANGED <<cleanup, left>>
  \/ Stage' > Stage
  \/ Stage' = Stage /\ Len(left') < Len(left)

\* Once Cleanup has closed the queue nobody is going to take anything any more, and
\* every entry accepted before it took the queue over is written or counted.  (An
\* entry sent behind its last drain is neither.)  (main.go:1256-1318)
THEOREM SettledAtShut == Spec => [](shut => \A e \in accepted : Settled(e))
<1>1. IInv => (shut => \A e \in accepted : Settled(e))
  <2> SUFFICES ASSUME IInv, shut, NEW e \in accepted PROVE Settled(e) OBVIOUS
  <2>1. Drained /\ left = << >> BY DEF IInv, Handover, Drained
  <2>2. ~Waiting(e) BY <2>1, InNone DEF Waiting
  <2>3. Waiting(e) \/ Settled(e) BY DEF IInv, NoSilentLoss
  <2> QED BY <2>2, <2>3
<1> QED BY <1>1, Invariance, PTL

\* No step takes Cleanup back: it passes each stage once, and what it drains only
\* gets shorter, whatever producers, the writer and the sweeper do meanwhile.
\* What CleanupReturns needs beyond it is that the goroutines it waits for are
\* scheduled.  (main.go:1243-1318)
THEOREM CleanupNeverBack == Spec => [][Onward]_vars
<1>1. ASSUME IInv, [Next]_vars PROVE Onward \/ UNCHANGED vars
  <2>1. CASE \E l \in Logs : \/ PreHook(l) \/ Chunk(l) \/ PostLLMHook(l) \/ PostLLMHookSkips(l)
                             \/ PostMCPHook(l) \/ SendSteps(l) \/ DeferredUpdate(l)
    BY <2>1
      DEF Onward, PreHook, Chunk, PostLLMHook, PostLLMHookSkips, PostMCPHook, SendSteps,
          AppendEntry, Check,
                Enqueue, DeferredUpdate
  <2>2. CASE Inject \/ GrowOld \/ Judge \/ SweepTrace \/ SweeperSteps
    BY <2>2
      DEF Onward, Inject, GrowOld, Judge, SweepTrace, SweeperSteps, Sweep, SweeperSends, SweeperEnds
  <2>3. CASE TimerFires \/ WriterSteps
    BY <2>3 DEF Onward, TimerFires, WriterSteps, WriterTakes, WriterTimer, WriterWrites, WriterEnds
  <2>4. CASE \/ CleanupBegins \/ CleanupCloses \/ CleanupCancels \/ CleanupTakes \/ CleanupShuts
             \/ CleanupReturnsNow
    BY <2>4
      DEF Onward, Stage, CleanupBegins, CleanupCloses, CleanupCancels, CleanupTakes, CleanupShuts,
                CleanupReturnsNow
  <2>5. CASE CleanupGivesUp
    <3>1. Len(left) \in Nat \ {0} /\ Len(left') = 0
      BY <1>1, <2>5 DEF IInv, TypeOK, CleanupGivesUp
    <3>2. cleanup' = cleanup BY <2>5 DEF CleanupGivesUp
    <3> QED BY <3>1, <3>2 DEF Onward, Stage
  <2>6. CASE CleanupWrites
    <3> DEFINE n == Min({MaxBatch, Len(left)})
    <3>1. left \in Seq(EntriesOfLogs) /\ Len(left) \in Nat \ {0}
      BY <1>1, <2>6 DEF IInv, TypeOK, CleanupWrites
    <3>2. n \in 1 .. Len(left) BY <3>1, OneChunk
    <3>3. left' = SubSeq(left, n + 1, Len(left)) /\ cleanup' = cleanup BY <2>6 DEF CleanupWrites
    <3> HIDE DEF n
    <3>4. Len(left') < Len(left) BY <3>1, <3>2, <3>3
    <3> QED BY <3>3, <3>4 DEF Onward, Stage
  <2>7. CASE UNCHANGED vars BY <2>7
  <2> QED BY <1>1, <2>1, <2>2, <2>3, <2>4, <2>5, <2>6, <2>7 DEF Next, CleanupSteps
<1>2. IInv /\ [Next]_vars => [Onward]_vars BY <1>1
<1> QED BY <1>2, Invariance, PTL DEF Spec
=============================================================================
