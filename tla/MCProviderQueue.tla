--------------------------- MODULE MCProviderQueue ---------------------------
(* Small instances of ProviderQueue for TLC. *)
EXTENDS ProviderQueue, TLC

CONSTANTS r1, r2, r3, s1, s2

TwoRequests   == {r1, r2}
ThreeRequests == {r1, r2, r3}
JustR1 == {r1}
JustR2 == {r2}
Nobody == {}
OneSlot  == {s1}
TwoSlots == {s1, s2}

(* Safety runs in which the requests, or the workers of a generation, are  *)
(* interchangeable.                                                        *)
Interchangeable == Permutations(ThreeRequests)
EqualWorkers    == Permutations(TwoSlots)

(* The second generation of the update runs is smaller than the first, so  *)
(* that a transfer can find the new queue full; with Three, it can then    *)
(* still have messages left.                                               *)
Shrinking == <<2, 1>>
Three     == <<3, 1, 1>>

(* Bound: there is a third generation, or a third request.                 *)
ThirdOfOne == last < 3 \/ \E r \in ThreeRequests : pc[r] = "start"

(* Bound: no behaviour has both a removal and a shutdown.                  *)
Apart == remPc = "idle" \/ shutPc = "idle"

(* Bound: no behaviour has all three of a cancellation, a removal and an   *)
(* update that got as far as to retire a queue.                            *)
TwoOfThree ==
    \/ ~ctxDone[r1]
    \/ remPc = "idle"
    \/ updPc = "idle" /\ \A g \in Gens : sweep[g] = "none"
=============================================================================
