--------------------------- MODULE MCStoreClients ---------------------------
(* Instances of StoreClients for TLC. *)
EXTENDS StoreClients, TLC

CONSTANTS n1, n2, r1, r2, r3, r4, r5, k1, k2, k3

MCNodes == {n1, n2}
MCHome == (r1 :> n1) @@ (r2 :> n1) @@ (r3 :> n2) @@ (r4 :> n2) @@ (r5 :> n2)
MCValues == {k1, k2, k3}
\* The keys, and the records, are interchangeable, and so are the requests of n1.
MCSymmetry == Permutations(MCValues) \union Permutations({r1, r2})
Begun(R) == {r \in R : pc[r] # "start"}
Ticks == clock[n1] + clock[n2]
\* Bounds: one tick in all, so that the nodes agree or differ by one.  A session
\* has the requests r1, r2 and r3, and r3 only without a tick or without an upset;
\* an upload has three that take its record, of one node or of both, r4 before r5.
Bounded ==
  /\ Ticks < 2
  /\ usage = "session" => Begun({r4, r5}) = {} /\ (Ticks + upsets < 2 \/ Begun({r3}) = {})
  /\ usage = "upload" => /\ Cardinality(Begun({r1, r2, r4, r5})) <= 3
                         /\ Begun({r5}) # {} => Begun({r4}) # {}
=============================================================================
