--------------------------- MODULE MCBudgetUsage ---------------------------
(* Instances of BudgetUsage for TLC: a call settled twice and one settled once. *)
EXTENDS BudgetUsage, TLC

CONSTANTS c1, c2, s1, s2, s3

MCCallOf == (s1 :> c1) @@ (s2 :> c1) @@ (s3 :> c2)
\* The two settlements of one call are interchangeable.
Twins == Permutations({s1, s2})
\* The process that has been restarted is not shut down.
OneEnd == crashes > 0 => cleanup = "no"
============================================================================
