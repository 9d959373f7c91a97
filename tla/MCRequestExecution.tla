-------------------------- MODULE MCRequestExecution --------------------------
(* Small instances of RequestExecution for TLC. *)
EXTENDS RequestExecution

CONSTANTS k1, k2, k3, k4

AllKeys     == {k1, k2, k3, k4}

(* Three keys that rotate, then a keyless provider, then one whose only    *)
(* key the primary may have used and excluded.                             *)
RotateAndFallBack == <<{k1, k2, k3}, {}, {k2}>>

(* The key of the primary alone, and one that no provider has.             *)
SomePins    == {NoKey, k1, k4}
=============================================================================
