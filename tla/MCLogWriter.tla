--------------------------- MODULE MCLogWriter ---------------------------
(* Instances of LogWriter for TLC: two logs of the two pairs of kinds  *)
(* that meet every part of the code.                                   *)
EXTENDS LogWriter, TLC

CONSTANTS l1, l2

MCKinds == {(l1 :> "traced") @@ (l2 :> "traced"), (l1 :> "direct") @@ (l2 :> "tool")}

\* The two attempts of the trace are interchangeable, and l1 begins first; usage
\* updates are scheduled for them only.
OneOfEach ==
  /\ Traced = Logs /\ pc[l1] \in {"new", "never"} => pc[l2] \in {"new", "never"}
  /\ Traced = {} => \A l \in Logs : deferred[l] = "no"
===========================================================================
