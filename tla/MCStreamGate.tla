----------------------------- MODULE MCStreamGate -----------------------------
(* A small instance of StreamGate for TLC. *)
EXTENDS StreamGate

Either == {TRUE, FALSE}
=============================================================================
