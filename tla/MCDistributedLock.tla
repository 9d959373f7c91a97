-------------------------- MODULE MCDistributedLock --------------------------
(* A small instance of DistributedLock for TLC. *)
EXTENDS DistributedLock

CONSTANTS h1, h2

TwoHolders == {h1, h2}
=============================================================================
