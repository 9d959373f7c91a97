---------------------------- MODULE MCMcpClients ----------------------------
(* Instances of McpClients for TLC: the boot and three more operations. *)
EXTENDS McpClients, TLC

CONSTANTS boot, t1, t2, t3

MCTasks == {boot, t1, t2, t3}
MCSymmetry == Permutations({t1, t2, t3})
=============================================================================
