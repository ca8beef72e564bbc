---------------------------- MODULE MCActivation ----------------------------
(* Activation for TLC: callers and PerfEvents are interchangeable. *)
EXTENDS Activation, TLC

CONSTANTS c1, c2, e1, e2

MCCallers == {c1, c2}
MCPerfEvents == {e1, e2}
MCSymmetry == Permutations(MCCallers) \cup Permutations(MCPerfEvents)
=============================================================================
