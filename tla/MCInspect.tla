----------------------------- MODULE MCInspect -----------------------------
(* A small instance of Inspect for TLC. *)
EXTENDS Inspect, TLC

CONSTANTS a, b, s1, ok, failed, absent

MCItems == {a, b}
MCChunks == {{a, b}}
MCSamples == {s1}
MCStatuses == {ok, failed}
Swap == Permutations(MCItems)
=============================================================================
