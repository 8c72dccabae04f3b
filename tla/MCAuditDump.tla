---------------------------- MODULE MCAuditDump ----------------------------
(* Small instances of AuditDump for TLC. *)
EXTENDS AuditDump, TLC

CONSTANTS a, b, c, s1, s2, ok, failed, absent

MCItems == {a, b, c}
MCChunks == {{a, b}, {c}}
MCOneChunk == {{a, b}}
MCPairs == {a, b}
MCStatuses == {ok, failed}
Swap == Permutations(MCPairs)
OneSample == {s1}
TwoSamples == {s1, s2}
=============================================================================
