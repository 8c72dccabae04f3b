------------------------------ MODULE WorkList ------------------------------
(***************************************************************************)
(* What one run of the audit promises about its pending work: every piece  *)
(* is recorded at most once, clean samples before perturbed items, and a   *)
(* run that completes has recorded all of it.  A run may stop at any time. *)
(* Runtime is shown to implement this; it is also what the recording phase *)
(* of AuditDump takes for granted (WriteClean, WritePerturbed, EndOfWork). *)
(***************************************************************************)
CONSTANTS Clean, Perturbed, Values, None

VARIABLES recorded, state
vars == <<recorded, state>>

Work == Clean \cup Perturbed

Init == recorded = [w \in Work |-> None] /\ state = "running"

Record(w, v) ==
    /\ state = "running" /\ recorded[w] = None
    /\ w \in Perturbed => \A s \in Clean : recorded[s] # None
    /\ recorded' = [recorded EXCEPT ![w] = v]
    /\ state' \in {"running", "stopped"}

Complete == /\ state = "running" /\ \A w \in Work : recorded[w] # None
            /\ state' = "completed" /\ UNCHANGED recorded

Stop == state = "running" /\ state' = "stopped" /\ UNCHANGED recorded

Next == (\E w \in Work, v \in Values : Record(w, v)) \/ Complete \/ Stop
Spec == Init /\ [][Next]_vars
=============================================================================
