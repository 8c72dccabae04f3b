----------------------------- MODULE MCSession -----------------------------
(* Small instances of Session for TLC. *)
EXTENDS Session, TLC

CONSTANTS alice, bob, p1, p2, q1, r1, nobody

\* two processes, the first with two callers of execute_run
TwoProcesses == {alice, bob}
ThreeThreads == {p1, p2, q1}
OwnerOfThree == (p1 :> alice) @@ (p2 :> alice) @@ (q1 :> bob)

\* one process, two callers of execute_run
OneProcess == {alice}
TwoThreads == {p1, p2}
OwnerBoth == (p1 :> alice) @@ (p2 :> alice)
SameThread == Permutations(TwoThreads)

OneRebuilder == {r1}

\* BOUND: one of the two inputs is edited
OneEdit == file["config"] + file["source"] <= 1
=============================================================================
