----------------------------- MODULE MCRuntime -----------------------------
(* Small instances of Runtime, with the estimate that measures it, for TLC. *)
EXTENDS Estimate, TLC

CONSTANTS s1, s2, a, b, c, e, absent, noLimit, absence

TwoSamples == <<s1, s2>>
\* the last chunk is of a sample of another shape
ThreeChunks == <<<<a, b>>, <<c>>, <<e>>>>
Shapes == [w \in Work |-> IF w = e THEN "tall" ELSE "wide"]

MCVerdict == (s1 :> "correct") @@ (s2 :> "invalid_label")
MCWidth == [w \in Work |-> 2]
MCBytes == [w \in Perturbed |-> IF w = e THEN 5 ELSE 2]

\* region 1 twice, and a region that the preprocessing cuts
Area(loads, far, max) ==
    [available |-> TRUE, max_regions |-> max, tolerance |-> 50,
     samples |-> <<[loads |-> TRUE, items |-> <<[key |-> 1, areas |-> <<500, 510>>],
                                                [key |-> 1, areas |-> <<500, 400>>]>>],
                   [loads |-> loads, items |-> <<[key |-> 2, areas |-> <<0, 0>>],
                                                 [key |-> 3, areas |-> far]>>]>>]
NoLimits == [pending_items |-> absence, estimated_seconds |-> absence, remaining_dump_bytes |-> absence]
\* the whole audit, of ten samples with four items each
Whole ==
    [total_samples |-> 10, pending_samples |-> 10, total_items |-> 40, pending_items |-> 40,
     class_names |-> 2, elapsed |-> [clean |-> 1, perturbed |-> 2], limits |-> NoLimits,
     minimum_accuracy |-> absence, budget |-> 6, variants |-> 3, float_bytes |-> 4,
     clean_overhead |-> 8, perturbed_overhead |-> 30, compression_percent |-> 60,
     manifest_bytes |-> 16, area |-> Area(TRUE, <<400, 420>>, 2)]
MCSituations ==
    {[Whole EXCEPT !.limits.pending_items = 13, !.area = Area(TRUE, <<400, 421>>, 2)],
     [Whole EXCEPT !.limits.estimated_seconds = 7, !.limits.remaining_dump_bytes = 101,
                   !.budget = 5, !.area = Area(FALSE, <<400, 420>>, 1)],
     [Whole EXCEPT !.pending_items = 0, !.class_names = absence, !.minimum_accuracy = 50],
     [Whole EXCEPT !.pending_samples = 0, !.pending_items = 7, !.budget = 3,
                   !.area = [Area(TRUE, absence, 2) EXCEPT !.available = FALSE]],
     [Whole EXCEPT !.pending_samples = 0, !.pending_items = 0, !.class_names = absence],
     [Whole EXCEPT !.class_names = 3, !.area = Area(TRUE, absence, 2)]}
=============================================================================
