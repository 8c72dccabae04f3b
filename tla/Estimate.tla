------------------------------ MODULE Estimate ------------------------------
(***************************************************************************)
(* The cost estimate (ssat/core/estimate).  It sends a few samples and     *)
(* pending chunks through the generators of a run: Samples and Chunks of   *)
(* Runtime are those it selected, record holds the outcomes it counts, and *)
(* the batch size is shared by both passes.  A run that nobody cancelled   *)
(* and that does not fail fast is a measurement; from it the cost of what  *)
(* is pending is extrapolated, compared with limits and turned into advice.*)
(***************************************************************************)
EXTENDS Runtime, FiniteSetsExt, Functions, Rounding

CONSTANTS
    Verdict,    \* of a clean output, for each sample: see Verdicts
    Width,      \* how many logits an output has, for each sample and item
    Bytes,      \* of the prepared array and mask of each item
    Situations, \* what is planned and pending, and the options
    Absence     \* no value

VARIABLE calls  \* history: calls of the adapter in each phase, or Absence
measuring == <<vars, calls>>

Verdicts == {"correct", "wrong", "unlabeled", "invalid_label", "invalid_logits"}
Outcomes == {"yes", "no", "unchecked"}
Kinds == {"pending_items", "estimated_seconds", "remaining_dump_bytes"}

Positive(n) == n \in Nat \ {0}
LimitsOK(limits) ==
    DOMAIN limits = Kinds /\ \A kind \in Kinds : limits[kind] = Absence \/ Positive(limits[kind])
AssumptionsOK(p) ==
    /\ Positive(p.float_bytes) /\ p.compression_percent \in 1..100
    /\ {p.clean_overhead, p.perturbed_overhead, p.manifest_bytes} \subseteq Nat
OptionsOK(p) ==
    /\ LimitsOK(p.limits) /\ AssumptionsOK(p) /\ Positive(p.budget)
    /\ Positive(p.area.max_regions) /\ p.area.tolerance \in Nat
    /\ p.minimum_accuracy = Absence \/ p.minimum_accuracy \in 0..100

\* what the area check is given: samples, and the items of each
AreaOK(g) ==
    /\ g.available \in BOOLEAN /\ g.samples \in Seq(Elements(g.samples))
    /\ \A s \in Elements(g.samples) :
          /\ s.loads \in BOOLEAN /\ s.items \in Seq(Elements(s.items))
          /\ \A x \in Elements(s.items) : x.areas = Absence \/ x.areas \in Nat \X Nat
Fields == {"total_samples", "pending_samples", "total_items", "pending_items", "class_names",
           "elapsed", "limits", "minimum_accuracy", "budget", "variants", "float_bytes",
           "clean_overhead", "perturbed_overhead", "compression_percent", "manifest_bytes", "area"}
\* chunks are as long as the number of variants in one allows
SituationOK(p) ==
    /\ DOMAIN p = Fields /\ OptionsOK(p) /\ AreaOK(p.area)
    /\ Positive(p.elapsed.clean) /\ Positive(p.elapsed.perturbed)
    /\ {p.total_samples, p.pending_samples, p.total_items, p.pending_items} \subseteq Nat
    /\ p.pending_samples <= p.total_samples /\ p.pending_items <= p.total_items
    /\ p.class_names \in Nat \cup {Absence}
    /\ Positive(p.variants) /\ \A c \in Elements(Chunks) : Len(c) <= p.variants

\* both passes have something to measure (the code leaves out the one that
\* has nothing pending)
ASSUME EstimateAssumption ==
    /\ Clean # {} /\ Perturbed # {} /\ Absence \notin Nat
    /\ \A s \in Clean : Verdict[s] \in Verdicts
    /\ (\A w \in Work : Width[w] \in Nat) /\ \A w \in Perturbed : Bytes[w] \in Nat
    /\ \A p \in Situations : SituationOK(p)

SanityResults == [terminal: Nat, widths: SUBSET Nat, status_counts: [Statuses -> Nat],
                  successful: Nat, labeled: Nat, correct: Nat, unlabeled: Nat,
                  invalid_label: Nat, invalid_logits: Nat, passed: Outcomes]
ProfileResults == [terminal: Nat, successful: Nat, widths: SUBSET Nat, max_chunk: Nat, max_item: Nat]
AreaResults == [passed: Outcomes, candidates: Nat, truncated: BOOLEAN]
EstimateReports ==
    [inference_calls: Nat, seconds: Nat \X (Nat \ {0}), remaining_bytes: Nat,
     total_bytes: Nat \cup {Absence}, exceedances: SUBSET Kinds,
     fraction: (Nat \X (Nat \ {0})) \cup {Absence}, variants: (Nat \ {0}) \cup {Absence},
     memory_high: BOOLEAN, confirmation_required: BOOLEAN]

-----------------------------------------------------------------------------
(* Measuring.  BOUND: calls are counted where they matter.                 *)

Measurable == ~token /\ ~fail_fast /\ calls # Absence

\* every answer, also of a part of a split batch, is a call of its own
CountedAnswer ==
    /\ Answer
    /\ calls' = IF Measurable THEN [calls EXCEPT ![phase] = @ + 1] ELSE calls
\* an error of the splitter itself ends the estimate
Abort == CleanupRaises /\ calls' = Absence

MeasureInit == Init /\ calls = [clean |-> 0, perturbed |-> 0]
MeasureNext == \/ CountedAnswer \/ Abort
               \/ (Advance \/ Disturb) /\ UNCHANGED calls
MeasureSpec == MeasureInit /\ [][MeasureNext]_measuring /\ WF_vars(Proceed)

-----------------------------------------------------------------------------
\* positions of at most limit of n values, spread from the first to the last
SelectEvenly(n, limit) ==
    IF n <= limit THEN [k \in 1..n |-> k]
    ELSE IF limit = 1 THEN <<(n - 1) \div 2 + 1>>
    ELSE [k \in 1..limit |-> HalfEven((k - 1) * (n - 1), limit - 1) + 1]

Answered(W) == {w \in W : record[w] = "ok"}
StatusCounts(W) == [s \in Statuses |-> Cardinality({w \in W : record[w] = s})]

Sanity(p) ==
    LET valid == {s \in Answered(Clean) : Verdict[s] # "invalid_logits"}
        given(v) == Cardinality({s \in valid : Verdict[s] \in v})
        labeled == given({"correct", "wrong"})
        correct == given({"correct"}) IN
    [terminal |-> Cardinality(Clean), widths |-> {Width[s] : s \in valid},
     status_counts |-> StatusCounts(Clean), successful |-> Cardinality(valid),
     labeled |-> labeled, correct |-> correct, unlabeled |-> given({"unlabeled"}),
     invalid_label |-> given({"invalid_label"}),
     invalid_logits |-> Cardinality(Answered(Clean) \ valid),
     passed |-> IF p.minimum_accuracy = Absence THEN "unchecked"
                ELSE IF labeled > 0 /\ 100 * correct >= p.minimum_accuracy * labeled
                THEN "yes" ELSE "no"]

\* What the workers prepared is measured before the adapter is asked for the
\* masks; the items that failed did so in the workers, or later.
PreparedItems(c, later) ==
    {w \in Elements(c) : record[w] \notin {"load_failed"} \cup IF later THEN {} ELSE {"prepare_failed"}}
ChunkBytes(S) == SumFunctionOnSet(Bytes, S)

Profile(later) ==
    LET prepared == {PreparedItems(c, later) : c \in Elements(Chunks)} IN
    [terminal |-> Cardinality(Perturbed), successful |-> Cardinality(Answered(Perturbed)),
     widths |-> {Width[w] : w \in Answered(Perturbed)},
     max_chunk |-> Max({ChunkBytes(S) : S \in prepared}),
     max_item |-> Max({0} \cup {Bytes[w] : w \in UNION prepared})]

-----------------------------------------------------------------------------
(* The area check: for each sample, whether it loads, and the items of its *)
(* chunks: the key of a geometry, and its areas (per mille) or Absence.    *)

\* where the first item of each geometry is
Deduplicated(items) ==
    Those([k \in DOMAIN items |-> k],
          {k \in DOMAIN items : \A j \in 1..(k - 1) : items[j].key # items[k].key})
Evaluable(x) == x.areas # Absence
Deviates(areas, tolerance) ==
    IF areas[1] = 0 THEN areas[2] # 0
    ELSE LET drift == areas[2] - areas[1] IN
         1000 * (IF drift < 0 THEN -drift ELSE drift) > tolerance * areas[1]

ChosenItems(s, limit) ==
    LET unique == Deduplicated(s.items) IN
    {s.items[unique[k]] : k \in Elements(SelectEvenly(Len(unique), limit))}
AreaFailures(s, g) ==
    {x \in ChosenItems(s, g.max_regions) :
        s.loads => ~Evaluable(x) \/ Deviates(x.areas, g.tolerance)}

AreaSanity(g) ==
    LET failed == SumFunction([k \in DOMAIN g.samples |-> Cardinality(AreaFailures(g.samples[k], g))]) IN
    [passed |-> IF ~g.available THEN "unchecked" ELSE IF failed = 0 THEN "yes" ELSE "no",
     candidates |-> SumFunction([k \in DOMAIN g.samples |-> Len(Deduplicated(g.samples[k].items))]),
     truncated |-> \E k \in DOMAIN g.samples :
                      Len(Deduplicated(g.samples[k].items)) > g.max_regions]

-----------------------------------------------------------------------------
(* build_estimate_report.  Seconds are <<numerator, denominator>>.         *)

NoPending(p) == p.pending_samples = 0 /\ p.pending_items = 0
Observed(p, sanity, profile) ==
    (IF p.class_names = Absence THEN {} ELSE {p.class_names})
    \cup (IF NoPending(p) THEN {} ELSE sanity.widths)
    \cup (IF p.pending_items = 0 THEN {} ELSE profile.widths)

\* the passes raise on outputs that differ, and a profile without an output
EstimationError(p, sanity, profile) ==
    LET observed == Observed(p, sanity, profile) IN
    \/ calls = Absence
    \/ Cardinality(observed) > 1
    \/ ~NoPending(p) /\ observed = {}
    \/ p.pending_items > 0 /\ profile.successful = 0

DumpBytes(clean, perturbed, classes, p) ==
    LET logits == p.float_bytes * classes IN
    Ceiling(p.compression_percent
              * (clean * (logits + p.clean_overhead) + perturbed * (logits + p.perturbed_overhead)),
            100)

Extrapolated(measured, pending, terminal) ==
    IF pending = 0 THEN 0 ELSE Ceiling(measured * pending, terminal)
EstimatedSeconds(p, sanity, profile) ==
    LET clean == p.pending_samples * p.elapsed.clean
        perturbed == p.pending_items * p.elapsed.perturbed IN
    <<clean * profile.terminal + perturbed * sanity.terminal, sanity.terminal * profile.terminal>>

\* what is compared with each limit, times the denominator of the seconds
Estimates(p, seconds, bytes) ==
    [pending_items |-> p.pending_items * seconds[2], estimated_seconds |-> seconds[1],
     remaining_dump_bytes |-> bytes * seconds[2]]
Exceedances(p, estimates, unit) ==
    {kind \in DOMAIN estimates : /\ p.limits[kind] # Absence
                                 /\ estimates[kind] > p.limits[kind] * unit}

\* the smallest of the allowed fractions, all of which are below 1
Binding(p, estimates, exceeded) ==
    CHOOSE kind \in exceeded : \A other \in exceeded :
        p.limits[kind] * estimates[other] <= p.limits[other] * estimates[kind]

\* faulty: the chunk is compared with the number of items it may have
RecommendedByChunk(p, profile) ==
    IF profile.max_chunk <= p.budget THEN Absence
    ELSE LET capacity == Max({1, (p.variants * p.budget) \div profile.max_chunk}) IN
         IF capacity < p.variants THEN capacity ELSE Absence
RecommendedVariants(p, profile) ==
    IF profile.max_chunk <= p.budget \/ profile.max_item = 0 THEN Absence
    ELSE LET capacity == Max({1, p.budget \div profile.max_item}) IN
         IF capacity < p.variants THEN capacity ELSE Absence

\* without pending work nothing was measured
Report(p, sanity, profile, area) ==
    LET observed == Observed(p, sanity, profile)
        bytes(clean, perturbed) ==
          DumpBytes(clean, perturbed, CHOOSE n \in observed : TRUE, p)
        remaining == IF NoPending(p) THEN 0 ELSE bytes(p.pending_samples, p.pending_items)
        seconds == EstimatedSeconds(p, sanity, profile)
        estimates == Estimates(p, seconds, remaining)
        exceeded == Exceedances(p, estimates, seconds[2])
        profiled == p.pending_items > 0 IN
    [inference_calls |-> Extrapolated(calls.clean, p.pending_samples, sanity.terminal)
                         + Extrapolated(calls.perturbed, p.pending_items, profile.terminal),
     seconds |-> seconds, remaining_bytes |-> remaining,
     total_bytes |-> IF observed = {} THEN Absence
                     ELSE p.manifest_bytes + bytes(p.total_samples, p.total_items),
     exceedances |-> exceeded,
     fraction |-> IF exceeded = {} THEN Absence
                  ELSE LET kind == Binding(p, estimates, exceeded) IN
                       <<p.limits[kind] * seconds[2], estimates[kind]>>,
     variants |-> IF profiled THEN RecommendedVariants(p, profile) ELSE Absence,
     memory_high |-> profiled /\ profile.max_chunk > p.budget,
     confirmation_required |->
        \/ exceeded # {}
        \/ (~NoPending(p) /\ "no" \in {sanity.passed, area.passed})]

-----------------------------------------------------------------------------
(* Properties.                                                             *)

Measured == pc = "completed" /\ Measurable

\* Values are selected once each, in order, as many as allowed, with both ends.
SelectionsAreSpread ==
    \A n \in 1..12, limit \in 1..6 :
        LET s == SelectEvenly(n, limit) IN
        /\ Len(s) = Smaller(n, limit) /\ Elements(s) \subseteq 1..n
        /\ \A j, k \in DOMAIN s : j < k => s[j] < s[k]
        /\ limit > 1 => s[1] = 1 /\ s[Len(s)] = n

\* An area check that passed without being truncated has seen, for every item
\* of the samples it selected, an item of the same region within the tolerance.
PassedAreasAreKept ==
    \A p \in Situations :
        AreaSanity(p.area).passed = "yes" /\ ~AreaSanity(p.area).truncated =>
        \A s \in Elements(p.area.samples) : \A x \in Elements(s.items) :
            /\ s.loads
            /\ \E y \in Elements(s.items) :
                  y.key = x.key /\ y.areas # Absence /\ ~Deviates(y.areas, p.area.tolerance)

\* Every selected sample and item has one outcome, and so has every label.
OutcomesAreCounted ==
    Measured =>
    LET sanity == Sanity([minimum_accuracy |-> Absence]) IN
    /\ SumFunction(sanity.status_counts) = sanity.terminal
    /\ SumFunction(StatusCounts(Perturbed)) = Cardinality(Perturbed)
    /\ sanity.labeled + sanity.unlabeled + sanity.invalid_label = sanity.successful

\* However batches are split, a phase in which n samples or items reach the
\* model costs at least one call for each full batch, and at most 2n - 1.
Reached(W) == {w \in W : record[w] \notin {"load_failed", "prepare_failed"}}
CallsBounded(n, reached) ==
    /\ n * InitialBatchSize >= reached
    /\ IF reached = 0 THEN n = 0 ELSE n <= 2 * reached - 1
CallsAreBounded ==
    Measured => /\ CallsBounded(calls.clean, Cardinality(Reached(Clean)))
                /\ CallsBounded(calls.perturbed, Cardinality(Reached(Perturbed)))

\* The fraction of the samples that is advised, if they have equally many
\* items, is within every limit; the advised size of chunks is within the
\* budget, unless a single item is not; and there is such advice whenever a
\* chunk of more than one item needs too much.
AdviceFits(p, sanity, profile, report) ==
    /\ report.fraction # Absence =>
         LET kept(n) == (n * report.fraction[1]) \div report.fraction[2]
             part == [p EXCEPT !.pending_samples = kept(@), !.pending_items = kept(@)] IN
         /\ kept(1) = 0
         /\ \/ NoPending(part) \/ EstimationError(part, sanity, profile)
            \/ Report(part, sanity, profile, [passed |-> "yes"]).exceedances = {}
    /\ report.variants # Absence =>
         /\ report.variants \in 1..(p.variants - 1)
         /\ report.variants * profile.max_item <= p.budget \/ report.variants = 1
    /\ report.memory_high /\ p.variants > 1 => report.variants # Absence

\* Nothing is estimated for what is done, and never more for less.
LessCostsNoMore(p, sanity, profile, report) ==
    /\ NoPending(p) => /\ report.inference_calls = 0 /\ report.remaining_bytes = 0
                       /\ report.seconds[1] = 0 /\ ~report.confirmation_required
    /\ report.total_bytes # Absence => report.remaining_bytes <= report.total_bytes
    /\ p.pending_items > 1 =>
         LET less == Report([p EXCEPT !.pending_items = @ - 1], sanity, profile, [passed |-> "yes"]) IN
         /\ less.inference_calls <= report.inference_calls
         /\ less.seconds[1] <= report.seconds[1] /\ less.remaining_bytes <= report.remaining_bytes
         /\ less.confirmation_required => report.confirmation_required

\* What prepare_run shows before a run: samples and regions that stand for
\* all of them, complete measurements, and advice that is enough if taken.
EstimateIsSound ==
    /\ SelectionsAreSpread /\ PassedAreasAreKept /\ OutcomesAreCounted /\ CallsAreBounded
    /\ Measured => \A p \in Situations, later \in BOOLEAN :
         LET sanity == Sanity(p)
             profile == Profile(later)
             area == AreaSanity(p.area)
             report == Report(p, sanity, profile, area) IN
         ~EstimationError(p, sanity, profile) =>
            /\ sanity \in SanityResults /\ profile \in ProfileResults
            /\ area \in AreaResults /\ report \in EstimateReports
            /\ AdviceFits(p, sanity, profile, report)
            /\ LessCostsNoMore(p, sanity, profile, report)
=============================================================================
