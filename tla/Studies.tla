------------------------------ MODULE Studies ------------------------------
(***************************************************************************)
(* Studies of the verdicts (experiments/revision_1): the grades computed   *)
(* again from a feature table, with thresholds that can be varied (a1),    *)
(* and from the first k controls of each target (a2); and the tables of    *)
(* the two reference workflows (captum_baseline, imagenet_workflow), which *)
(* aggregate rows of their own.                                            *)
(*                                                                         *)
(* Each of them gates its results on agreeing with the stores of ssat: the *)
(* properties say that the gates open.                                     *)
(***************************************************************************)
EXTENDS Results

CONSTANT Settings   \* the settings of the sweep

-----------------------------------------------------------------------------
(* a1: one feature row per anchor, from four stored tables.                *)

\* levels of confidence, from the narrowest interval to the widest
CiLevels == <<"90", "95", "99", "999">>
Stored95 == 2

Defaults == [z_threshold |-> ZThreshold, sign_epsilon |-> 0, min_multi_strategy |-> 2,
             ci_level |-> Stored95, ddof |-> 0, std_floor |-> 0, zero_abstain |-> FALSE]

\* intervals are percentiles of the same means: one that excludes zero holds
\* every narrower one
ExcludedUpTo(excludes) == IF excludes THEN Stored95..Len(CiLevels) ELSE 0..(Stored95 - 1)

NoControls == [lead |-> 0, spread |-> 0, n |-> 0, available |-> FALSE]
ListedConditions(comparisons) == {x.condition : x \in comparisons}

\* the tables are joined with outer joins: what an anchor lacks is missing
FeatureRow(t, a) ==
    LET own(S) == {x \in S : x.anchor = a}
        compared(c) == {x \in own(t.controls) : x.condition = c} IN
    [anchor |-> a,
     op |-> IF own(t.strategies) = {} THEN <<>>
            ELSE (CHOOSE x \in own(t.strategies) : TRUE).strategy_values,
     cond |-> [c \in ListedConditions(t.controls) |->
                 IF compared(c) = {} THEN NoControls
                 ELSE LET x == CHOOSE y \in compared(c) : TRUE IN
                      [lead |-> x.lead, spread |-> x.spread, n |-> x.n_controls,
                       available |-> x.control_available = "true"]],
     excluded |-> IF a.region \notin DOMAIN t.excludes THEN None
                  ELSE IF t.excludes[a.region] THEN Stored95 ELSE Stored95 - 1]

Features(t) == {FeatureRow(t, a) : a \in {x.anchor : x \in t.strategies \cup t.controls}}

-----------------------------------------------------------------------------
(* The grade engine.  For n controls, lead is n times the excess of the    *)
(* target, and spread n^2 times their variance.                            *)

Evaluable(cond, p) ==
    {c \in DOMAIN cond : /\ cond[c].available /\ cond[c].n >= 2
                         /\ cond[c].spread # 0 \/ p.std_floor > 0}

\* faulty: the correction for the degrees of freedom is inverted
AboveThresholdInverted(x, p) ==
    LET z == p.z_threshold * p.z_threshold IN
    /\ x.lead > 0
    /\ x.lead * x.lead * x.n > z * x.spread * (x.n - p.ddof)
    /\ x.lead > p.z_threshold * x.n * p.std_floor

\* z > threshold, for the larger of the deviation and its floor
AboveThreshold(x, p) ==
    LET z == p.z_threshold * p.z_threshold IN
    /\ x.lead > 0
    /\ x.lead * x.lead * (x.n - p.ddof) > z * x.spread * x.n
    /\ x.lead > p.z_threshold * x.n * p.std_floor

\* the largest z exceeds the threshold if any does
ExceedsFlag(f, p) ==
    LET valid == Evaluable(f.cond, p) IN
    FlagOf(valid # {}, \E c \in valid : AboveThreshold(f.cond[c], p))

SignFlags(f, p) ==
    LET positive == Cardinality({o \in DOMAIN f.op : f.op[o] > p.sign_epsilon})
        negative == Cardinality({o \in DOMAIN f.op : f.op[o] < -p.sign_epsilon})
        present == Cardinality(DOMAIN f.op)
        zero == present - positive - negative
        dominant == IF p.zero_abstain THEN Max({positive, negative})
                    ELSE Max({positive, negative, zero})
        voting == IF p.zero_abstain THEN positive + negative ELSE present IN
    [sign_consistent |-> FlagOf(voting > 0, dominant = voting),
     multi_strategy |-> FlagOf(present > 0, dominant >= p.min_multi_strategy)]

CiFlag(f, p) == FlagOf(f.excluded # None, f.excluded >= p.ci_level)

EngineFlags(f, p) ==
    [sign_consistent |-> SignFlags(f, p).sign_consistent,
     exceeds_control |-> ExceedsFlag(f, p),
     multi_strategy |-> SignFlags(f, p).multi_strategy,
     ci_excludes_zero |-> CiFlag(f, p)]

\* the positions of the grades, from worst to best
GradeOrder == <<"unreliable", "low", "moderate", "high">>
CombineGrade(flags) ==
    LET core == <<flags.exceeds_control, flags.multi_strategy, flags.ci_excludes_zero>>
        count(value) == Cardinality({i \in DOMAIN core : core[i] = value}) IN
    CASE flags.sign_consistent = "false" -> 1
      [] flags.sign_consistent = "true" /\ count("true") = 3 -> 4
      [] flags.sign_consistent = "true" /\ count("true") \in {1, 2} /\ count("false") = 0 -> 3
      [] OTHER -> 2
GradeAnchor(f, p) == CombineGrade(EngineFlags(f, p))
GradeAnchors(features, p) == [a \in {f.anchor : f \in features} |->
    GradeAnchor(CHOOSE f \in features : f.anchor = a, p)]

-----------------------------------------------------------------------------
(* Agreement of two gradings of the same anchors.                          *)

TransitionMatrix(a, b) ==
    [ij \in (1..4) \X (1..4) |->
       Cardinality({x \in DOMAIN a \cap DOMAIN b : <<a[x], b[x]>> = ij})]

GradeAgreement(a, b) ==
    LET shared == DOMAIN a \cap DOMAIN b
        count(delta(_)) == Cardinality({x \in shared : delta(b[x] - a[x])}) IN
    [n |-> Cardinality(shared),
     unchanged |-> count(LAMBDA d : d = 0),
     delta_ge2 |-> count(LAMBDA d : d \notin -1..1),
     up |-> count(LAMBDA d : d > 0),
     down |-> count(LAMBDA d : d < 0)]

\* linear weights, in thirds; a pair <<numerator, denominator>>
WeightedKappa(a, b) ==
    LET matrix == TransitionMatrix(a, b)
        n == Cardinality(DOMAIN a \cap DOMAIN b)
        weight(ij) == 3 - Distance(ij[1], ij[2])
        share(f, g) == Cardinality({x \in DOMAIN a \cap DOMAIN b : f[x] = g})
        observed == n * Total(LAMBDA ij : weight(ij) * matrix[ij], DOMAIN matrix)
        expected == Total(LAMBDA ij : weight(ij) * share(a, ij[1]) * share(b, ij[2]),
                          DOMAIN matrix) IN
    IF expected = 3 * n * n THEN None ELSE <<observed - expected, 3 * n * n - expected>>

\* each setting against the default one
Sweep(features) ==
    [p \in Settings |-> GradeAgreement(GradeAnchors(features, Defaults),
                                       GradeAnchors(features, p))]

-----------------------------------------------------------------------------
(* a2: targets and their controls as a tensor over anchors, conditions and *)
(* control indices; there is none if any of its values is missing.         *)

ControlTargets(rows) ==
    {[control |-> AnchorOf(r), target |-> [AnchorOf(r) EXCEPT !.region = r.target],
      index |-> r.index] : r \in {q \in rows : q.control}}

Tensor(rows, values) ==
    LET listed == ControlTargets(rows)
        scored == {v.row : v \in values}
        anchors == TargetAnchors(values)
        conditions == {ConditionOf(r) : r \in scored}
        indices(a) == {x.index : x \in {y \in listed : y.target = a}}
        n == Max({x.index : x \in listed}) + 1
        control(a, k) == (CHOOSE x \in listed : x.target = a /\ x.index = k).control IN
    IF \/ listed = {}
       \/ \E r \in scored : r.control /\ [AnchorOf(r) EXCEPT !.region = r.target] \notin anchors
       \/ \E a \in anchors, c \in conditions : AnchorMean(values, a, c) = None
       \/ \E a \in anchors : indices(a) # 0..(n - 1)
       \/ \E a \in anchors, c \in conditions, k \in 0..(n - 1) :
             AnchorMean(values, control(a, k), c) = None
       \/ \E x, y \in listed : indices(x.target) # indices(y.target)
    THEN None
    ELSE [anchors |-> anchors, conditions |-> conditions, n |-> n,
          target |-> [ac \in anchors \X conditions |-> AnchorMean(values, ac[1], ac[2])],
          controls |-> [ack \in anchors \X conditions \X (0..(n - 1)) |->
                          AnchorMean(values, control(ack[1], ack[3]), ack[2])]]

\* faulty: the statistics are those of all controls
SubsetStatsOfAll(tensor, a, c, chosen) ==
    LET value(k) == tensor.controls[<<a, c, k>>]
        all == 0..(tensor.n - 1) IN
    [lead |-> tensor.n * tensor.target[<<a, c>>] - Total(value, all),
     spread |-> Spread(all, value), n |-> tensor.n, available |-> TRUE]

SubsetStats(tensor, a, c, chosen) ==
    LET n == Cardinality(chosen)
        value(k) == tensor.controls[<<a, c, k>>] IN
    [lead |-> n * tensor.target[<<a, c>>] - Total(value, chosen),
     spread |-> Spread(chosen, value), n |-> n, available |-> TRUE]

WithControlStats(f, tensor, chosen) ==
    [f EXCEPT !.cond = [c \in DOMAIN f.cond |-> SubsetStats(tensor, f.anchor, c, chosen)]]

\* the first controls, or any of that number
DrawSubsets(scheme, k, n) ==
    IF scheme = "prefix" \/ k = n THEN {0..(k - 1)}
    ELSE {chosen \in SUBSET (0..(n - 1)) : Cardinality(chosen) = k}

Ablated(f, tensor, chosen) == GradeAnchor(WithControlStats(f, tensor, chosen), Defaults)

Aligned(features, comparisons, tensor) ==
    /\ {f.anchor : f \in features} = tensor.anchors
    /\ ListedConditions(comparisons) = tensor.conditions

StoredParity(comparisons, tensor) ==
    \A x \in comparisons :
        LET full == SubsetStats(tensor, x.anchor, x.condition, 0..(tensor.n - 1)) IN
        <<x.n_controls, x.lead, x.spread>> = <<full.n, full.lead, full.spread>>

\* the analysis of ssat over the items whose control has an index below k
OfficialGrades(rows, first, values, excludes, k) ==
    LET subset == {r \in rows : r.control => r.index < k}
        scored == {v \in values : v.row \in subset}
        pairs == MatchControls(subset, [a \in {AnchorOf(r) : r \in subset} |-> first[a]]) IN
    Reliability(CompareToControls(scored, pairs), SeedStability(scored),
                StrategyStability(scored), excludes)

-----------------------------------------------------------------------------
(* The reference workflows: a raw row for each cell, operator, salt and    *)
(* control; a perturbation is an operator with its one variant, and no     *)
(* region is inverted.                                                     *)

Raw(values) ==
    {[sample |-> v.row.sample, region |-> v.row.region, target |-> v.row.target,
      control |-> v.row.control, perturbation |-> v.row.op, salt |-> v.row.salt,
      degradation |-> v.degradation] : v \in values}
RawMean(S) == MeanOf(LAMBDA r : r.degradation, S)
RawTargets(raw) == {r \in raw : ~r.control}

\* the controls of a target have its salt, too
ControlComparison(raw) ==
    LET controls(t) == {r \in raw : r.control /\ r.target = t.region /\ r.sample = t.sample
                           /\ r.perturbation = t.perturbation /\ r.salt = t.salt}
        row(t) ==
          LET S == controls(t)
              n == Cardinality(S)
              spread == Spread(S, LAMBDA r : r.degradation)
              known == n >= 2 /\ spread # 0 IN
          [sample |-> t.sample, region |-> t.region, perturbation |-> t.perturbation,
           salt |-> t.salt, n_controls |-> n, z_known |-> known,
           z_exceeds |-> known /\ ZExceeds(t.degradation, n,
                                           Total(LAMBDA r : r.degradation, S), spread)] IN
    {row(t) : t \in RawTargets(raw)}

\* a single seed has the coefficient 0
RawSeedStability(raw) ==
    LET group(r) == {q \in raw : [q EXCEPT !.salt = 0, !.degradation = 0]
                                   = [r EXCEPT !.salt = 0, !.degradation = 0]}
        row(r) ==
          LET sum == Total(LAMBDA q : q.degradation, group(r))
              spread == Spread(group(r), LAMBDA q : q.degradation) IN
          [sample |-> r.sample, region |-> r.region, perturbation |-> r.perturbation,
           n_seeds |-> Cardinality(group(r)), cv_known |-> sum # 0,
           cv_stable |-> sum # 0 /\ 10000 * spread < CvPercent * CvPercent * sum * sum] IN
    {row(r) : r \in raw}

RegionOf(raw, op, g) ==
    RawMean({r \in RawTargets(raw) : r.region = g /\ r.perturbation = op})

\* first in the order of degradations, then of keys
RankIn(S, value(_), g) ==
    1 + Cardinality({h \in S : value(h) > value(g) \/ (value(h) = value(g) /\ h < g)})

OperatorConsistency(raw, left, right) ==
    LET regions(op) == {r.region : r \in {q \in RawTargets(raw) : q.perturbation = op}}
        shared == regions(left) \cap regions(right)
        x(g) == RegionOf(raw, left, g)
        y(g) == RegionOf(raw, right, g) IN
    [spearman |-> Correlation(shared, x, y), n_regions |-> Cardinality(shared),
     top_region_agrees |-> \E g \in shared : RankIn(shared, x, g) = 1 /\ RankIn(shared, y, g) = 1]

\* the region with the largest mean over all variants, for each sample
LeadingRegions(raw) ==
    LET ofSample(s) == {r \in RawTargets(raw) : r.sample = s}
        regions(s) == {r.region : r \in ofSample(s)}
        mean(s, g) == RawMean({r \in ofSample(s) : r.region = g}) IN
    [s \in {r.sample : r \in RawTargets(raw)} |->
       CHOOSE g \in regions(s) : RankIn(regions(s), LAMBDA h : mean(s, h), g) = 1]

-----------------------------------------------------------------------------
(* Properties.                                                             *)

Own(S, a, c) == CHOOSE x \in S : x.anchor = a /\ x.condition = c

\* The engine, which has only the stored tables, yields the flags and grades
\* that the analysis stored, and counts as changes of grades what a table of
\* transitions shows.
EngineReproducesTheVerdicts ==
    stage = "analyzed" =>
    LET features == Features(tables)
        graded == GradeAnchors(features, Defaults) IN
    /\ \A v \in tables.verdicts :
          LET flags == EngineFlags(FeatureRow(tables, v.anchor), Defaults) IN
          /\ \A name \in DOMAIN flags : flags[name] = v.flags[name]
          /\ GradeOrder[graded[v.anchor]] = v.grade
    /\ \A p \in Settings :
          LET other == GradeAnchors(features, p)
              matrix == TransitionMatrix(graded, other)
              cells(T(_)) == Total(LAMBDA ij : matrix[ij],
                                   {ij \in DOMAIN matrix : T(ij[2] - ij[1])})
              kappa == WeightedKappa(graded, other)
              row == Sweep(features)[p] IN
          /\ row.unchanged + row.up + row.down = row.n
          /\ row.up = cells(LAMBDA d : d > 0) /\ row.down = cells(LAMBDA d : d < 0)
          /\ kappa # None => kappa[1] <= kappa[2] /\ (kappa[1] = kappa[2] <=> row.unchanged = row.n)

\* Whenever the tensor of a run can be built, its anchors are those of the
\* feature table, all its controls reproduce the stored comparisons, and the
\* engine over its first k controls grades as the analysis does over a run
\* that never had the others.
PrefixesMatchTheOfficialPath ==
    stage = "analyzed" =>
    LET tensor == Tensor(Accepted, Measured)
        features == Features(tables) IN
    tensor # None =>
        /\ Aligned(features, tables.controls, tensor)
        /\ StoredParity(tables.controls, tensor)
        /\ \A k \in 1..tensor.n : \A chosen \in DrawSubsets("prefix", k, tensor.n) :
              \A v \in OfficialGrades(Accepted, heads, Measured, tables.excludes, k) :
                 v.grade = GradeOrder[Ablated(FeatureRow(tables, v.anchor), tensor, chosen)]
        /\ \A chosen \in DrawSubsets("global_random", tensor.n, tensor.n), v \in tables.verdicts :
              v.grade = GradeOrder[Ablated(FeatureRow(tables, v.anchor), tensor, chosen)]

\* One row per cell, and no control whose target has none: what a complete
\* run of a reference workflow looks like.
Complete(values) ==
    /\ \A v, w \in values : AnchorOf(v.row) = AnchorOf(w.row) /\ v.row.op = w.row.op => v = w
    /\ \A v \in values : v.row.control =>
          \E w \in values : /\ AnchorOf(w.row) = [AnchorOf(v.row) EXCEPT !.region = v.row.target]
                            /\ ConditionOf(w.row) = ConditionOf(v.row)
                            /\ w.row.salt = v.row.salt

\* Over the same rows, none of them inverted, the reference workflows and the
\* packages agree: on the comparison with controls, the stability over seeds,
\* the correlation of operators and the region that leads in each sample.
ReferenceTablesAgree ==
    stage = "analyzed" /\ (\A v \in Measured : ~v.row.invert) =>
    LET raw == Raw(Measured)
        comparison == ControlComparison(raw)
        regionOf == TopRegionBySample(ThisMetric(SpatialProfile(tables.scores, Accepted), metric)) IN
    /\ Complete(Measured) =>
         /\ \A x \in tables.controls :
               \E y \in comparison :
                  /\ y.sample = x.anchor.sample /\ y.region = x.anchor.region
                  /\ y.perturbation = x.condition.op
                  /\ y.n_controls = x.n_controls
                  /\ y.z_known = x.z_known /\ y.z_exceeds = x.z_exceeds
         /\ \A r \in tables.ranks :
               LET y == OperatorConsistency(raw, r.op_a, r.op_b) IN
               y.spearman = r.spearman /\ y.n_regions = r.n_regions
    /\ (\A v, w \in Measured : v.row.op = w.row.op => v.row.params = w.row.params) =>
         \A x \in tables.seeds : x.n_seeds >= 2 =>
            \E y \in RawSeedStability(raw) :
               /\ y.sample = x.anchor.sample /\ y.region = x.anchor.region
               /\ y.perturbation = x.condition.op /\ y.n_seeds = x.n_seeds
               /\ y.cv_known = x.cv_known /\ y.cv_stable = x.cv_stable
    /\ LeadingRegions(raw) = regionOf

\* Three implementations of the same analysis agree wherever they overlap.
IndependentPathsAgree ==
    EngineReproducesTheVerdicts /\ PrefixesMatchTheOfficialPath /\ ReferenceTablesAgree

\* q asks for no less than p in any of the thresholds that are swept
Stricter(q, p) ==
    /\ q.z_threshold >= p.z_threshold /\ q.ddof >= p.ddof
    /\ q.min_multi_strategy >= p.min_multi_strategy /\ q.ci_level >= p.ci_level
    /\ [q EXCEPT !.z_threshold = 0, !.ddof = 0, !.min_multi_strategy = 0, !.ci_level = 0]
         = [p EXCEPT !.z_threshold = 0, !.ddof = 0, !.min_multi_strategy = 0, !.ci_level = 0]

\* The curves of the sweep are read as monotone: a stricter setting never
\* raises the grade of an anchor, whatever else is unavailable or failed.
StricterNeverRaises ==
    stage = "analyzed" =>
    \A f \in Features(tables) :
    \A excluded \in IF f.excluded = None THEN {None} ELSE ExcludedUpTo(f.excluded = Stored95) :
       LET g == [f EXCEPT !.excluded = excluded]
           grade == [p \in Settings |-> GradeAnchor(g, p)] IN
       \A p, q \in Settings : Stricter(q, p) => grade[q] <= grade[p]
=============================================================================
