------------------------------ MODULE Evidence ------------------------------
(***************************************************************************)
(* The analysis of a dump and its metrics (ssat/analysis): anchors and     *)
(* control pairs (A1), targets against their controls (A2), stability over *)
(* seeds and over operators (A3), the profile of each operator (A4),       *)
(* intervals per region (A5), and the reliability of each anchor (A6).     *)
(*                                                                         *)
(* The random draws of the bootstrap are left open: an interval is only    *)
(* known to lie within the values that are resampled (Resampled).          *)
(***************************************************************************)
EXTENDS Scores, Rounding, SequencesExt

CONSTANTS
    Operators,   \* perturbation operators in the order of their names
    Declared,    \* operator -> whether it preserves statistics
    ZThreshold,  \* z_vs_control_threshold
    CvPercent,   \* seed_cv_threshold, in percent
    Tolerance    \* area_match_tolerance, in percent

-----------------------------------------------------------------------------
(* A1.  item_context has the rows of every sample, failed ones included.   *)

AnchorOf(r) == [sample |-> r.sample, region |-> r.region, invert |-> r.invert]
ConditionOf(r) == [op |-> r.op, params |-> r.params]

RowsOf(rows, anchor) == {r \in rows : AnchorOf(r) = anchor}
Conditions(rows, anchor) == {ConditionOf(r) : r \in RowsOf(rows, anchor)}

RoundedMean(S, value(_)) ==
    LET known == {r \in S : value(r) # None} IN
    IF known = {} THEN None
    ELSE HalfEven(Total(value, known), Cardinality(known))

AnchorRow(rows, anchor) ==
    [anchor |-> anchor,
     intended |-> RoundedMean(RowsOf(rows, anchor), LAMBDA r : r.intended),
     effective |-> RoundedMean(RowsOf(rows, anchor), LAMBDA r : r.effective),
     is_control |-> \E r \in RowsOf(rows, anchor) : r.control,
     conditions |-> Conditions(rows, anchor)]
AnchorTable(rows) == {AnchorRow(rows, AnchorOf(r)) : r \in rows}

\* an anchor is a target or a control
MixedAnchors(rows) ==
    {AnchorOf(r) : r \in {q \in rows : \E o \in rows :
                            AnchorOf(o) = AnchorOf(q) /\ o.control # q.control}}

\* both areas are effective ones, or both are intended ones
Areas(control, target) ==
    IF None \notin {control.effective, target.effective}
    THEN <<control.effective, target.effective>>
    ELSE <<control.intended, target.intended>>
Distance(u, v) == Max({u - v, v - u})
RatioKnown(areas) == None \notin {areas[1], areas[2]} /\ areas[2] # 0
\* |control / target - 1| <= tolerance
InTolerance(areas) ==
    RatioKnown(areas) /\ 100 * Distance(areas[1], areas[2]) <= Tolerance * areas[2]

\* deviations a/b and c/d are compared by cross-multiplication
Closer(areas, than) ==
    Distance(areas[1], areas[2]) * than[2] < Distance(than[1], than[2]) * areas[2]

\* the target named by the control's recipe, if it has this condition
Referenced(table, control, target, condition) ==
    {a \in table : /\ a.anchor = [control.anchor EXCEPT !.region = target]
                   /\ condition \in a.conditions}

\* else the closest area of the same sample, polarity and condition; the
\* first one in the order of the table, which is that of the region keys
Fallback(table, control, condition) ==
    LET fits == {a \in table :
                   /\ ~a.is_control /\ condition \in a.conditions
                   /\ a.anchor = [control.anchor EXCEPT !.region = a.anchor.region]
                   /\ InTolerance(Areas(control, a))}
        best == {a \in fits : \A o \in fits :
                   ~Closer(Areas(control, o), Areas(control, a))} IN
    {a \in best : \A o \in best : a.anchor.region <= o.anchor.region}

Match(table, control, target, condition) ==
    LET exact == Referenced(table, control, target, condition)
        found == IF exact # {} THEN exact ELSE Fallback(table, control, condition) IN
    {[target |-> a.anchor, control |-> control.anchor, condition |-> condition,
      method |-> IF exact # {} THEN "exact_reference" ELSE "area_tolerance",
      areas |-> Areas(control, a)] : a \in found}

\* heads: the first row of each anchor in the order of the dump
MatchControls(rows, heads) ==
    LET table == AnchorTable(rows)
        controls == {a \in table : a.is_control} IN
    UNION {UNION {Match(table, a, heads[a.anchor].target, c) : c \in a.conditions}
             : a \in controls}

ControlPairOK(p) == p.target # p.control

Coverage(rows, pairs) ==
    LET table == AnchorTable(rows)
        wanted == UNION {{<<a.anchor, c>> : c \in a.conditions} :
                            a \in {b \in table : b.is_control}} IN
    [n_anchors |-> Cardinality(table),
     n_conditions_insufficient |->
        Cardinality({a \in table : Cardinality(a.conditions) < 2}),
     n_controls_unmatched |->
        Cardinality(wanted \ {<<p.control, p.condition>> : p \in pairs}),
     n_area_mismatch_warnings |->
        Cardinality({p \in pairs : RatioKnown(p.areas) /\ ~InTolerance(p.areas)})]

CoverageOK(c) == c.n_conditions_insufficient <= c.n_anchors

-----------------------------------------------------------------------------
(* item_values: the context joined with the item metrics.  All of A2 to A5 *)
(* are about the available scores of one metric.                           *)

ItemValues(rows, scores, m) ==
    {[row |-> RowOf(rows, x), degradation |-> x.degradation] :
       x \in Valid(ThisMetric(scores, m))}
MeanValue(S) == MeanOf(LAMBDA v : v.degradation, S)

Values(values, anchor) == {v \in values : AnchorOf(v.row) = anchor}
ConditionValues(values, anchor, condition) ==
    {v \in Values(values, anchor) : ConditionOf(v.row) = condition}
AnchorMean(values, anchor, condition) ==
    MeanValue(ConditionValues(values, anchor, condition))

TargetAnchors(values) == {AnchorOf(v.row) : v \in {u \in values : ~u.row.control}}
ConditionsOf(values, anchor) == {ConditionOf(v.row) : v \in Values(values, anchor)}

\* n * sum of squared deviations from the mean: n^2 times the variance
Spread(S, value(_)) ==
    Cardinality(S) * Total(LAMBDA x : value(x) * value(x), S)
       - Total(value, S) * Total(value, S)

\* (target - mean) / std > threshold, for n values of sum s and spread d
ZExceeds(target, n, s, d) ==
    LET lead == n * target - s IN lead > 0 /\ lead * lead > ZThreshold * ZThreshold * d

\* A0: what the rows of the dump allow, whether or not they have scores
AvailableAnalyses(rows) ==
    [control_comparison |-> \E r \in rows : r.control,
     fill_strategy_stability |-> Cardinality({r.op : r \in {q \in rows : ~q.control}}) >= 2,
     seed_stability |-> \E r \in rows :
        Cardinality({q \in RowsOf(rows, AnchorOf(r)) : ConditionOf(q) = ConditionOf(r)}) >= 2]

\* A2: a matched control without a usable value does not contribute, but its
\* area does
Comparison(values, pairs, anchor, condition) ==
    LET matched == {p \in pairs : p.target = anchor /\ p.condition = condition}
        mean(p) == AnchorMean(values, p.control, condition)
        usable == {p \in matched : mean(p) # None}
        target == AnchorMean(values, anchor, condition)
        n == Cardinality(usable)
        known == n >= 2 /\ Spread(usable, mean) # 0 IN
    [anchor |-> anchor, condition |-> condition,
     control_available |-> IF n = 0 THEN "unavailable" ELSE "true",
     area_matched |-> IF n = 0 THEN "unavailable"
                      ELSE IF \A p \in matched : InTolerance(p.areas)
                      THEN "true" ELSE "false",
     n_controls |-> n,
     lead |-> n * target - Total(mean, usable),
     spread |-> Spread(usable, mean),
     z_known |-> known,
     z_exceeds |-> known /\ ZExceeds(target, n, Total(mean, usable), Spread(usable, mean))]

CompareToControls(values, pairs) ==
    UNION {{Comparison(values, pairs, a, c) : c \in ConditionsOf(values, a)} :
             a \in TargetAnchors(values)}

ControlComparisonOK(x) ==
    x.control_available # "true" => x.n_controls = 0 /\ x.area_matched = "unavailable"

\* A3 (seeds): the coefficient of variation needs two trials and a mean
SeedStability(values) ==
    LET row(a, c) ==
          LET S == ConditionValues(values, a, c)
              sum == Total(LAMBDA v : v.degradation, S)
              spread == Spread(S, LAMBDA v : v.degradation)
              known == Cardinality(S) >= 2 /\ sum # 0 IN
          [anchor |-> a, condition |-> c, n_seeds |-> Cardinality(S),
           cv_known |-> known,
           cv_stable |-> known /\ 10000 * spread < CvPercent * CvPercent * sum * sum] IN
    {row(AnchorOf(v.row), ConditionOf(v.row)) : v \in values}

\* A3 (operators): conditions are averaged per operator, operators never
OpMean(values, anchor, op) ==
    MeanOf(LAMBDA c : AnchorMean(values, anchor, c),
           {c \in ConditionsOf(values, anchor) : c.op = op})
OpsOf(values, anchor) == {c.op : c \in ConditionsOf(values, anchor)}
SignOf(v) == IF v > 0 THEN 1 ELSE IF v < 0 THEN -1 ELSE 0

StrategyStability(values) ==
    {[anchor |-> a,
      strategy_values |-> [o \in OpsOf(values, a) |-> OpMean(values, a, o)],
      strategy_signs |-> [o \in OpsOf(values, a) |-> SignOf(OpMean(values, a, o))]] :
        a \in TargetAnchors(values)}
StrategyStabilityOK(x) ==
    /\ DOMAIN x.strategy_signs = DOMAIN x.strategy_values
    /\ \A o \in DOMAIN x.strategy_signs : x.strategy_signs[o] \in {-1, 0, 1}

Dominant(row) ==
    Max({Cardinality({o \in DOMAIN row.strategy_signs : row.strategy_signs[o] = s}) :
           s \in {-1, 0, 1}})

-----------------------------------------------------------------------------
(* A3 (ranks): Spearman's correlation of two operators over the regions    *)
(* both have, as a pair <<covariance, product of the variances>>.          *)

RegionValue(values, op, g) ==
    MeanOf(LAMBDA a : OpMean(values, a, op),
           {a \in TargetAnchors(values) : a.region = g /\ op \in OpsOf(values, a)})
RegionsOf(values, op) ==
    {a.region : a \in {b \in TargetAnchors(values) : op \in OpsOf(values, b)}}

\* twice the average rank of g among the regions S
Rank(S, value(_), g) ==
    2 * Cardinality({h \in S : value(h) < value(g)})
      + Cardinality({h \in S : value(h) = value(g)}) + 1

Correlation(S, x(_), y(_)) ==
    LET n == Cardinality(S)
        rx(g) == Rank(S, x, g)
        ry(g) == Rank(S, y, g)
        cov == n * Total(LAMBDA g : rx(g) * ry(g), S) - Total(rx, S) * Total(ry, S) IN
    IF n < 2 \/ Spread(S, rx) = 0 \/ Spread(S, ry) = 0 THEN None
    ELSE [cov |-> cov, var |-> Spread(S, rx) * Spread(S, ry)]

\* excluding the region that ranks first for the first operator
RankCorrelation(values, a, b) ==
    LET x(g) == RegionValue(values, a, g)
        y(g) == RegionValue(values, b, g)
        shared == RegionsOf(values, a) \cap RegionsOf(values, b)
        first == {g \in shared : \A h \in shared : x(g) > x(h) \/ (x(g) = x(h) /\ g <= h)}
    IN [op_a |-> a, op_b |-> b, spearman |-> Correlation(shared, x, y),
        n_regions |-> Cardinality(shared),
        spearman_excl_top1 |-> Correlation(shared \ first, x, y)]

ObservedOps(values) ==
    SelectSeq(Operators, LAMBDA o : \E a \in TargetAnchors(values) : o \in OpsOf(values, a))
\* op_a before op_b in the order of their names
OpPairs(ops) == {<<i, j>> \in (1..Len(ops)) \X (1..Len(ops)) : i < j}
RankCorrelations(values) ==
    LET ops == ObservedOps(values) IN
    {RankCorrelation(values, ops[ij[1]], ops[ij[2]]) : ij \in OpPairs(ops)}

\* a correlation lies in [-1, 1]
RankCorrelationOK(x) ==
    \A c \in {x.spearman, x.spearman_excl_top1} \ {None} : c.cov * c.cov <= c.var

-----------------------------------------------------------------------------
(* A4: operators whose correlation reaches 0.3 are joined by union-find.   *)

Weight(row) == IF row.spearman_excl_top1 # None THEN row.spearman_excl_top1
               ELSE row.spearman
Similar(row) == Weight(row) # None /\ Weight(row).cov > 0
                /\ 100 * Weight(row).cov * Weight(row).cov >= 9 * Weight(row).var

Root(parent, o) ==
    LET up[n \in Nat] == IF n = 0 THEN o ELSE parent[up[n - 1]]
    IN up[Cardinality(DOMAIN parent)]
UnionStep(parent, edge) ==
    [parent EXCEPT ![Root(parent, edge[1])] = Root(parent, edge[2])]

\* the pairs are visited in the order of the two loops
SimilarPairs(ops, rows) ==
    LET all == SetToSortSeq(OpPairs(ops), LAMBDA p, q :
                  p[1] < q[1] \/ (p[1] = q[1] /\ p[2] < q[2]))
        edges == [k \in DOMAIN all |-> <<ops[all[k][1]], ops[all[k][2]]>>] IN
    SelectSeq(edges, LAMBDA e : \E r \in rows : <<r.op_a, r.op_b>> = e /\ Similar(r))

ClusterParents(ops, rows) ==
    FoldLeft(UnionStep, [o \in Range(ops) |-> o], SimilarPairs(ops, rows))

\* clusters are numbered by their first member; a single operator has none
Clusters(ops, rows) ==
    LET parent == ClusterParents(ops, rows)
        index(o) == CHOOSE i \in DOMAIN ops : ops[i] = o
        first(o) == CHOOSE i \in DOMAIN ops :
            /\ Root(parent, ops[i]) = Root(parent, o)
            /\ \A j \in DOMAIN ops : Root(parent, ops[j]) = Root(parent, o) => i <= j
        firsts == {first(o) : o \in Range(ops)} IN
    [o \in Range(ops) |-> IF Len(ops) < 2 THEN None
                          ELSE Cardinality({i \in firsts : i < first(o)})]

Alignment(o, cluster) ==
    LET ops == DOMAIN cluster
        declared == {p \in ops : Declared[p] = Declared[o]}
        empirical == IF cluster[o] = None THEN {o}
                     ELSE {p \in ops : cluster[p] = cluster[o]}
        both == Cardinality(declared \cap empirical)
        either == Cardinality(declared \cup empirical) IN
    IF both = either THEN "aligned"
    ELSE IF 2 * both >= either THEN "partial" ELSE "divergent"

StrategyProfile(values) ==
    LET rows == RankCorrelations(values)
        cluster == Clusters(ObservedOps(values), rows)
        anchors(o) == {a \in TargetAnchors(values) : o \in OpsOf(values, a)} IN
    {[op |-> o, cluster |-> cluster[o], alignment |-> Alignment(o, cluster),
      n_anchors |-> Cardinality(anchors(o)),
      n_positive |-> Cardinality({a \in anchors(o) : OpMean(values, a, o) > 0})] :
        o \in DOMAIN cluster}
StrategyProfileOK(x) == x.n_positive <= x.n_anchors /\ (x.cluster = None \/ x.cluster >= 0)

-----------------------------------------------------------------------------
(* A5: per region, the means of its samples are resampled.                 *)

PerSampleMeans(values, g) ==
    LET ofRegion == {v \in values : ~v.row.control /\ v.row.region = g} IN
    {[sample |-> v.row.sample,
      mean |-> MeanValue({u \in ofRegion : u.row.sample = v.row.sample})] : v \in ofRegion}

\* whether the interval may exclude zero, of all the samples that can be drawn
Resampled(means) ==
    LET signs == {SignOf(x.mean) : x \in means} IN
    IF signs \in {{1}, {-1}} THEN {TRUE}
    ELSE IF signs = {0} THEN {FALSE} ELSE BOOLEAN

IntervalRegions(values) == {v.row.region : v \in {u \in values : ~u.row.control}}
PointEstimate(values, g) == MeanOf(LAMBDA x : x.mean, PerSampleMeans(values, g))
\* one verdict per region: every anchor of the region shares it
IntervalChoices(values) ==
    {f \in [IntervalRegions(values) -> BOOLEAN] :
       \A g \in IntervalRegions(values) : f[g] \in Resampled(PerSampleMeans(values, g))}

-----------------------------------------------------------------------------
(* A6.  A flag is unavailable unless something was evaluated.              *)

FlagOf(evaluated, holds) ==
    IF ~evaluated THEN "unavailable" ELSE IF holds THEN "true" ELSE "false"

Flags(anchor, comparisons, seeds, strategies, excludes) ==
    LET own(S) == {x \in S : x.anchor = anchor}
        usable == {x \in own(comparisons) : x.control_available = "true"}
        z == {x \in usable : x.z_known}
        cv == {x \in own(seeds) : x.cv_known}
        strategy == own(strategies)
        signs(x) == {x.strategy_signs[o] : o \in DOMAIN x.strategy_signs} IN
    [sign_consistent |-> FlagOf(strategy # {}, \A x \in strategy : Cardinality(signs(x)) = 1),
     exceeds_control |-> FlagOf(z # {}, \E x \in z : x.z_exceeds),
     seed_stable |-> FlagOf(cv # {}, \A x \in cv : x.cv_stable),
     multi_strategy |-> FlagOf(strategy # {}, \A x \in strategy : Dominant(x) >= 2),
     ci_excludes_zero |-> FlagOf(anchor.region \in DOMAIN excludes, excludes[anchor.region]),
     area_matched |-> FlagOf(usable # {}, \A x \in usable : x.area_matched = "true")]

\* faulty: what was not evaluated counts against the anchor
GradeStrict(f) ==
    LET core == {f.exceeds_control, f.multi_strategy, f.ci_excludes_zero} IN
    IF f.sign_consistent = "false" THEN "unreliable"
    ELSE IF f.sign_consistent = "true" /\ core = {"true"} THEN "high"
    ELSE IF f.sign_consistent = "true" /\ "true" \in core
            /\ core \cap {"false", "unavailable"} = {} THEN "moderate"
    ELSE "low"

Grade(f) ==
    LET core == {f.exceeds_control, f.multi_strategy, f.ci_excludes_zero} IN
    IF f.sign_consistent = "false" THEN "unreliable"
    ELSE IF f.sign_consistent = "true" /\ core = {"true"} THEN "high"
    ELSE IF f.sign_consistent = "true" /\ "true" \in core /\ "false" \notin core
    THEN "moderate"
    ELSE "low"

Reliability(comparisons, seeds, strategies, excludes) ==
    {[anchor |-> a, flags |-> Flags(a, comparisons, seeds, strategies, excludes),
      grade |-> Grade(Flags(a, comparisons, seeds, strategies, excludes))] :
        a \in {x.anchor : x \in strategies \cup comparisons}}
=============================================================================
