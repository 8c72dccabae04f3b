------------------------------ MODULE Results ------------------------------
(***************************************************************************)
(* From a dump to its verdicts, report and labels: compute_metrics,        *)
(* compute_analysis, generate_report and export_labels (ssat/application)  *)
(* run over whatever an audit left in its dump: samples that failed, items *)
(* that failed or were never recorded, samples without a label, rows in    *)
(* the order their fragments happen to be in.                              *)
(*                                                                         *)
(* The analysis treats its metrics one by one and alike, so one of them is *)
(* followed (metric).                                                      *)
(***************************************************************************)
EXTENDS Report

CONSTANTS
    Dumps,     \* the dumps an instance starts from
    Followed,  \* the metrics one of which is followed
    Knobs,     \* the pairs of top_k and bottom_k of a report
    Lost       \* samples that cannot be loaded any more for their images

ASSUME ResultsAssumption ==
    /\ Followed \subseteq Registered
    /\ Knobs \subseteq [top : Nat, bottom : Nat]

VARIABLES
    dump,     \* clean rows, and the fragments of perturbed rows, in order
    unread,   \* fragments that the current pass has still to read
    seen,     \* geometry met by the current pass
    heads,    \* first row of each anchor met by the current pass
    stage,    \* where the commands are
    metric,   \* the metric whose analysis is followed
    tables,   \* what the commands computed
    report,   \* the last report, or None
    labels    \* the exported label rows

vars == <<dump, unread, seen, heads, stage, metric, tables, report, labels>>

AllRows == UNION Range(dump.fragments)
Accepted == Joined(dump, AllRows)
NoTables == [scores |-> {}, samples |-> {}, regions |-> {}, classes |-> {},
             summary |-> None, pairs |-> {}, coverage |-> None, available |-> None,
             seeds |-> {}, controls |-> {},
             strategies |-> {}, ranks |-> {}, profile |-> {}, excludes |-> <<>>,
             verdicts |-> {}]

Init ==
    /\ dump \in Dumps
    /\ unread = <<>> /\ seen = NothingSeen /\ heads = <<>>
    /\ stage = "idle" /\ metric = None /\ tables = NoTables
    /\ report = None /\ labels = {}

StartPass(next, rows) ==
    /\ unread' = SelectSeq([i \in DOMAIN dump.fragments |->
                              dump.fragments[i] \cap rows], LAMBDA f : f # {})
    /\ seen' = NothingSeen /\ heads' = <<>>
    /\ stage' = next

Fail == stage' = "failed" /\ UNCHANGED <<unread, seen, heads>>

\* rows of a fragment in any order
NextRow(r) ==
    /\ unread # <<>> /\ r \in Head(unread)
    /\ unread' = IF Head(unread) = {r} THEN Tail(unread)
                 ELSE [unread EXCEPT ![1] = @ \ {r}]

-----------------------------------------------------------------------------
(* compute_metrics.                                                        *)

OpenDump ==
    /\ stage = "idle"
    /\ IF OrphanItems(dump, AllRows) # {} THEN Fail
       ELSE StartPass("context", Accepted)
    /\ UNCHANGED <<dump, metric, tables, report, labels>>

BuildContext(r) ==
    /\ stage = "context" /\ NextRow(r)
    /\ IF GeometryOK(seen, r)
       THEN seen' = Geometry(seen, r) /\ UNCHANGED stage
       ELSE stage' = "failed" /\ UNCHANGED seen
    /\ UNCHANGED <<dump, heads, metric, tables, report, labels>>

ComputeMetrics ==
    LET scores == ItemMetrics(dump, AllRows)
        samples == SampleMetrics(dump, scores, Accepted)
        regions == RegionMetrics(scores, Accepted) IN
    /\ stage = "context" /\ unread = <<>>
    /\ stage' = IF /\ \A x \in scores : ItemMetricOK(x)
                   /\ \A x \in samples : SampleMetricOK(x)
                   /\ \A x \in regions : RegionMetricOK(x)
                   /\ \A x \in ClassMetrics(samples) : ClassMetricOK(x)
                THEN "measured" ELSE "failed"
    /\ tables' = [tables EXCEPT !.scores = scores, !.samples = samples,
                     !.regions = regions, !.classes = ClassMetrics(samples),
                     !.summary = Summary(dump, AllRows)]
    /\ UNCHANGED <<dump, unread, seen, heads, metric, report, labels>>

-----------------------------------------------------------------------------
(* compute_analysis.                                                       *)

\* the scores are joined with the rows before anything is indexed: a dump
\* without a single score has no column to join on
OpenAnalysis ==
    /\ stage = "measured"
    /\ metric' \in Followed
    /\ IF tables.scores = {} THEN Fail ELSE StartPass("index", AllRows)
    /\ UNCHANGED <<dump, tables, report, labels>>

IndexRow(r) ==
    /\ stage = "index" /\ NextRow(r)
    /\ IF GeometryOK(seen, r)
       THEN /\ seen' = Geometry(seen, r)
            /\ heads' = IF AnchorOf(r) \in DOMAIN heads THEN heads
                        ELSE With(heads, AnchorOf(r), r)
            /\ UNCHANGED stage
       ELSE stage' = "failed" /\ UNCHANGED <<seen, heads>>
    /\ UNCHANGED <<dump, metric, tables, report, labels>>

BuildIndex ==
    LET pairs == MatchControls(AllRows, heads) IN
    /\ stage = "index" /\ unread = <<>>
    /\ IF \/ MixedAnchors(AllRows) # {} \/ ~CoverageOK(Coverage(AllRows, pairs))
          \/ \E p \in pairs : ~ControlPairOK(p)
       THEN Fail /\ UNCHANGED tables
       ELSE /\ stage' = "indexed"
            /\ tables' = [tables EXCEPT !.pairs = pairs,
                                        !.coverage = Coverage(AllRows, pairs)]
            /\ UNCHANGED <<unread, seen, heads>>
    /\ UNCHANGED <<dump, metric, report, labels>>

\* A2 to A6 over the rows that have scores
Measured == ItemValues(Accepted, tables.scores, metric)

Analyze ==
    LET values == Measured
        controls == CompareToControls(values, tables.pairs)
        seeds == SeedStability(values)
        strategies == StrategyStability(values)
        ranks == RankCorrelations(values) IN
    /\ stage = "indexed"
    /\ \E excludes \in IntervalChoices(values) :
          tables' = [tables EXCEPT
             !.controls = controls, !.seeds = seeds, !.strategies = strategies,
             !.available = AvailableAnalyses(AllRows),
             !.ranks = IF metric = Primary THEN ranks ELSE {},
             !.profile = IF metric = Primary THEN StrategyProfile(values) ELSE {},
             !.excludes = excludes,
             !.verdicts = Reliability(controls, seeds, strategies, excludes)]
    /\ stage' = IF /\ \A x \in controls : ControlComparisonOK(x)
                   /\ \A x \in strategies : StrategyStabilityOK(x)
                   /\ \A x \in ranks : RankCorrelationOK(x)
                   /\ \A x \in tables'.profile : StrategyProfileOK(x)
                THEN "analyzed" ELSE "failed"
    /\ UNCHANGED <<dump, unread, seen, heads, metric, report, labels>>

-----------------------------------------------------------------------------
(* generate_report, with the analysis or without one, and export_labels.   *)

\* the knobs, the order of tied samples and regions, and the first of tied
\* counts are all that is left open
GenerateReport(m) ==
    LET samples == ThisMetric(tables.samples, m)
        regions == ThisMetric(tables.regions, m)
        profile == ThisMetric(SpatialProfile(tables.scores, Accepted), m)
        leaders == TopRegionBySample(profile)
        entries == GroupEntries(profile)
        cards(ranking, orders) ==
            LET q == ranking \o Unscored(samples) IN
            [i \in DOMAIN q |-> Card(q[i], tables.verdicts, orders)]
        scorecard == ScoreCards(samples, tables.controls)
        label == [s \in {x.sample : x \in samples} |-> dump.clean[s].label]
        binary == IsBinary(scorecard)
        rows == RegionRows(regions, Accepted, tables.verdicts, leaders)
        groups == GroupRows(entries, regions, tables.verdicts, binary)
        classes == ClassSemanticMatrix(entries, label) IN
    /\ stage \in {"measured", "analyzed"} /\ metric' = m
    /\ \E k \in Knobs, ranking \in Rankings(samples) :
       LET gallery == Gallery(ranking, k.top, k.bottom) IN
       \E orders \in {f \in [gallery -> UNION {TopRegionOrders(profile, s) : s \in gallery}] :
                         \A s \in gallery : f[s] \in TopRegionOrders(profile, s)},
          spatial \in SpatialConcentrations(leaders, regions),
          semantic \in SemanticConcentrations(TopGroupBySample(profile), regions) :
       LET plain == cards(ranking, orders)
           scored == SubSeq(plain, 1, Len(ranking))
           drawn == gallery \ Lost
           full == Linked(plain, drawn) IN
       report' = [knobs |-> k, binary |-> binary, scorecard |-> scorecard,
                  failure_rate |-> FailureRate(tables.summary),
                  most_vulnerable |-> Linked(MostVulnerable(scored, k.top), drawn),
                  most_robust |-> Linked(MostRobust(scored, k.bottom), drawn),
                  rankings |-> full, regions |-> rows, groups |-> groups,
                  spatial |-> spatial, semantic |-> semantic, classes |-> classes,
                  excluded |-> ExcludedWithoutLabel(entries, label),
                  flagged |-> Flagged(tables.verdicts),
                  csv |-> SampleRankingsCsv(full, entries)]
    /\ stage' = IF ReportOK(report') THEN "reported" ELSE "failed"
    /\ UNCHANGED <<dump, unread, seen, heads, tables, labels>>

ExportLabels ==
    /\ stage = "reported"
    /\ \E only_clean_correct \in BOOLEAN :
          labels' = RiskLabels(report.csv, report.binary, only_clean_correct)
    /\ stage' = "labelled"
    /\ UNCHANGED <<dump, unread, seen, heads, metric, tables, report>>

Next == \/ OpenDump \/ ComputeMetrics \/ OpenAnalysis \/ BuildIndex \/ Analyze
        \/ \E m \in (IF metric = None THEN Followed ELSE {metric}) : GenerateReport(m)
        \/ ExportLabels
        \/ \E r \in AllRows : BuildContext(r) \/ IndexRow(r)
Spec == Init /\ [][Next]_vars

-----------------------------------------------------------------------------
(* Properties.                                                             *)

Stages == {"idle", "context", "measured", "index", "indexed", "analyzed", "reported",
           "labelled", "failed"}

\* Every variable holds a value of its type.
TypeOK ==
    /\ \A i \in DOMAIN unread : unread[i] \subseteq AllRows
    /\ stage \in Stages /\ metric \in Followed \cup {None}
    /\ \A x \in tables.scores : x.metric \in Registered
    /\ \A x \in tables.verdicts : x.grade \in {"high", "moderate", "low", "unreliable"}

\* The areas of a region and of its complement, recorded under one name
PolarityClash(rows) ==
    \E p, q \in rows :
        /\ p.kind # "random_area_match" /\ p.invert # q.invert
        /\ p.sample = q.sample /\ p.region = q.region
        /\ \E f \in {"intended", "effective"} : None \notin {p[f], q[f]} /\ p[f] # q[f]

\* Whatever an audit left behind (failed and missing rows, unlabelled
\* samples, regions whose area differs by sample, controls redrawn for every
\* salt), in whatever order, a command refuses it for one of two reasons
\* only: a region and its complement are both in the rows it reads with areas
\* that differ (aggregate.py:276, indexer.py:307), or there is no score to
\* analyze (reader.py:140). For these it always does, and no validation of a
\* row type, in any package, ever rejects a dump of this program.
RefusalsAreExact ==
    /\ stage = "failed" =>
          /\ report = None
          /\ IF metric = None THEN PolarityClash(Accepted)
             ELSE tables.scores = {} \/ PolarityClash(AllRows)
    /\ stage \in {"measured", "index", "reported", "labelled"} => ~PolarityClash(Accepted)
    /\ stage \in {"indexed", "analyzed"} => tables.scores # {} /\ ~PolarityClash(AllRows)

\* No row disappears without being counted: each item of a sample with clean
\* output has one score or one exclusion reason per metric, the summary counts
\* the others, and the samples' counts add up to the items that are no
\* controls.
NothingDroppedSilently ==
    stage = "measured" =>
    \A m \in Registered :
        LET ofMetric == ThisMetric(tables.scores, m)
            samples == ThisMetric(tables.samples, m)
            targets == {r \in Accepted : ~r.control} IN
        /\ Cardinality(ofMetric) = Cardinality(Accepted)
        /\ Cardinality({x \in ofMetric : x.excluded_reason = "perturbed_status_not_ok"})
             = Cardinality({r \in Accepted : r.status # "ok"
                              /\ dump.clean[r.sample].label # None})
        /\ tables.summary.total_perturbed_items - Cardinality(Accepted)
             = Cardinality({r \in AllRows : dump.clean[r.sample].status # "ok"})
        /\ Total(LAMBDA x : x.n_items, samples) = Cardinality(targets)
        /\ Total(LAMBDA x : x.n_valid, samples)
             = Cardinality({r \in targets : r.status = "ok"
                              /\ dump.clean[r.sample].label # None})

\* At the end of a pass the geometry that was collected is that of the rows,
\* in whatever order they came: an area is unknown only if no row knows it.
GeometryIsOrderFree ==
    stage \in {"context", "index"} /\ unread = <<>> =>
    LET rows == IF stage = "context" THEN Accepted ELSE AllRows IN
    \A r \in {q \in rows : q.kind # "random_area_match"} :
       \A f \in {"intended", "effective"} :
          LET known == {q[f] : q \in {p \in rows : AreaKey(p) = AreaKey(r)}} \ {None} IN
          IF known = {} THEN seen.area[AreaKey(r)][f] = None
          ELSE seen.area[AreaKey(r)][f] \in known

\* Two packages average the same items independently: the interval of a
\* region is about the same number that the region's metrics show, and the
\* one exists exactly if the other does.
BothPathsAgree ==
    stage = "analyzed" =>
    /\ \A x \in ThisMetric(tables.regions, metric) :
          IF x.metric_mean = None THEN x.region \notin IntervalRegions(Measured)
          ELSE PointEstimate(Measured, x.region) = x.metric_mean
    /\ IntervalRegions(Measured) \subseteq
          {x.region : x \in ThisMetric(tables.regions, metric)}

\* A control is compared under the very condition of its target, and with
\* its own target as long as that has a row; only a control whose target was
\* never recorded stands in for another region of its sample and polarity.
ControlsKeepTheirTarget ==
    stage = "indexed" =>
    \A p \in tables.pairs :
        LET own == {r \in AllRows : /\ ~r.control /\ ConditionOf(r) = p.condition
                      /\ AnchorOf(r) = [p.control EXCEPT !.region = heads[p.control].target]}
            target == {r \in AllRows : AnchorOf(r) = p.target /\ ~r.control
                                       /\ ConditionOf(r) = p.condition} IN
        /\ target # {}
        /\ p.target.sample = p.control.sample /\ p.target.invert = p.control.invert
        /\ own # {} => p.target.region = heads[p.control].target
        /\ Cardinality({q \in tables.pairs : q.control = p.control
                                             /\ q.condition = p.condition}) = 1

\* The verdicts are about exactly the targets with a score, and each has an
\* opinion on its sign: no grade rests on nothing.
EveryScoredTargetIsGraded ==
    stage = "analyzed" =>
    /\ {v.anchor : v \in tables.verdicts} =
          {AnchorOf(r) : r \in {q \in Accepted : ~q.control /\ q.status = "ok"
                                  /\ dump.clean[q.sample].label # None}}
    /\ \A v \in tables.verdicts : v.flags.sign_consistent # "unavailable"

\* The availability report that is stored beside the verdicts promises every
\* analysis that has results: it is taken from the rows of the dump, the
\* results from the scores.
ResultsWereAnnounced ==
    stage = "analyzed" =>
    /\ (\E x \in tables.controls : x.control_available = "true") =>
          tables.available.control_comparison
    /\ (\E x \in tables.seeds : x.n_seeds >= 2) => tables.available.seed_stability
    /\ (\E x \in tables.strategies : Cardinality(DOMAIN x.strategy_signs) >= 2) =>
          tables.available.fill_strategy_stability

\* An anchor is called unreliable only for two operators that disagree on the
\* direction, and held to be of low reliability only for something that was
\* evaluated and failed, or because nothing could be: evidence that is missing
\* (no controls, one operator, failed rows) is never taken for a refutation.
MissingEvidenceIsNoRefutation ==
    stage = "analyzed" =>
    \A v \in tables.verdicts :
        LET values == Values(Measured, v.anchor)
            mean(o) == OpMean(Measured, v.anchor, o)
            ops == OpsOf(Measured, v.anchor)
            rivals == {p \in tables.pairs : p.target = v.anchor
                         /\ AnchorMean(Measured, p.control, p.condition) # None} IN
        /\ v.grade = "unreliable" <=> \E o, q \in ops : SignOf(mean(o)) # SignOf(mean(q))
        /\ v.grade = "high" => Cardinality(rivals) >= 2 /\ Cardinality(ops) >= 2
        /\ v.grade = "low" /\ rivals = {} =>
              Cardinality(ops) = 1 \/ ~tables.excludes[v.anchor.region]

\* The union-find over the pairs of operators, in the order of two loops,
\* yields the connected components of the similar pairs, numbered from 0.
ClustersAreComponents ==
    stage = "analyzed" /\ Cardinality(tables.profile) > 1 =>
    LET ops == {x.op : x \in tables.profile}
        cluster(o) == (CHOOSE x \in tables.profile : x.op = o).cluster
        joined(S) == S \cup {o \in ops : \E r \in tables.ranks : Similar(r)
                               /\ ({r.op_a, r.op_b} \cap S # {}) /\ o \in {r.op_a, r.op_b}}
        reach[n \in Nat] == [o \in ops |-> IF n = 0 THEN {o} ELSE joined(reach[n - 1][o])]
    IN /\ \A o, p \in ops : cluster(o) = cluster(p) <=> p \in reach[Cardinality(ops)][o]
       /\ {cluster(o) : o \in ops} = 0..(Cardinality({cluster(o) : o \in ops}) - 1)

\* The galleries are the ends of the ranking, whatever their sizes: no sample
\* without a score is in one, none left out is more vulnerable, or more robust,
\* than one that is in; each of their cards is the card of the full ranking,
\* with its regions and its images.
GalleriesAreTheExtremes ==
    stage = "reported" =>
    LET scored == {c \in Range(report.rankings) : c.vulnerability_score # None}
        worst == Range(report.most_vulnerable)
        best == Range(report.most_robust) IN
    /\ Cardinality(worst) = Min({report.knobs.top, Cardinality(scored)})
    /\ Cardinality(best) = Min({report.knobs.bottom, Cardinality(scored)})
    /\ worst \cup best \subseteq scored
    /\ \A c \in worst, o \in scored \ worst : c.vulnerability_score >= o.vulnerability_score
    /\ \A c \in best, o \in scored \ best : c.vulnerability_score <= o.vulnerability_score
    /\ \A c \in worst \cup best : c.top_regions # <<>>

\* Every sample with a degradation leads to one row of the region table: the
\* shares of all rows add up to 1 although a skeleton's regions, of which each
\* sample has its own, are joined into one row per family.
SharesAddUp ==
    stage = "reported" =>
    /\ Total(LAMBDA x : x.top_count, report.regions) = report.spatial.n_scored_samples
    /\ report.spatial.n_scored_samples =
          Cardinality({c \in Range(report.rankings) : c.vulnerability_score # None})
    /\ \A x \in report.regions : x.kind # "skeleton_parts" => x.top_count <= report.spatial.count

\* Each verdict is counted in one row of the region table and one row of the
\* semantic table, and the worst that any row or card shows is the worst there
\* is: joining regions hides no verdict and repeats none.
EveryVerdictIsShownOnce ==
    stage = "reported" =>
    LET all == Distribution(tables.verdicts) IN
    /\ \A g \in DOMAIN all :
          Total(LAMBDA x : x.reliability_distribution[g], report.regions) = all[g]
    /\ Total(LAMBDA x : x.n_graded, report.groups) = Cardinality(tables.verdicts)
    /\ Total(LAMBDA x : x.high_count, report.groups) = all.high
    /\ WorstGrade({[grade |-> x.reliability_grade] : x \in report.regions} \ {[grade |-> None]})
          = WorstGrade(tables.verdicts)
    /\ WorstGrade({[grade |-> c.reliability_grade] : c \in Range(report.rankings)}
                    \ {[grade |-> None]}) = WorstGrade(tables.verdicts)

\* Two reductions pick the most degraded region of a sample, one for its card
\* and one for the shares: where a tie lets them name different regions, these
\* are equally degraded.
CardsShowTheCountedDegradation ==
    stage = "reported" =>
    \A c \in Range(report.rankings) : c.top_regions # <<>> =>
        LET own == {p \in ThisMetric(SpatialProfile(tables.scores, Accepted), metric) :
                      p.sample = c.sample}
            counted == TopRegionBySample(own)[c.sample] IN
        \A p \in own : p.region = counted => p.degradation = c.top_regions[1].degradation

\* The classes split each semantic group: a sample with a degradation has a
\* label, so that no sample is ever excluded from the matrix for having none.
ClassesSplitTheGroups ==
    stage = "reported" =>
    /\ \A x \in report.groups :
          x.n_samples = Total(LAMBDA c : c.n_samples, {c \in report.classes : c.group = x.group})
    /\ report.excluded = 0

\* Through two averages and two files, a risk label still says what happened
\* to the items: some perturbation of some region of the group made the sample
\* fail; and a group of a sample has no label only if nothing is known of it.
RiskMeansAFlip ==
    stage = "labelled" =>
    LET known(s, h) == {x \in ThisMetric(Targets(tables.scores, Accepted), metric) :
                          /\ x.sample = s /\ x.available
                          /\ GroupOf(RowOf(Accepted, x).region) = h} IN
    /\ \A x \in labels :
          /\ known(x.sample, x.group) # {} /\ x.gt_label = dump.clean[x.sample].label
          /\ metric \in Flips =>
                (x.risk_label <=> \E i \in known(x.sample, x.group) : i.degradation > 0)
          /\ metric \in Drops => x.risk_label = None
    /\ \A c \in Range(report.rankings), h \in Range(Group) :
          c.clean_correct = TRUE /\ known(c.sample, h) # {} =>
             \E x \in labels : x.sample = c.sample /\ x.group = h

\* What a command stores, the next one reads: no required column is null,
\* every row comes back as it was, its enumerations are members again, and a
\* table has one row for each key that its schema names.
Survives(schema, key, table, rows, back) ==
    /\ Writable(schema, table) /\ OneRowPer(key, table)
    /\ back = rows /\ Cardinality(table) = Cardinality(rows)

DumpSurvives ==
    /\ \A r \in AllRows : PerturbedRecordOK(r) /\ ReadPerturbed(PerturbedRow(r)) = r
    /\ Writable(PERTURBED_SCHEMA, ToTable(PERTURBED_SCHEMA, {PerturbedRow(r) : r \in AllRows}))
    /\ \A s \in DOMAIN dump.clean :
          LET row == CleanRow(s, dump.clean[s]) IN
          /\ StatusAndLogitsOK(dump.clean[s]) /\ Writable(CLEAN_SCHEMA, ToTable(CLEAN_SCHEMA, {row}))
          /\ ReadClean(row) = dump.clean[s]

MetricsSurvive ==
    LET items == ItemMetricsToTable(tables.scores)
        samples == SampleMetricsToTable(tables.samples)
        regions == RegionMetricsToTable(tables.regions)
        classes == ClassMetricsToTable(tables.classes)
        rows == SpatialProfile(tables.scores, Accepted)
        profile == SpatialProfileToTable(rows) IN
    /\ Survives(ITEM_METRICS_SCHEMA, {"item_id", "metric_name"}, items,
                tables.scores, TableToItemMetrics(items))
    /\ \A x \in items : x.excluded_reason \in ExclusionReason \cup {None}
    /\ Survives(SAMPLE_METRICS_SCHEMA, {"sample_id", "metric_name"}, samples,
                tables.samples, TableToSampleMetrics(samples))
    /\ Survives(REGION_METRICS_SCHEMA, {"region_key", "metric_name"}, regions,
                tables.regions, TableToRegionMetrics(regions))
    /\ Survives(CLASS_METRICS_SCHEMA, {"gt_label", "metric_name"}, classes,
                tables.classes, TableToClassMetrics(classes))
    /\ Survives(SPATIAL_PROFILE_SCHEMA, {"sample_id", "region_key", "metric_name"}, profile,
                rows, TableToSpatialProfile(profile))

\* a grade is counted as often as the rows that are read back have it
AnalysisSurvives ==
    LET keys == AnchorColumns \cup ConditionColumns
        controls == ControlComparisonToTable(tables.controls)
        seeds == SeedStabilityToTable(tables.seeds)
        strategies == StrategyStabilityToTable(tables.strategies)
        ranks == RankCorrelationToTable(tables.ranks)
        profile == StrategyProfileToTable(tables.profile)
        intervals == IntervalsToTable(tables.excludes)
        verdicts == ReliabilityToTable(tables.verdicts)
        manifest == ManifestToJson(tables.available, TableToReliability(verdicts)) IN
    /\ Survives(CONTROL_COMPARISON_SCHEMA, keys, controls, tables.controls,
                TableToControlComparison(controls))
    /\ \A x \in controls : {x.control_available, x.area_matched} \subseteq FlagValue
    /\ \A p \in tables.pairs : p.method \in MatchMethod
    /\ Survives(SEED_STABILITY_SCHEMA, keys, seeds, tables.seeds, TableToSeedStability(seeds))
    /\ \A x \in tables.seeds : SeedStabilityOK(x)
    /\ Survives(STRATEGY_STABILITY_SCHEMA, AnchorColumns, strategies, tables.strategies,
                TableToStrategyStability(strategies))
    /\ Survives(RANK_CORRELATION_SCHEMA, {"op_a", "op_b"}, ranks, tables.ranks,
                TableToRankCorrelation(ranks))
    /\ Survives(STRATEGY_PROFILE_SCHEMA, {"perturb_op"}, profile, tables.profile,
                TableToStrategyProfile(profile))
    /\ \A x \in profile : x.alignment \in AlignmentValue
    /\ Writable(INTERVALS_SCHEMA, intervals) /\ TableToIntervals(intervals) = tables.excludes
    /\ Survives(RELIABILITY_SCHEMA, AnchorColumns, verdicts, tables.verdicts,
                TableToReliability(verdicts))
    /\ \A x \in tables.verdicts : ReliabilityOK(x)
    /\ AvailableOK(manifest.available_analyses)
    /\ Total(LAMBDA g : manifest.grade_distribution[g], DOMAIN manifest.grade_distribution)
          = Cardinality(tables.verdicts)
    /\ CoverageReportToJson(tables.coverage) = tables.coverage

StoresKeepWhatWasComputed ==
    /\ stage = "idle" => DumpSurvives
    /\ stage = "measured" => MetricsSurvive
    /\ stage = "analyzed" => AnalysisSurvives

\* Every row of the dump is in the tables or counted as left out, and two
\* packages that read it apart, in any order, see the same.
RowsAreAccountedFor ==
    /\ TypeOK /\ NothingDroppedSilently /\ GeometryIsOrderFree /\ BothPathsAgree
    /\ StoresKeepWhatWasComputed

\* The verdicts rest on evidence about their own anchors, and on nothing else.
EvidenceIsSound ==
    /\ ControlsKeepTheirTarget /\ ResultsWereAnnounced /\ EveryScoredTargetIsGraded
    /\ MissingEvidenceIsNoRefutation /\ ClustersAreComponents

\* The report shows what was computed: all of it, once, and consistently.
ReportShowsTheTables ==
    /\ GalleriesAreTheExtremes /\ SharesAddUp /\ EveryVerdictIsShownOnce
    /\ CardsShowTheCountedDegradation /\ ClassesSplitTheGroups
=============================================================================
