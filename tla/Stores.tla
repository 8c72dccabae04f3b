------------------------------- MODULE Stores -------------------------------
(***************************************************************************)
(* The files between the commands (core/dump, metrics/store.py,            *)
(* analysis/store.py): every row is flattened to the columns of a schema   *)
(* and written; the next command reads the columns and builds the row      *)
(* again.  Keys are flattened to their parts, members of an enumeration to *)
(* their values, and a mapping to the text of a JSON object.               *)
(*                                                                         *)
(* A table is a set of rows.  The columns are those that carry what Scores *)
(* and Evidence compute: a statistic they abstract has no column of its    *)
(* own, and all rows of an analysis are of the metric that is followed.    *)
(***************************************************************************)
EXTENDS Evidence

\* a schema: its columns, and those that may be null
Schema(required, nullable) ==
    [c \in required \cup nullable |-> IF c \in nullable THEN "nullable" ELSE "required"]

\* a column the row does not name is null, and a name without a column is lost
ToTable(schema, rows) ==
    {[c \in DOMAIN schema |-> IF c \in DOMAIN x THEN x[c] ELSE None] : x \in rows}
\* a null in a required column fails the write
Writable(schema, table) ==
    \A x \in table, c \in DOMAIN schema : schema[c] = "required" => x[c] # None

-----------------------------------------------------------------------------
(* The dump.                                                               *)

CLEAN_SCHEMA == Schema({"sample_id", "status"}, {"gt_label", "logits"})
PERTURBED_SCHEMA ==
    Schema({"item_id", "sample_id", "status", "region_key", "region_kind",
            "region_params_json", "perturb_op", "perturb_params_json", "invert_mask",
            "is_control", "effective_area_available"},
           {"intended_area_px", "effective_area_px", "logits"})

StatusAndLogitsOK(x) == x.status = "ok" <=> x.logits # None
\* a region that was never prepared has no area
PerturbedRecordOK(r) == StatusAndLogitsOK(r) /\ (r.status = "ok" => r.intended # None)

CleanRow(s, c) ==
    [sample_id |-> s, gt_label |-> c.label, status |-> c.status, logits |-> c.logits]
PerturbedRow(r) ==
    [item_id |-> r.item, sample_id |-> r.sample, status |-> r.status,
     region_key |-> r.region, region_kind |-> r.kind,
     region_params_json |-> [target |-> r.target, index |-> r.index, salt |-> r.salt],
     intended_area_px |-> r.intended, effective_area_px |-> r.effective,
     effective_area_available |-> r.effective # None,
     perturb_op |-> r.op, perturb_params_json |-> r.params,
     invert_mask |-> r.invert, is_control |-> r.control, logits |-> r.logits]

\* what the readers of both packages make of a row
ReadClean(x) == [status |-> x.status, label |-> x.gt_label, logits |-> x.logits]
ReadPerturbed(x) ==
    [item |-> x.item_id, sample |-> x.sample_id, region |-> x.region_key,
     kind |-> x.region_kind, intended |-> x.intended_area_px,
     effective |-> IF x.effective_area_available THEN x.effective_area_px ELSE None,
     invert |-> x.invert_mask, op |-> x.perturb_op, params |-> x.perturb_params_json,
     salt |-> x.region_params_json.salt, index |-> x.region_params_json.index,
     control |-> x.is_control, target |-> x.region_params_json.target,
     status |-> x.status, logits |-> x.logits]

-----------------------------------------------------------------------------
(* The metrics store.                                                      *)

ExclusionReason == {"perturbed_status_not_ok", "gt_label_unknown"}

ITEM_METRICS_SCHEMA ==
    Schema({"item_id", "sample_id", "metric_name", "available"},
           {"clean_correct", "degradation", "excluded_reason"})
SAMPLE_METRICS_SCHEMA ==
    Schema({"sample_id", "metric_name", "n_items", "n_valid"},
           {"gt_label", "clean_correct", "flip_rate", "vulnerability_score", "metric_mean"})
REGION_METRICS_SCHEMA ==
    Schema({"region_key", "metric_name", "n_samples", "n_valid"},
           {"flip_rate", "metric_mean"})
CLASS_METRICS_SCHEMA ==
    Schema({"gt_label", "metric_name", "n_samples"}, {"flip_rate", "metric_mean"})
SPATIAL_PROFILE_SCHEMA ==
    Schema({"sample_id", "region_key", "metric_name"}, {"degradation"})

ItemMetricsToTable(rows) ==
    ToTable(ITEM_METRICS_SCHEMA,
        {[item_id |-> x.item, sample_id |-> x.sample, metric_name |-> x.metric,
          clean_correct |-> x.clean_correct, degradation |-> x.degradation,
          available |-> x.available, excluded_reason |-> x.excluded_reason] : x \in rows})
TableToItemMetrics(table) ==
    {[item |-> x.item_id, sample |-> x.sample_id, metric |-> x.metric_name,
      clean_correct |-> x.clean_correct, degradation |-> x.degradation,
      available |-> x.available, excluded_reason |-> x.excluded_reason] : x \in table}

SampleMetricsToTable(rows) ==
    ToTable(SAMPLE_METRICS_SCHEMA,
        {[sample_id |-> x.sample, metric_name |-> x.metric, gt_label |-> x.gt_label,
          clean_correct |-> x.clean_correct, n_items |-> x.n_items, n_valid |-> x.n_valid,
          flip_rate |-> x.flip_rate, vulnerability_score |-> x.vulnerability_score,
          metric_mean |-> x.metric_mean] : x \in rows})
TableToSampleMetrics(table) ==
    {[sample |-> x.sample_id, metric |-> x.metric_name, gt_label |-> x.gt_label,
      clean_correct |-> x.clean_correct, n_items |-> x.n_items, n_valid |-> x.n_valid,
      metric_mean |-> x.metric_mean, flip_rate |-> x.flip_rate,
      vulnerability_score |-> x.vulnerability_score] : x \in table}

RegionMetricsToTable(rows) ==
    ToTable(REGION_METRICS_SCHEMA,
        {[region_key |-> x.region, metric_name |-> x.metric, n_samples |-> x.n_samples,
          n_valid |-> x.n_valid, flip_rate |-> x.flip_rate,
          metric_mean |-> x.metric_mean] : x \in rows})
TableToRegionMetrics(table) ==
    {[region |-> x.region_key, metric |-> x.metric_name, n_samples |-> x.n_samples,
      n_valid |-> x.n_valid, metric_mean |-> x.metric_mean,
      flip_rate |-> x.flip_rate] : x \in table}

ClassMetricsToTable(rows) ==
    ToTable(CLASS_METRICS_SCHEMA,
        {[gt_label |-> x.gt_label, metric_name |-> x.metric, n_samples |-> x.n_samples,
          flip_rate |-> x.flip_rate, metric_mean |-> x.metric_mean] : x \in rows})
TableToClassMetrics(table) ==
    {[gt_label |-> x.gt_label, metric |-> x.metric_name, n_samples |-> x.n_samples,
      metric_mean |-> x.metric_mean, flip_rate |-> x.flip_rate] : x \in table}

SpatialProfileToTable(rows) ==
    ToTable(SPATIAL_PROFILE_SCHEMA,
        {[sample_id |-> x.sample, region_key |-> x.region, metric_name |-> x.metric,
          degradation |-> x.degradation] : x \in rows})
TableToSpatialProfile(table) ==
    {[sample |-> x.sample_id, region |-> x.region_key, metric |-> x.metric_name,
      degradation |-> x.degradation] : x \in table}

-----------------------------------------------------------------------------
(* The analysis store.                                                     *)

FlagValue == {"true", "false", "unavailable"}
ReliabilityGrade == {"high", "moderate", "low", "unreliable"}
AlignmentValue == {"aligned", "partial", "divergent"}
MatchMethod == {"exact_reference", "area_tolerance"}

\* the columns of the keys
AnchorColumns == {"sample_id", "region_key", "invert_mask"}
ConditionColumns == {"perturb_op", "perturb_params_hash"}
AnchorCells(a) ==
    [sample_id |-> a.sample, region_key |-> a.region, invert_mask |-> a.invert]
ConditionCells(c) == [perturb_op |-> c.op, perturb_params_hash |-> c.params]
AnchorFrom(x) ==
    [sample |-> x.sample_id, region |-> x.region_key, invert |-> x.invert_mask]
ConditionFrom(x) == [op |-> x.perturb_op, params |-> x.perturb_params_hash]

CONTROL_COMPARISON_SCHEMA ==
    Schema(AnchorColumns \cup ConditionColumns
             \cup {"control_available", "area_matched", "n_controls"},
           {"control_std", "excess", "z_vs_control"})
SEED_STABILITY_SCHEMA ==
    Schema(AnchorColumns \cup ConditionColumns \cup {"n_seeds"}, {"seed_cv"})
STRATEGY_STABILITY_SCHEMA ==
    Schema(AnchorColumns \cup {"strategy_signs_json", "strategy_values_json",
                               "n_strategies"}, {})
RANK_CORRELATION_SCHEMA ==
    Schema({"op_a", "op_b", "n_regions"}, {"spearman", "spearman_excl_top1"})
STRATEGY_PROFILE_SCHEMA ==
    Schema({"perturb_op", "alignment", "n_anchors"}, {"cluster_id", "sign_ratio_positive"})
INTERVALS_SCHEMA == Schema({"region_key", "excludes_zero"}, {})
RELIABILITY_SCHEMA ==
    Schema(AnchorColumns \cup {"sign_consistent", "exceeds_control", "seed_stable",
                               "multi_strategy", "ci_excludes_zero", "area_matched",
                               "reliability_grade"}, {})

\* without controls there are no statistics
ControlComparisonToTable(rows) ==
    LET known(x, v) == IF x.control_available = "true" THEN v ELSE None IN
    ToTable(CONTROL_COMPARISON_SCHEMA,
        {AnchorCells(x.anchor) @@ ConditionCells(x.condition) @@
         [control_available |-> x.control_available, area_matched |-> x.area_matched,
          n_controls |-> x.n_controls, excess |-> known(x, x.lead),
          control_std |-> known(x, x.spread),
          z_vs_control |-> IF x.z_known THEN x.z_exceeds ELSE None] : x \in rows})
TableToControlComparison(table) ==
    {[anchor |-> AnchorFrom(x), condition |-> ConditionFrom(x),
      control_available |-> x.control_available, area_matched |-> x.area_matched,
      n_controls |-> x.n_controls, lead |-> IF x.excess = None THEN 0 ELSE x.excess,
      spread |-> IF x.control_std = None THEN 0 ELSE x.control_std,
      z_known |-> x.z_vs_control # None, z_exceeds |-> x.z_vs_control = TRUE] : x \in table}

SeedStabilityOK(x) == x.n_seeds >= 0
SeedStabilityToTable(rows) ==
    ToTable(SEED_STABILITY_SCHEMA,
        {AnchorCells(x.anchor) @@ ConditionCells(x.condition) @@
         [n_seeds |-> x.n_seeds,
          seed_cv |-> IF x.cv_known THEN x.cv_stable ELSE None] : x \in rows})
TableToSeedStability(table) ==
    {[anchor |-> AnchorFrom(x), condition |-> ConditionFrom(x), n_seeds |-> x.n_seeds,
      cv_known |-> x.seed_cv # None, cv_stable |-> x.seed_cv = TRUE] : x \in table}

\* json.dumps(.., sort_keys=True) and json.loads of a mapping from operators
JsonText(map) ==
    LET names == SelectSeq(Operators, LAMBDA o : o \in DOMAIN map) IN
    [i \in DOMAIN names |-> <<names[i], map[names[i]]>>]
FromJson(json) ==
    [o \in {p[1] : p \in Range(json)} |-> (CHOOSE p \in Range(json) : p[1] = o)[2]]

StrategyStabilityToTable(rows) ==
    ToTable(STRATEGY_STABILITY_SCHEMA,
        {AnchorCells(x.anchor) @@
         [strategy_signs_json |-> JsonText(x.strategy_signs),
          strategy_values_json |-> JsonText(x.strategy_values),
          n_strategies |-> Cardinality(DOMAIN x.strategy_signs)] : x \in rows})
TableToStrategyStability(table) ==
    {[anchor |-> AnchorFrom(x), strategy_values |-> FromJson(x.strategy_values_json),
      strategy_signs |-> FromJson(x.strategy_signs_json)] : x \in table}

RankCorrelationToTable(rows) == ToTable(RANK_CORRELATION_SCHEMA, rows)
TableToRankCorrelation(table) ==
    {[op_a |-> x.op_a, op_b |-> x.op_b, spearman |-> x.spearman,
      n_regions |-> x.n_regions, spearman_excl_top1 |-> x.spearman_excl_top1] : x \in table}

\* the ratio of positive signs, as its numerator
StrategyProfileToTable(rows) ==
    ToTable(STRATEGY_PROFILE_SCHEMA,
        {[perturb_op |-> x.op, cluster_id |-> x.cluster, alignment |-> x.alignment,
          n_anchors |-> x.n_anchors, sign_ratio_positive |-> x.n_positive] : x \in rows})
TableToStrategyProfile(table) ==
    {[op |-> x.perturb_op, cluster |-> x.cluster_id, alignment |-> x.alignment,
      n_anchors |-> x.n_anchors, n_positive |-> x.sign_ratio_positive] : x \in table}

IntervalsToTable(excludes) ==
    ToTable(INTERVALS_SCHEMA,
        {[region_key |-> g, excludes_zero |-> excludes[g]] : g \in DOMAIN excludes})
TableToIntervals(table) ==
    [g \in {x.region_key : x \in table} |->
        (CHOOSE x \in table : x.region_key = g).excludes_zero]

FlagNames == {"sign_consistent", "exceeds_control", "seed_stable", "multi_strategy",
              "ci_excludes_zero", "area_matched"}
ReliabilityOK(x) ==
    (\A f \in FlagNames : x.flags[f] \in FlagValue) /\ x.grade \in ReliabilityGrade
ReliabilityToTable(rows) ==
    ToTable(RELIABILITY_SCHEMA,
        {AnchorCells(x.anchor) @@ x.flags @@ [reliability_grade |-> x.grade] : x \in rows})
TableToReliability(table) ==
    {[anchor |-> AnchorFrom(x), flags |-> [f \in FlagNames |-> x[f]],
      grade |-> x.reliability_grade] : x \in table}

-----------------------------------------------------------------------------
(* The manifest and the coverage report are JSON objects.  A grade that no *)
(* row has is not in the distribution.                                     *)

AvailableOK(a) == \A f \in DOMAIN a : a[f] \in BOOLEAN
GradeDistribution(rows) ==
    [g \in {x.grade : x \in rows} |-> Cardinality({x \in rows : x.grade = g})]
ManifestToJson(available, rows) ==
    [available_analyses |-> available, grade_distribution |-> GradeDistribution(rows)]
CoverageReportToJson(c) ==
    [n_anchors |-> c.n_anchors, n_conditions_insufficient |-> c.n_conditions_insufficient,
     n_controls_unmatched |-> c.n_controls_unmatched,
     n_area_mismatch_warnings |-> c.n_area_mismatch_warnings]

\* no two rows have the same key
OneRowPer(columns, table) ==
    \A x, y \in table : (\A c \in columns : x[c] = y[c]) => x = y
=============================================================================
