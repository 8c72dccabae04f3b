------------------------------- MODULE Scores -------------------------------
(***************************************************************************)
(* The metrics of a dump (ssat/metrics): the rows of the dump are joined   *)
(* with their clean samples, both logit vectors are normalised against the *)
(* label, every registered metric scores every item, and the scores are    *)
(* averaged per sample, per (sample, region), per region and per class.    *)
(*                                                                         *)
(* An area, a logit and a score are small integers.  Scores are multiples  *)
(* of Scale, so that every mean taken here and in Evidence is an integer.  *)
(* A probability is its position in the order of probabilities: softmax is *)
(* monotone, and rounding may merge neighbours (Prob).                     *)
(***************************************************************************)
EXTENDS Integers, Sequences, FiniteSets, FiniteSetsExt

CONSTANTS
    Classes,   \* classes of the model, 1..n
    Prob,      \* logit -> rank of its probability
    Scale,     \* unit of a score
    TopK,      \* cutoff of topk_exit
    Primary,   \* the metric of vulnerability_score and of the rank correlations
    None

ASSUME ScoresAssumption ==
    /\ IsFiniteSet(Classes) /\ Cardinality(Classes) >= 2 /\ Classes = 1..Cardinality(Classes)
    /\ \A u, v \in DOMAIN Prob : u <= v => Prob[u] <= Prob[v]
    /\ Scale \in Nat \ {0} /\ TopK \in Nat \ {0}

-----------------------------------------------------------------------------
(* The dump as the readers load it: clean rows by sample, perturbed rows.  *)

CleanOK(dump) == {s \in DOMAIN dump.clean : dump.clean[s].status = "ok"}

\* an item of a sample that has no clean row at all is corruption
OrphanItems(dump, rows) == {r \in rows : r.sample \notin DOMAIN dump.clean}

Joined(dump, rows) == {r \in rows : r.sample \in CleanOK(dump)}

Summary(dump, rows) ==
    [total_clean_samples |-> Cardinality(DOMAIN dump.clean),
     total_perturbed_items |-> Cardinality(rows),
     samples_excluded_clean_failed |->
        Cardinality(DOMAIN dump.clean) - Cardinality(CleanOK(dump)),
     items_excluded_perturbed_failed |->
        Cardinality({r \in Joined(dump, rows) : r.status # "ok"})]

-----------------------------------------------------------------------------
(* Normalisation and the built-in metrics.                                 *)

BestOf(logits, S) == Max({logits[c] : c \in S})

\* ties resolve to the best rank, and to the first class of the highest one
Normalize(logits, label) ==
    [top1_index |-> CHOOSE c \in Classes :
        /\ \A d \in Classes : Prob[logits[d]] <= Prob[logits[c]]
        /\ \A d \in 1..(c - 1) : Prob[logits[d]] < Prob[logits[c]],
     gt_logit |-> logits[label],
     gt_rank |-> 1 + Cardinality({c \in Classes :
                                    Prob[logits[c]] > Prob[logits[label]]}),
     margin |-> logits[label] - BestOf(logits, Classes \ {label})]

Event(happened) == IF happened THEN Scale ELSE 0

Flips == {"flip_correct_to_wrong", "flip_wrong_to_correct", "pred_changed",
          "topk_exit"}
Drops == {"gt_logit_drop", "margin_drop", "gt_rank_worsening"}
\* gt_prob_drop and loss_increase are functions of a probability's value,
\* which the rank of a probability does not determine
Registered == Flips \cup Drops

Flip(metric, clean, perturbed) ==
    LET right(x) == x.gt_rank = 1
        within(x) == x.gt_rank <= Min({TopK, Cardinality(Classes)}) IN
    CASE metric = "flip_correct_to_wrong" -> right(clean) /\ ~right(perturbed)
      [] metric = "flip_wrong_to_correct" -> ~right(clean) /\ right(perturbed)
      [] metric = "pred_changed" -> clean.top1_index # perturbed.top1_index
      [] metric = "topk_exit" -> within(clean) /\ ~within(perturbed)

Drop(metric, clean, perturbed) ==
    CASE metric = "gt_logit_drop" -> clean.gt_logit - perturbed.gt_logit
      [] metric = "margin_drop" -> clean.margin - perturbed.margin
      [] metric = "gt_rank_worsening" -> perturbed.gt_rank - clean.gt_rank

Degradation(metric, clean, perturbed) ==
    IF metric \in Flips THEN Event(Flip(metric, clean, perturbed))
    ELSE Scale * Drop(metric, clean, perturbed)

Score(row, clean, metric) ==
    LET known == clean.label # None
        available == known /\ row.status = "ok"
        before == Normalize(clean.logits, clean.label) IN
    [item |-> row.item, sample |-> row.sample, metric |-> metric,
     clean_correct |-> IF known THEN before.gt_rank = 1 ELSE None,
     degradation |-> IF ~available THEN None
                     ELSE Degradation(metric, before,
                                      Normalize(row.logits, clean.label)),
     available |-> available,
     excluded_reason |-> IF ~known THEN "gt_label_unknown"
                         ELSE IF ~available THEN "perturbed_status_not_ok" ELSE None]

ItemMetrics(dump, rows) ==
    {Score(r, dump.clean[r.sample], m) : r \in Joined(dump, rows), m \in Registered}

\* what the row type demands of its fields
ItemMetricOK(x) ==
    /\ x.available <=> x.excluded_reason = None
    /\ x.available <=> x.degradation # None
    /\ x.excluded_reason = "gt_label_unknown" <=> x.clean_correct = None

-----------------------------------------------------------------------------
(* Geometry: the rows of one region of one sample agree on their areas, as *)
(* far as they are known.  The check runs row by row in the dump's order.  *)

\* faulty: a region has one area in every sample
AreaKeyOfRegion(r) == <<0, r.region>>
AreaKey(r) == <<r.sample, r.region>>

GeometryOK(seen, r) ==
    /\ r.region \in DOMAIN seen.kind => seen.kind[r.region] = r.kind
    /\ r.kind # "random_area_match" /\ AreaKey(r) \in DOMAIN seen.area =>
          \A f \in {"intended", "effective"} :
             None \in {seen.area[AreaKey(r)][f], r[f]}
             \/ seen.area[AreaKey(r)][f] = r[f]

With(map, key, value) ==
    [k \in DOMAIN map \cup {key} |-> IF k = key THEN value ELSE map[k]]
\* faulty: what the first row does not know stays unknown
KnownAtFirst(old, new) == old
Known(old, new) == IF old # None THEN old ELSE new

\* a kind is set once, an unknown area is filled in by a later row
Geometry(seen, r) ==
    LET key == AreaKey(r)
        old == IF key \in DOMAIN seen.area THEN seen.area[key]
               ELSE [intended |-> None, effective |-> None] IN
    [kind |-> With(seen.kind, r.region, r.kind),
     area |-> IF r.kind = "random_area_match" THEN seen.area
              ELSE With(seen.area, key,
                        [intended |-> Known(old.intended, r.intended),
                         effective |-> Known(old.effective, r.effective)])]
NothingSeen == [kind |-> <<>>, area |-> <<>>]

-----------------------------------------------------------------------------
(* Aggregation.  Controls are left out.  A sample averages its items; a    *)
(* region and a class average their samples, however many items each has.  *)

Total(value(_), S) == MapThenSumSet(value, S)
MeanOf(value(_), S) == IF S = {} THEN None ELSE Total(value, S) \div Cardinality(S)
Valid(S) == {x \in S : x.available}
MeanScore(S) == MeanOf(LAMBDA x : x.degradation, Valid(S))

RowOf(rows, x) == CHOOSE r \in rows : r.item = x.item
Targets(scores, rows) == {x \in scores : ~RowOf(rows, x).control}
ThisMetric(scores, m) == {x \in scores : x.metric = m}

FlipRate(m, mean) == IF m \in Flips THEN mean ELSE None

Vulnerability(scores, s) ==
    MeanScore({x \in ThisMetric(scores, Primary) : x.sample = s})

SampleMetrics(dump, scores, rows) ==
    LET ofTargets == Targets(scores, rows)
        group(s, m) == {x \in ThisMetric(ofTargets, m) : x.sample = s}
        row(s, m) ==
            [sample |-> s, metric |-> m, gt_label |-> dump.clean[s].label,
             clean_correct |-> (CHOOSE x \in group(s, m) : TRUE).clean_correct,
             n_items |-> Cardinality(group(s, m)),
             n_valid |-> Cardinality(Valid(group(s, m))),
             metric_mean |-> MeanScore(group(s, m)),
             flip_rate |-> FlipRate(m, MeanScore(group(s, m))),
             vulnerability_score |-> Vulnerability(ofTargets, s)] IN
    {row(x.sample, x.metric) : x \in ofTargets}

SpatialProfile(scores, rows) ==
    LET ofTargets == Targets(scores, rows)
        group(s, g, m) == {x \in ThisMetric(ofTargets, m) :
                             x.sample = s /\ RowOf(rows, x).region = g} IN
    {[sample |-> x.sample, region |-> RowOf(rows, x).region, metric |-> x.metric,
      degradation |-> MeanScore(group(x.sample, RowOf(rows, x).region, x.metric))] :
       x \in ofTargets}

RegionMean(profile, scores, rows, g, m) ==
    MeanOf(LAMBDA p : p.degradation,
           {p \in ThisMetric(profile, m) : p.region = g /\ p.degradation # None})

RegionMetrics(scores, rows) ==
    LET profile == SpatialProfile(scores, rows)
        group(g, m) == {p \in ThisMetric(profile, m) : p.region = g}
        row(g, m) ==
            [region |-> g, metric |-> m,
             n_samples |-> Cardinality(group(g, m)),
             n_valid |-> Cardinality({p \in group(g, m) : p.degradation # None}),
             metric_mean |-> RegionMean(profile, scores, rows, g, m),
             flip_rate |-> FlipRate(m, RegionMean(profile, scores, rows, g, m))] IN
    {row(p.region, p.metric) : p \in profile}

\* a sample without a label belongs to no class
ClassMetrics(samples) ==
    LET labelled == {x \in samples : x.gt_label # None}
        group(c, m) == {x \in ThisMetric(labelled, m) : x.gt_label = c}
        mean(S) == MeanOf(LAMBDA x : x.metric_mean, {x \in S : x.metric_mean # None}) IN
    {[gt_label |-> x.gt_label, metric |-> x.metric,
      n_samples |-> Cardinality(group(x.gt_label, x.metric)),
      metric_mean |-> mean(group(x.gt_label, x.metric)),
      flip_rate |-> FlipRate(x.metric, mean(group(x.gt_label, x.metric)))] : x \in labelled}

UnitInterval(v) == v = None \/ (0 <= v /\ v <= Scale)
SampleMetricOK(x) == x.n_valid <= x.n_items /\ UnitInterval(x.flip_rate)
RegionMetricOK(x) == x.n_valid <= x.n_samples /\ UnitInterval(x.flip_rate)
ClassMetricOK(x) == x.n_samples >= 0 /\ UnitInterval(x.flip_rate)
=============================================================================
