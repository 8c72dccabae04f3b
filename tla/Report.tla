------------------------------- MODULE Report -------------------------------
(***************************************************************************)
(* The report of a dump (ssat/report): the assembler joins metrics and     *)
(* verdicts into rankings, galleries, a row per region and per semantic    *)
(* group, and a label file for training is exported from what the report   *)
(* left on disk.                                                           *)
(*                                                                         *)
(* A share is kept as the count it is a share of, and an entropy as the    *)
(* end of [0, 1] it lies at.  The order of tied rows is that of the stores *)
(* and left open, as is the first of tied counts.                          *)
(***************************************************************************)
EXTENDS Stores

CONSTANTS
    Family,      \* region -> region_id, the family it belongs to
    Group,       \* region_id -> its semantic_group
    RegionTopK,  \* region_top_k
    Blank        \* the empty cell of a CSV file

ASSUME ReportAssumption ==
    /\ RegionTopK \in Nat /\ Blank # None
    /\ \A g \in DOMAIN Family : Family[g] \in DOMAIN Group

-----------------------------------------------------------------------------
(* Verdicts, grouped and reduced to the worst.                             *)

Severity == <<"unreliable", "low", "moderate", "high">>

WorstGrade(verdicts) ==
    IF verdicts = {} THEN None
    ELSE Severity[Min({i \in DOMAIN Severity : \E v \in verdicts : v.grade = Severity[i]})]
Distribution(verdicts) ==
    [g \in Range(Severity) |-> Cardinality({v \in verdicts : v.grade = g})]

OfSample(verdicts, s) == {v \in verdicts : v.anchor.sample = s}
OfRegion(verdicts, g) == {v \in verdicts : v.anchor.region = g}
OfFamily(verdicts, f) == {v \in verdicts : Family[v.anchor.region] = f}
GroupOf(g) == Group[Family[g]]
OfGroup(verdicts, h) == {v \in verdicts : GroupOf(v.anchor.region) = h}

-----------------------------------------------------------------------------
(* Rankings and galleries.                                                 *)

\* the orders a stable sort, best first, may leave S in
Sorted(S, value(_)) ==
    {q \in SetToSeqs(S) : \A i, j \in DOMAIN q : i < j => value(q[i]) >= value(q[j])}

Scored(samples) == {x \in samples : x.vulnerability_score # None}
Unscored(samples) == SetToSortSeq(samples \ Scored(samples), LAMBDA x, y : x.sample < y.sample)
Rankings(samples) == Sorted(Scored(samples), LAMBDA x : x.vulnerability_score)

\* scored[:k] and scored[-k:]
FirstOf(k, q) == SubSeq(q, 1, Min({k, Len(q)}))
LastOf(k, q) == IF k = 0 THEN q ELSE SubSeq(q, Max({1, Len(q) - k + 1}), Len(q))

MostVulnerable(ranking, k) == FirstOf(k, ranking)
MostRobust(ranking, k) == IF k = 0 THEN <<>> ELSE Reverse(LastOf(k, ranking))
Gallery(ranking, top, bottom) ==
    {x.sample : x \in Range(MostVulnerable(ranking, top)) \cup Range(MostRobust(ranking, bottom))}

\* regions without a degradation come last
TopRegionOrders(profile, s) ==
    LET rows == {p \in profile : p.sample = s}
        known == {p \in rows : p.degradation # None} IN
    {q \o r : q \in Sorted(known, LAMBDA p : p.degradation), r \in SetToSeqs(rows \ known)}

TopRegions(order, verdicts) ==
    [i \in 1..Min({RegionTopK, Len(order)}) |->
        [region |-> order[i].region, degradation |-> order[i].degradation,
         grade |-> WorstGrade(OfRegion(OfSample(verdicts, order[i].sample), order[i].region))]]

\* orders: a sample of the gallery -> the order of its regions
Card(x, verdicts, orders) ==
    [sample |-> x.sample, gt_label |-> x.gt_label, clean_correct |-> x.clean_correct,
     vulnerability_score |-> x.vulnerability_score,
     reliability_grade |-> WorstGrade(OfSample(verdicts, x.sample)),
     asset_ref |-> None,
     top_regions |-> IF x.sample \in DOMAIN orders
                     THEN TopRegions(orders[x.sample], verdicts) ELSE <<>>]

\* link_assets: a sample that cannot be drawn is left out, the others are not
Linked(cards, drawn) ==
    [i \in DOMAIN cards |->
        IF cards[i].sample \in drawn THEN [cards[i] EXCEPT !.asset_ref = cards[i].sample]
        ELSE cards[i]]

-----------------------------------------------------------------------------
(* Each sample's most degraded region, and semantic group.                 *)

\* faulty: the first name wins
FirstName(entries) == CHOOSE e \in entries : \A o \in entries : e.name <= o.name
\* ties resolve to the first name
Leader(entries) ==
    CHOOSE e \in entries : \A o \in entries :
        e.degradation > o.degradation \/ (e.degradation = o.degradation /\ e.name <= o.name)

Leaders(entries) ==
    [s \in {e.sample : e \in entries} |-> Leader({e \in entries : e.sample = s}).name]

RegionEntries(profile) ==
    {[sample |-> p.sample, name |-> p.region, degradation |-> p.degradation] :
        p \in {q \in profile : q.degradation # None}}
TopRegionBySample(profile) == Leaders(RegionEntries(profile))

\* faulty: one region of a group speaks for the others
GroupEntriesOfOne(profile) ==
    LET known == {p \in profile : p.degradation # None} IN
    {[sample |-> p.sample, name |-> GroupOf(p.region), degradation |-> p.degradation] :
        p \in {q \in known : \A o \in known :
                  o.sample = q.sample /\ GroupOf(o.region) = GroupOf(q.region)
                     => q.region <= o.region}}
GroupEntries(profile) ==
    LET known == {p \in profile : p.degradation # None}
        mates(p) == {q \in known : q.sample = p.sample /\ GroupOf(q.region) = GroupOf(p.region)} IN
    {[sample |-> p.sample, name |-> GroupOf(p.region),
      degradation |-> MeanOf(LAMBDA q : q.degradation, mates(p))] : p \in known}
TopGroupBySample(profile) == Leaders(GroupEntries(profile))

Count(leaders, name) == Cardinality({s \in DOMAIN leaders : leaders[s] = name})

\* 0: one location leads in every sample; 1: each of n as often as any other
Entropy(leaders, n) ==
    LET counts == {Count(leaders, name) : name \in Range(leaders)} IN
    IF Cardinality(Range(leaders)) = 1 THEN "zero"
    ELSE IF Cardinality(Range(leaders)) = n /\ Cardinality(counts) = 1 THEN "one"
    ELSE "between"

NoConcentration == [dominant |-> None, count |-> 0, entropy |-> None, n_scored_samples |-> 0]

Concentrations(leaders, n) ==
    LET most == Max({Count(leaders, name) : name \in Range(leaders)}) IN
    {[dominant |-> name, count |-> most,
      entropy |-> IF n > 1 THEN Entropy(leaders, n) ELSE None,
      n_scored_samples |-> Cardinality(DOMAIN leaders)] :
        name \in {r \in Range(leaders) : Count(leaders, r) = most}}

SpatialConcentrations(leaders, regions) ==
    IF leaders = <<>> THEN {NoConcentration}
    ELSE Concentrations(leaders, Cardinality({x.region : x \in regions}))

\* one group has nothing to be compared with
SemanticGroups(regions) == {GroupOf(x.region) : x \in regions}
SemanticConcentrations(leaders, regions) ==
    LET n == Cardinality(SemanticGroups(regions)) IN
    IF n <= 1 \/ leaders = <<>> THEN {NoConcentration} ELSE Concentrations(leaders, n)

-----------------------------------------------------------------------------
(* A row per region; the regions of a skeleton, which every sample has its *)
(* own of, are joined per family.                                          *)

RegionRow(name, kind, verdicts, mean, flip, valid, tops) ==
    [name |-> name, kind |-> kind, metric_mean |-> mean, flip_rate |-> flip,
     n_valid |-> valid, reliability_grade |-> WorstGrade(verdicts),
     reliability_distribution |-> Distribution(verdicts), top_count |-> tops]

WeightedMean(S, value(_)) ==
    LET usable == {x \in S : value(x) # None /\ x.n_valid > 0} IN
    IF usable = {} THEN None
    ELSE Total(LAMBDA x : x.n_valid * value(x), usable) \div Total(LAMBDA x : x.n_valid, usable)

KindOf(rows, g) == (CHOOSE r \in rows : r.region = g).kind
SkeletonRows(regions, rows) == {x \in regions : KindOf(rows, x.region) = "skeleton_parts"}

FamilyCount(leaders, f) ==
    Cardinality({s \in DOMAIN leaders : Family[leaders[s]] = f})

FamilyVerdicts(verdicts, group) ==
    OfFamily(verdicts, Family[(CHOOSE x \in group : TRUE).region])

RegionRows(regions, rows, verdicts, leaders) ==
    LET skeleton == SkeletonRows(regions, rows)
        family(x) == {y \in skeleton : Family[y.region] = Family[x.region]} IN
    {RegionRow(x.region, KindOf(rows, x.region), OfRegion(verdicts, x.region), x.metric_mean,
               x.flip_rate, x.n_valid, Count(leaders, x.region)) : x \in regions \ skeleton}
    \cup
    {RegionRow(Family[x.region], "skeleton_parts", FamilyVerdicts(verdicts, family(x)),
               WeightedMean(family(x), LAMBDA y : y.metric_mean),
               WeightedMean(family(x), LAMBDA y : y.flip_rate),
               Total(LAMBDA y : y.n_valid, family(x)),
               FamilyCount(leaders, Family[x.region])) : x \in skeleton}

-----------------------------------------------------------------------------
(* Semantic groups, and classes by semantic groups.                        *)

GroupRows(entries, regions, verdicts, binary) ==
    LET row(h) ==
        LET own == {e \in entries : e.name = h}
            flips == {x \in regions : GroupOf(x.region) = h /\ x.flip_rate # None} IN
        [group |-> h,
         families |-> {f \in DOMAIN Group : Group[f] = h},
         n_samples |-> Cardinality({e.sample : e \in own}),
         mean |-> MeanOf(LAMBDA e : e.degradation, own),
         high_count |-> Cardinality({v \in OfGroup(verdicts, h) : v.grade = "high"}),
         n_graded |-> Cardinality(OfGroup(verdicts, h)),
         flip_rate |-> IF binary THEN MeanOf(LAMBDA x : x.flip_rate, flips) ELSE None] IN
    {row(e.name) : e \in entries}

Labelled(entries, label) == {e \in entries : label[e.sample] # None}

ClassSemanticMatrix(entries, label) ==
    LET labelled == Labelled(entries, label)
        own(e) == {o \in labelled : o.name = e.name /\ label[o.sample] = label[e.sample]} IN
    {[gt_label |-> label[e.sample], group |-> e.name,
      n_samples |-> Cardinality({o.sample : o \in own(e)}),
      mean |-> MeanOf(LAMBDA o : o.degradation, own(e))] : e \in labelled}
ExcludedWithoutLabel(entries, label) ==
    Cardinality({e.sample : e \in entries} \ {e.sample : e \in Labelled(entries, label)})

-----------------------------------------------------------------------------
(* The scorecard, and the spotlight.                                       *)

ScoreCards(samples, comparisons) ==
    LET correct == {x \in samples : x.clean_correct # None} IN
    [accuracy |-> IF correct = {} THEN None
                  ELSE <<Cardinality({x \in correct : x.clean_correct}), Cardinality(correct)>>,
     mean |-> MeanOf(LAMBDA x : x.metric_mean, {x \in samples : x.metric_mean # None}),
     flip_rate |-> MeanOf(LAMBDA x : x.flip_rate, {x \in samples : x.flip_rate # None}),
     control_comparison |-> \E x \in comparisons : x.control_available = "true" /\ x.z_known]

\* the metric is binary if the flip rate has a value
IsBinary(cards) == cards.flip_rate # None

Flagged(verdicts) == {v.anchor : v \in {u \in verdicts : u.grade = "unreliable"}}

FailureRate(summary) ==
    IF summary.total_perturbed_items = 0 THEN None
    ELSE <<summary.items_excluded_perturbed_failed, summary.total_perturbed_items>>

\* what the types of a report demand
ConcentrationOK(c) ==
    /\ (c.dominant = None) <=> (c.count = 0)
    /\ c.count <= c.n_scored_samples
RegionRowOK(x, scored) == UnitInterval(x.flip_rate) /\ x.n_valid >= 0 /\ x.top_count <= scored
GroupRowOK(x) == /\ x.families # {} /\ UnitInterval(x.flip_rate)
                 /\ x.high_count <= x.n_graded

ReportOK(report) ==
    /\ ConcentrationOK(report.spatial) /\ ConcentrationOK(report.semantic)
    /\ \A x \in report.regions : RegionRowOK(x, report.spatial.n_scored_samples)
    /\ \A x \in report.groups : GroupRowOK(x)
    /\ UnitInterval(report.scorecard.flip_rate)
    /\ report.failure_rate # None => report.failure_rate[1] <= report.failure_rate[2]

-----------------------------------------------------------------------------
(* What the exporter writes is all the label export can read.              *)

Written(v) == IF v = None THEN Blank ELSE v
Parsed(cell) == IF cell = Blank THEN None ELSE cell

SampleRankingsCsv(cards, entries) ==
    {[sample |-> cards[i].sample, gt_label |-> Written(cards[i].gt_label),
      clean_correct |-> Written(cards[i].clean_correct),
      semantic_degradation |-> [h \in {e.name : e \in {o \in entries : o.sample = cards[i].sample}} |->
          (CHOOSE e \in entries : e.sample = cards[i].sample /\ e.name = h).degradation]] :
        i \in DOMAIN cards}

KeptForLabels(row) == Parsed(row.clean_correct) = TRUE

RiskLabels(csv, binary, only_clean_correct) ==
    UNION {{[sample |-> row.sample, gt_label |-> Parsed(row.gt_label), group |-> h,
             degradation |-> row.semantic_degradation[h],
             risk_label |-> IF binary THEN row.semantic_degradation[h] > 0 ELSE None] :
              h \in DOMAIN row.semantic_degradation} :
           row \in {r \in csv : only_clean_correct => KeptForLabels(r)}}
=============================================================================
