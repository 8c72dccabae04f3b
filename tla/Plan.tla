-------------------------------- MODULE Plan --------------------------------
(***************************************************************************)
(* From a configuration to the work list (ssat/core/config,                *)
(* ssat/core/plan): validation, resolution of file references and dataset  *)
(* statistics, expansion of region families and controls, identity of the  *)
(* items, chunks.                                                          *)
(*                                                                         *)
(* Digests are injective: an identity is the tuple it is computed from.    *)
(* A float of an identity is written with twelve decimals (IdentityValue):*)
(* it is a number of units, UnitsPerDigit of which make the last decimal.  *)
(* A fill is one level for every channel (n_values = None) or a list of    *)
(* n_values levels, which are alike here.                                  *)
(***************************************************************************)
EXTENDS Rounding, Subsequences, FiniteSets, SequencesExt

CONSTANTS
    Frames,          \* sample -> shape [t, h, w]
    Levels,          \* sample -> sum of the pixel values of a channel
    Channels,        \* sample -> number of its channels
    PartsTracked,    \* the <<sample, part>> the skeleton store has
    UnitsPerDigit,
    None

Families == {"grid", "explicit", "skeleton_parts"}

-----------------------------------------------------------------------------
(* Validation.                                                             *)

Distinct(seq) == Cardinality(Range(seq)) = Len(seq)
RegionIds(config) == [i \in DOMAIN config.regions |-> config.regions[i].region_id]

FamilyOK(region) ==
    /\ region.kind \in Families   \* the others are reserved or internal
    /\ region.kind = "grid" => region.params.rows > 0 /\ region.params.cols > 0
    /\ region.kind = "skeleton_parts" => region.params.scale > 0
    /\ region.kind = "explicit" <=> region.ref # None

OperatorOK(p) ==
    /\ p.salts # <<>> /\ Distinct(p.salts)
    /\ p.op = "mean_fill" => p.value = None   \* the value is computed
    /\ p.op # "mean_fill" => p.value # None
    /\ p.n_values # None => p.op = "constant_fill" /\ p.n_values > 0
    /\ p.op \in {"blur", "gaussian_noise", "patch_shuffle"} => p.value > 0

ConfigOK(config) ==
    /\ config.regions # <<>> /\ config.perturbations # <<>>
    /\ Distinct(RegionIds(config))
    /\ \A c \in Range(config.controls) :
          c.match_area_of \in Range(RegionIds(config)) /\ c.n_samples > 0
    /\ \A r \in Range(config.regions) : FamilyOK(r)
    /\ \A p \in Range(config.perturbations) : OperatorOK(p)

-----------------------------------------------------------------------------
(* Resolution.                                                             *)

\* a declared digest must be that of the file, which must be there
RegionResolves(region, files) ==
    region.ref # None =>
        /\ region.ref \in DOMAIN files
        /\ region.ref_hash \in {None, files[region.ref]}

ResolvedRegion(region, files) ==
    IF region.ref = None THEN region ELSE [region EXCEPT !.ref_hash = files[region.ref]]

NeedsStats(config) == \E p \in Range(config.perturbations) : p.op = "mean_fill"

\* samples that cannot be read are skipped
ChannelMean(readable) ==
    HalfEven(UnitsPerDigit * MapThenSumSet(LAMBDA s : Levels[s], readable),
             MapThenSumSet(LAMBDA s : Frames[s].t * Frames[s].h * Frames[s].w, readable))
StatsResolve(config, readable) ==
    NeedsStats(config) /\ config.dataset_stats = None =>
        /\ Distinct(config.listed) /\ readable # {}
        /\ \A s, t \in readable : Channels[s] = Channels[t]
Stats(config, readable) ==
    IF config.dataset_stats # None THEN config.dataset_stats
    ELSE IF NeedsStats(config)
    THEN [mean |-> ChannelMean(readable), n_values |-> Channels[CHOOSE s \in readable : TRUE]]
    ELSE None

ResolvedPerturbation(p, stats) ==
    [op |-> p.op, salts |-> p.salts, invert |-> p.invert,
     value |-> IF p.op = "mean_fill" THEN stats.mean ELSE p.value,
     n_values |-> IF p.op = "mean_fill" THEN stats.n_values ELSE p.n_values]

Resolves(config, files, readable) ==
    /\ ConfigOK(config) /\ StatsResolve(config, readable)
    /\ \A r \in Range(config.regions) : RegionResolves(r, files)
Resolved(config, files, readable) ==
    LET stats == Stats(config, readable) IN
    [config EXCEPT
        !.regions = [i \in DOMAIN @ |-> ResolvedRegion(@[i], files)],
        !.perturbations = [i \in DOMAIN @ |-> ResolvedPerturbation(@[i], stats)],
        !.dataset_stats = stats]

-----------------------------------------------------------------------------
(* Regions of a sample.                                                    *)

RegionSpec(region_id, instance, kind, params, ref, ref_hash) ==
    [region_id |-> region_id, instance |-> instance, kind |-> kind, params |-> params,
     ref |-> ref, ref_hash |-> ref_hash]

GridCells(family) ==
    [k \in 1..(family.params.rows * family.params.cols) |->
        LET row == (k - 1) \div family.params.cols
            col == (k - 1) % family.params.cols IN
        RegionSpec(<<family.region_id>>, <<family.region_id, row, col>>, "grid",
                   [rows |-> family.params.rows, cols |-> family.params.cols,
                    row |-> row, col |-> col], None, None)]

\* the provider has no region for a part it does not track
Instances(sample, family) ==
    CASE family.kind = "grid" -> GridCells(family)
      [] family.kind = "explicit" ->
            <<RegionSpec(<<family.region_id>>, <<family.region_id>>, "explicit", <<>>,
                         family.ref, family.ref_hash)>>
      [] family.kind = "skeleton_parts" ->
            IF <<sample, family.params.part>> \notin PartsTracked THEN <<>>
            ELSE <<RegionSpec(<<family.region_id>>, <<family.region_id, sample>>,
                              "skeleton_parts",
                              [sample |-> sample, part |-> family.params.part,
                               scale |-> family.params.scale], None, None)>>
Expands(sample, family) == Instances(sample, family) # <<>>

ControlRegion(control, request, target, index) ==
    RegionSpec(<<"control", control.match_area_of, request>>,
               <<"control", target.instance, request, index>>, "random_area_match",
               [target_region |-> target, request |-> request, index |-> index], None, None)

\* n_samples controls of every instance of the family
ControlRegions(control, request, targets) ==
    FlattenSeq([t \in DOMAIN targets |->
        [i \in 1..control.n_samples |-> ControlRegion(control, request, targets[t], i)]])

-----------------------------------------------------------------------------
(* Items.                                                                  *)

\* a size is an integer, the other parameters are floats; a list is no number
IdentityValue(p) ==
    <<p.n_values, IF p.op = "patch_shuffle" THEN p.value ELSE HalfEven(p.value, UnitsPerDigit)>>

ItemId(sample, region, p, salt, is_control) ==
    <<sample, p.op, IdentityValue(p), p.invert, salt, is_control, region.region_id,
      region.instance, region.kind, region.params, region.ref, region.ref_hash>>

Item(sample, region, p, salt, is_control) ==
    [item_id |-> ItemId(sample, region, p, salt, is_control), sample |-> sample,
     region |-> region, op |-> p.op, value |-> p.value, n_values |-> p.n_values,
     invert |-> p.invert, salt |-> salt, is_control |-> is_control]

\* region by region, perturbation by perturbation, salt by salt
ItemsOf(sample, regions, perturbations, is_control) ==
    FlattenSeq([r \in DOMAIN regions |->
        FlattenSeq([p \in DOMAIN perturbations |->
            [s \in DOMAIN perturbations[p].salts |->
                Item(sample, regions[r], perturbations[p],
                     perturbations[p].salts[s], is_control)]])])

SampleItems(sample, config) ==
    LET instances == [f \in DOMAIN config.regions |-> Instances(sample, config.regions[f])]
        family(id) == CHOOSE f \in DOMAIN config.regions : config.regions[f].region_id = id
        controls == [k \in DOMAIN config.controls |->
            ControlRegions(config.controls[k], k,
                           instances[family(config.controls[k].match_area_of)])] IN
    ItemsOf(sample, FlattenSeq(instances), config.perturbations, FALSE)
    \o ItemsOf(sample, FlattenSeq(controls), config.perturbations, TRUE)

IdsOf(items) == [i \in DOMAIN items |-> items[i].item_id]

-----------------------------------------------------------------------------
(* Chunks.                                                                 *)

\* faulty: a last, smaller chunk is left out
ChunkCountWhole(items, size) == Len(items) \div size

ChunkCount(items, size) == Ceiling(Len(items), size)

Slice(items, ordinal, size) ==
    SubSeq(items, (ordinal - 1) * size + 1,
           IF ordinal * size < Len(items) THEN ordinal * size ELSE Len(items))

ChunkMeta(sample, items, ordinal, size) ==
    [sample |-> sample, ordinal |-> ordinal,
     item_ids |-> IdsOf(Slice(items, ordinal, size))]

SampleChunks(sample, items, size) ==
    [k \in 1..ChunkCount(items, size) |-> ChunkMeta(sample, items, k, size)]

\* listed is what the source returns, in its order; items are those of the samples
PlanOK(config, items) ==
    /\ config.listed # <<>> /\ Distinct(config.listed)
    /\ \A s \in Range(config.listed) :
          /\ \A f \in DOMAIN config.regions : Expands(s, config.regions[f])
          /\ Distinct(IdsOf(items[s]))

\* in the order of the sample ids
Enumerated(config, items) ==
    LET samples == Range(config.listed)
        nth(i) == CHOOSE s \in samples : Cardinality({t \in samples : t < s}) = i - 1 IN
    FlattenSeq([i \in 1..Cardinality(samples) |->
                  SampleChunks(nth(i), items[nth(i)], config.variants_per_chunk)])
=============================================================================
