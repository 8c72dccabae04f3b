------------------------------ MODULE Prepare ------------------------------
(***************************************************************************)
(* A configuration becomes prepared work: it is resolved against the files *)
(* it refers to, the main process enumerates the chunks, and workers       *)
(* (ChunkProcessor) rebuild each chunk from its id, resolve the mask of    *)
(* every item and perturb the sample.  The main process rebuilds each      *)
(* chunk once more and validates what came back.                           *)
(*                                                                         *)
(* Every process has its own PlanBuilder, with the items of the last       *)
(* sample it rebuilt, and its own cache of decoded mask files.  Mask files *)
(* may be replaced at any time, also between the check of a digest and the *)
(* decoding of the file.                                                   *)
(***************************************************************************)
EXTENDS Adapter, Sources, Strategies

CONSTANTS
    Configs,     \* configurations as written; listed are the samples of its source
    Contents,    \* what a mask file may hold (its digest, see Plan)
    CacheSize,   \* explicit_cache_size
    MaxWorkers,  \* bound: num_workers of a configuration
    Prefetch,    \* chunks a worker is ahead (torch's DataLoader: 2)
    MaxReplaced  \* bound: replacements of a file

\* What the parser lets through (config/schema.py): the fields are there,
\* sizes are positive and counts are whole numbers.
Shape(c) ==
    [listed : Seq(Int), regions : Seq(Range(c.regions)),
     perturbations : Seq(Range(c.perturbations)), controls : Seq(Range(c.controls)),
     dataset_stats : {c.dataset_stats}, variants_per_chunk : Nat \ {0},
     num_workers : 0..MaxWorkers, fail_fast : BOOLEAN]
FamilyShape(r) ==
    [region_id : {r.region_id}, kind : {r.kind}, params : {r.params}, ref : {r.ref},
     ref_hash : {r.ref_hash}]
ASSUME ConfigsAssumption ==
    \A c \in Configs :
       /\ c \in Shape(c)
       /\ \A r \in Range(c.regions) :
             /\ r \in FamilyShape(r)
             /\ r.kind = "grid" => r.params.rows \in Int /\ r.params.cols \in Int
             /\ r.kind = "skeleton_parts" => r.params.scale \in Int
       /\ \A p \in Range(c.perturbations) :
             /\ p.salts \in Seq(Range(p.salts)) /\ p.invert \in BOOLEAN
             /\ p.op = "patch_shuffle" => p.value \in Int
       /\ \A control \in Range(c.controls) : control.n_samples \in Int
ASSUME BoundsAssumption == CacheSize \in Nat \ {0} /\ MaxWorkers \in Nat /\ Prefetch \in Nat

\* A sample has a frame and a pixel, and so has a decoded mask file its shape;
\* the joints of a part come frame by frame (core/source, core/region).
ASSUME MasksAssumption ==
    /\ \A c \in Configs : \A s \in Range(c.listed) :
          Frames[s] \in [t : Nat \ {0}, h : Nat \ {0}, w : Nat \ {0}]
    /\ \A c \in Contents \ {Undecodable} : Bitmap[c].pixels \subseteq Pixels(Bitmap[c].shape)
    /\ \A key \in DOMAIN Tracks :
          /\ Tracks[key].joints \in Seq(SUBSET (Int \X Int))
          /\ \A i \in DOMAIN Tracks[key].joints : IsFiniteSet(Tracks[key].joints[i])
    /\ SubPixels \in Nat \ {0} /\ MarginPercent \in Nat /\ MinValidJoints \in Nat \ {0}
    /\ Untracked \notin [x1 : Int, x2 : Int, y1 : Int, y2 : Int]

VARIABLES
    config,     \* as written, then as resolved
    items,      \* sample -> its items: a function of the resolved configuration
    files,      \* path -> content, for the files that exist
    phase,
    plan,       \* chunk metadata, in order
    last,       \* process -> <<sample, items>> rebuilt last, or None
    cache,      \* process -> decoded masks, least recently used first
    job,        \* process -> the chunk it works on, or None
    taken,      \* process -> chunks it has begun
    results,    \* chunk number -> what its process returned
    accepted,   \* chunks validated by the main process
    replaced,   \* replacements so far
    raced       \* processes that checked one content and may have decoded another

vars == <<config, items, files, phase, plan, last, cache, job, taken, results, accepted,
          replaced, raced>>

\* without workers the main process prepares the chunks itself
Main == 0
Processes == IF config.num_workers = 0 THEN {Main} ELSE 1..config.num_workers
AllProcesses == 0..MaxWorkers
Refs(conf) == {conf.regions[i].ref : i \in DOMAIN conf.regions} \ {None}

Init ==
    /\ config \in Configs
    /\ \E paths \in SUBSET Refs(config) : files \in [paths -> Contents]
    /\ items = <<>> /\ phase = "new" /\ plan = <<>>
    /\ last = [p \in AllProcesses |-> None]
    /\ cache = [p \in AllProcesses |-> <<>>]
    /\ job = [p \in AllProcesses |-> None]
    /\ taken = [p \in AllProcesses |-> 0]
    /\ results = <<>> /\ accepted = 0 /\ replaced = 0 /\ raced = {}

unprepared == <<last, cache, job, taken, results, accepted, raced>>

\* a sample that cannot be read now is not counted in the statistics
ResolveConfig ==
    /\ phase = "new"
    /\ \E readable \in IF NeedsStats(config) THEN SUBSET Range(config.listed)
                                             ELSE {Range(config.listed)} :
          \/ /\ Resolves(config, files, readable)
             /\ phase' = "resolved" /\ config' = Resolved(config, files, readable)
             /\ items' = [s \in Range(config.listed) |-> SampleItems(s, config')]
          \/ /\ ~Resolves(config, files, readable)
             /\ phase' = "rejected" /\ UNCHANGED <<config, items>>
    /\ UNCHANGED <<files, plan, replaced, unprepared>>

EnumeratePlan ==
    /\ phase = "resolved"
    /\ \/ /\ PlanOK(config, items)
          /\ phase' = "planned" /\ plan' = Enumerated(config, items)
       \/ /\ ~PlanOK(config, items)
          /\ phase' = "unplannable" /\ UNCHANGED plan
    /\ UNCHANGED <<config, items, files, replaced, unprepared>>

-----------------------------------------------------------------------------
(* Rebuilding a chunk.                                                     *)

\* faulty: the items of whatever sample was rebuilt last
SampleItemsOfAny(p, sample) ==
    IF last[p] # None THEN last[p][2] ELSE items[sample]

SampleItemsOf(p, sample) ==
    IF last[p] # None /\ last[p][1] = sample THEN last[p][2] ELSE items[sample]

Materialized(p, meta) ==
    Slice(SampleItemsOf(p, meta.sample), meta.ordinal, config.variants_per_chunk)
Remember(p, sample) == last' = [last EXCEPT ![p] = <<sample, SampleItemsOf(p, sample)>>]

-----------------------------------------------------------------------------
(* The worker.                                                             *)

Return(p, k, result) ==
    /\ results' = [i \in DOMAIN results \cup {k} |-> IF i = k THEN result ELSE results[i]]
    /\ job' = [job EXCEPT ![p] = None]

\* chunks go round the workers, whatever each is busy with
NextChunk(p) == IF p = Main THEN taken[p] + 1 ELSE taken[p] * config.num_workers + p

\* a sample that cannot be loaded fails its whole chunk
Take(p) ==
    LET k == NextChunk(p)
        own == Materialized(p, plan[k]) IN
    /\ phase = "planned" /\ job[p] = None /\ k <= Len(plan)
    /\ k <= accepted + (IF p = Main THEN 1 ELSE Prefetch * config.num_workers)
    /\ taken' = [taken EXCEPT ![p] = @ + 1]
    /\ Remember(p, plan[k].sample)
    /\ IF IdsOf(own) # plan[k].item_ids
       THEN phase' = "divergent" /\ UNCHANGED <<job, results>>
       ELSE /\ UNCHANGED phase
            /\ \/ /\ job' = [job EXCEPT ![p] = [chunk |-> k, items |-> own, digest |-> None,
                                                prepared |-> <<>>, failed |-> <<>>]]
                  /\ UNCHANGED results
               \/ Return(p, k, [status |-> "load_failed", prepared |-> <<>>,
                                failed |-> IdsOf(own)])
    /\ UNCHANGED <<config, items, files, plan, cache, accepted, replaced, raced>>

Doing(p) == job[p].items[Len(job[p].prepared) + Len(job[p].failed) + 1]
\* faulty: the first failure ends the chunk, whatever was configured
HasWorkUntilFailure(p) ==
    /\ job[p] # None /\ Len(job[p].prepared) + Len(job[p].failed) < Len(job[p].items)
    /\ job[p].failed = <<>>

HasWork(p) ==
    /\ job[p] # None /\ Len(job[p].prepared) + Len(job[p].failed) < Len(job[p].items)
    /\ ~(config.fail_fast /\ job[p].failed # <<>>)
\* the region whose recipe is resolved: that of the target, for a control
Recipe(item) ==
    IF item.region.kind = "random_area_match" THEN item.region.params.target_region
    ELSE item.region

\* faulty: the area of an inverted item is that of its region
AreaOfRegion(item, mask, used) == IntendedArea(mask)

AreaOf(item, mask, used) == IntendedArea(used)

\* the item's own generator decides where a control lies
ItemMasks(item, recipe) ==
    IF item.region.kind = "random_area_match"
    THEN ControlMasks(Frames[item.sample], recipe) ELSE {recipe}

Fails(item, j) == [j EXCEPT !.failed = Append(@, item.item_id), !.digest = None]
Prepares(item, mask, j) ==
    LET shape == Frames[item.sample]
        used == IF item.invert THEN Inverted(shape, mask) ELSE mask IN
    {[j EXCEPT !.digest = None,
               !.prepared = Append(@, [item |-> item, mask |-> used,
                                       area |-> AreaOf(item, mask, used),
                                       pixels |-> Composite(shape, used, candidate)])] :
        candidate \in Candidates(shape, item.op, item.value)}

\* a list has a level for each channel of the sample it is written into; the
\* other operators run on every sample
LevelsFit(p, sample) == p.n_values \in {None, Channels[sample]}
Possible(item, mask) ==
    FitsSample(Frames[item.sample], mask) /\ LevelsFit(item, item.sample)
Outcomes(item, mask, j) ==
    IF Possible(item, mask) THEN Prepares(item, mask, j) ELSE {Fails(item, j)}

PrepareItem(p) ==
    /\ HasWork(p) /\ Recipe(Doing(p)).kind # "explicit"
    /\ LET item == Doing(p)
           recipe == Recipe(item)
           target == IF recipe.kind = "grid" THEN GridMask(Frames[item.sample], recipe.params)
                     ELSE SkeletonMask(Frames[item.sample], recipe.params) IN
       \E mask \in ItemMasks(item, target) :
          \E outcome \in Outcomes(item, mask, job[p]) : job' = [job EXCEPT ![p] = outcome]
    /\ UNCHANGED <<config, items, files, phase, plan, last, cache, taken, results, accepted,
                   replaced, raced>>

CheckDigest(p) ==
    /\ HasWork(p) /\ Recipe(Doing(p)).kind = "explicit" /\ job[p].digest = None
    /\ LET recipe == Recipe(Doing(p)) IN
       job' = [job EXCEPT ![p] =
                 IF recipe.ref \in DOMAIN files /\ files[recipe.ref] = recipe.ref_hash
                 THEN [@ EXCEPT !.digest = recipe.ref_hash] ELSE Fails(Doing(p), @)]
    /\ UNCHANGED <<config, items, files, phase, plan, last, cache, taken, results, accepted,
                   replaced, raced>>

Cached(p, digest) == {e \in Range(cache[p]) : e.digest = digest}

\* to the end, and the oldest entry out
Refreshed(p, entry) ==
    LET at == {i \in DOMAIN cache[p] : cache[p][i].digest = entry.digest}
        rest == IF at = {} THEN cache[p] ELSE RemoveAt(cache[p], Max(at)) IN
    Append(IF Len(rest) < CacheSize THEN rest ELSE Tail(rest), entry)

\* faulty: a decoded file is found again by its place in the cache
DecodedFirst(p, recipe, digest) ==
    IF cache[p] # <<>> THEN cache[p][1].content
    ELSE IF recipe.ref \in DOMAIN files THEN files[recipe.ref] ELSE Undecodable
\* from the cache, or from the file as it is now
Decoded(p, recipe, digest) ==
    IF Cached(p, digest) # {} THEN (CHOOSE e \in Cached(p, digest) : TRUE).content
    ELSE IF recipe.ref \in DOMAIN files THEN files[recipe.ref] ELSE Undecodable

DecodeMask(p) ==
    /\ HasWork(p) /\ job[p].digest # None
    /\ LET item == Doing(p)
           content == Decoded(p, Recipe(item), job[p].digest) IN
       /\ \E mask \in ItemMasks(item, ExplicitMask(Frames[item.sample], content)) :
             \E outcome \in Outcomes(item, mask, job[p]) : job' = [job EXCEPT ![p] = outcome]
       /\ cache' = IF content = Undecodable THEN cache
                   ELSE [cache EXCEPT ![p] =
                           Refreshed(p, [digest |-> job[p].digest, content |-> content])]
    /\ UNCHANGED <<config, items, files, phase, plan, last, taken, results, accepted,
                   replaced, raced>>

Finish(p) ==
    /\ job[p] # None /\ ~HasWork(p)
    /\ Return(p, job[p].chunk, [status |-> "prepared", prepared |-> job[p].prepared,
                                failed |-> job[p].failed])
    /\ UNCHANGED <<config, items, files, phase, plan, last, cache, taken, accepted, replaced, raced>>

-----------------------------------------------------------------------------
(* The main process, in the order of the chunks.                           *)

PreparedIds(result) == [i \in DOMAIN result.prepared |-> result.prepared[i].item.item_id]

\* one failed prefix, or all items with their order kept on both sides
ResultOK(result, ids) ==
    LET ok == PreparedIds(result)
        returned == ok \o result.failed IN
    /\ Distinct(returned) /\ Range(returned) \subseteq Range(ids)
    /\ IF result.status = "load_failed" THEN result.failed = ids
       ELSE IF config.fail_fast /\ result.failed # <<>>
       THEN Len(result.failed) = 1 /\ returned = SubSeq(ids, 1, Len(returned))
       ELSE /\ ok = Those(ids, Range(ids) \ Range(result.failed))
            /\ result.failed = Those(ids, Range(result.failed))

Accept ==
    LET k == accepted + 1
        ids == IdsOf(Materialized(Main, plan[k])) IN
    /\ phase = "planned" /\ k \in DOMAIN results
    /\ Remember(Main, plan[k].sample)
    /\ IF ids # plan[k].item_ids THEN phase' = "divergent" /\ UNCHANGED accepted
       ELSE IF ResultOK(results[k], ids) THEN accepted' = k /\ UNCHANGED phase
       ELSE phase' = "contract_error" /\ UNCHANGED accepted
    /\ UNCHANGED <<config, items, files, plan, cache, job, taken, results, replaced, raced>>

\* a file is replaced; a process may have checked what it held before
ReplaceFile(f, content) ==
    /\ replaced < MaxReplaced /\ content # files[f]
    /\ phase \in {"resolved", "planned"}
    /\ files' = [files EXCEPT ![f] = content]
    /\ replaced' = replaced + 1
    /\ raced' = raced \cup {p \in AllProcesses : job[p] # None /\ job[p].digest # None
                              /\ Recipe(Doing(p)).ref = f}
    /\ UNCHANGED <<config, items, phase, plan, last, cache, job, taken, results, accepted>>

Works(p) == Take(p) \/ PrepareItem(p) \/ CheckDigest(p) \/ DecodeMask(p) \/ Finish(p)

Step ==
    \/ ResolveConfig \/ EnumeratePlan \/ Accept
    \/ \E p \in Processes : Works(p)
Next == Step \/ \E f \in DOMAIN files, c \in Contents : ReplaceFile(f, c)

Spec == Init /\ [][Next]_vars
\* some process goes on while one can; nobody has to replace a file
FairSpec == Spec /\ WF_vars(Step)

-----------------------------------------------------------------------------
(* Properties.                                                             *)

\* What the processes have done so far: chunk number -> prepared entries.
Entries == [k \in DOMAIN results |-> Range(results[k].prepared)]
ProcessOf(k) ==
    IF config.num_workers = 0 THEN Main ELSE ((k - 1) % config.num_workers) + 1
Settled == phase = "planned" /\ accepted = Len(plan)
IsControl(item) == item.region.kind = "random_area_match"
\* A whole chunk came back: no item was left out by fail_fast.
Full(k) == results[k].status = "prepared" /\ (results[k].failed = <<>> \/ ~config.fail_fast)

\* Types and ranges: no worker caches more masks than explicit_cache_size,
\* runs ahead further than it is given work, or returns a mask that is not of
\* the frame (region/mask_base.py:63, runtime/loader.py:22,
\* region/resolver.py:152-170).
TypeOK ==
    /\ phase \in {"new", "resolved", "rejected", "planned", "unplannable", "divergent",
                  "contract_error"}
    /\ \A p \in AllProcesses : Len(cache[p]) <= CacheSize
    /\ accepted \in 0..Len(plan) /\ DOMAIN results \subseteq 1..Len(plan)
    /\ \A k \in DOMAIN results : \A e \in Entries[k] :
          LET shape == Frames[e.item.sample] IN
          /\ Len(e.mask.at) = IF e.mask.per_frame THEN shape.t ELSE 1
          /\ \A i \in DOMAIN e.mask.at : e.mask.at[i] \subseteq Pixels(shape)
          /\ e.area \in 0..(shape.h * shape.w)

\* Whatever a process rebuilt before, and in whatever order the workers come
\* to their chunks, the items rebuilt from a chunk id are the planned ones, in
\* the worker and again in the main process (plan/builder.py:104,
\* runtime/processors.py:76), and what a worker returns is never refused as
\* omitted or reordered (runtime/pipeline.py:417-466).
PlanIsStable == phase \notin {"divergent", "contract_error"}

\* A configuration that was resolved can be planned, unless the source lists
\* nothing or one id twice, a sample lacks a tracked part, or two
\* perturbations are the same to the twelve decimals of an identity and share
\* a salt (plan/builder.py:165-172, 249, 320).
Twins(p, q) ==
    /\ p.op = q.op /\ p.invert = q.invert /\ IdentityValue(p) = IdentityValue(q)
    /\ Range(p.salts) \cap Range(q.salts) # {}
OnlyTwinsAreUnplannable ==
    phase \in {"planned", "unplannable"} =>
        (phase = "unplannable" <=>
            \/ config.listed = <<>> \/ Cardinality(Range(config.listed)) < Len(config.listed)
            \/ \E r \in Range(config.regions), s \in Range(config.listed) :
                  r.kind = "skeleton_parts" /\ <<s, r.params.part>> \notin PartsTracked
            \/ \E i, j \in DOMAIN config.perturbations :
                  i < j /\ Twins(config.perturbations[i], config.perturbations[j]))

\* The chunks hold every combination of an instance or a control of it, a
\* perturbation and a salt, of every sample, exactly once, and none is empty
\* or larger than variants_per_chunk (plan/builder.py:196-222).
InstanceCount(r) == IF r.kind = "grid" THEN r.params.rows * r.params.cols ELSE 1
TimesTargeted(r) ==
    1 + SumFunction([k \in DOMAIN config.controls |->
                        IF config.controls[k].match_area_of = r.region_id
                        THEN config.controls[k].n_samples ELSE 0])
EveryItemIsPlannedOnce ==
    (phase = "planned" /\ results = <<>>) =>
        LET salts == SumFunction([i \in DOMAIN config.perturbations |->
                                     Len(config.perturbations[i].salts)])
            regions == SumFunction([i \in DOMAIN config.regions |->
                                       InstanceCount(config.regions[i])
                                       * TimesTargeted(config.regions[i])])
            ids == FlattenSeq([k \in DOMAIN plan |-> plan[k].item_ids]) IN
        /\ Distinct(ids) /\ Len(ids) = Len(config.listed) * regions * salts
        /\ \A k \in DOMAIN plan : Len(plan[k].item_ids) \in 1..config.variants_per_chunk

\* A mask taken from a file, now or from the cache, is the one whose digest
\* the plan carries, although files are replaced all the time: except in a
\* process that had checked the digest and not yet decoded the file when that
\* happened, and in its cache from then on (region/mask_generators.py:204-231).
MasksAreWhatTheyClaim ==
    /\ \A p \in AllProcesses \ raced : \A e \in Range(cache[p]) : e.content = e.digest
    /\ \A k \in DOMAIN results : ProcessOf(k) \notin raced =>
          \A e \in Entries[k] : e.item.region.kind = "explicit" =>
              LET pixels == Bitmap[e.item.region.ref_hash].pixels IN
              e.mask.at[1] = IF e.item.invert THEN Pixels(Frames[e.item.sample]) \ pixels
                             ELSE pixels

\* A control of a grid cell is prepared if and only if the cell has a pixel
\* and the fill a level for each channel, it then has the shape of the cell,
\* and a control of a tracked part, which moves from frame to frame, is never
\* prepared although the configuration is accepted
\* (region/mask_generators.py:309-332, region/resolver.py:194-198,
\* perturb/_helpers.py:54-60).
AtOrigin(pixels) ==
    {<<p[1] - Min({q[1] : q \in pixels}), p[2] - Min({q[2] : q \in pixels})>> : p \in pixels}
ControlOutcomeOK(item, made) ==
    LET shape == Frames[item.sample]
        recipe == item.region.params.target_region
        cell == GridMask(shape, recipe.params).at[1] IN
    CASE recipe.kind = "grid" ->
            /\ made # {} <=> cell # {} /\ LevelsFit(item, item.sample)
            /\ \A e \in made :
                  AtOrigin(IF item.invert THEN Pixels(shape) \ e.mask.at[1] ELSE e.mask.at[1])
                      = AtOrigin(cell)
      [] recipe.kind = "skeleton_parts" -> made = {}
      [] OTHER -> TRUE
ControlsFollowTheirTarget ==
    (Settled /\ config.controls # <<>>) => \A s \in Range(config.listed) :
        \A item \in Range(items[s]) :
            LET k == CHOOSE k \in DOMAIN plan : item.item_id \in Range(plan[k].item_ids) IN
            (IsControl(item) /\ Full(k)) =>
                ControlOutcomeOK(item, {e \in Entries[k] : e.item = item})

\* The cells of a grid, prepared one by one and perhaps by several workers,
\* split the frame: every pixel is in exactly one of them, also where the
\* grid does not divide the frame; a fill that is a list for another number
\* of channels was accepted and leaves none of them
\* (region/mask_generators.py:150-155, perturb/_helpers.py:54-60).
CellsOf(sample, family, p, salt) ==
    {e \in UNION {Entries[k] : k \in {j \in DOMAIN plan : plan[j].sample = sample}} :
        /\ e.item.region.kind = "grid" /\ e.item.region.region_id = <<family.region_id>>
        /\ e.item.op = p.op /\ e.item.value = p.value /\ e.item.n_values = p.n_values
        /\ e.item.salt = salt /\ ~e.item.invert}
GridCellsPartition ==
    Settled => \A s \in Range(config.listed), r \in Range(config.regions) :
        \A p \in Range(config.perturbations) : \A salt \in Range(p.salts) :
            (/\ r.kind = "grid" /\ ~p.invert
             /\ \A k \in DOMAIN plan : plan[k].sample = s => Full(k)) =>
                \A pixel \in Pixels(Frames[s]) :
                    Cardinality({e \in CellsOf(s, r, p, salt) : pixel \in e.mask.at[1]})
                        = IF LevelsFit(p, s) THEN 1 ELSE 0

\* A box written by the builder and rasterised at its own size or larger
\* covers every joint it was made from that lies in the frame
\* (region/skeleton_bbox_builder.py:116-140, skeleton_mask_generator.py:117-126).
JointsAreCovered ==
    \A k \in DOMAIN results : \A e \in Entries[k] :
        (e.item.region.kind = "skeleton_parts" /\ e.item.region.params.scale >= 2 /\ ~e.item.invert) =>
            LET track == Tracks[<<e.item.sample, e.item.region.params.part>>] IN
            \A i \in DOMAIN track.joints : \A j \in track.joints[i] :
                LET pixel == <<j[2] \div SubPixels, j[1] \div SubPixels>> IN
                (pixel \in Pixels(Frames[e.item.sample])
                    /\ Cardinality(track.joints[i]) >= MinValidJoints) => pixel \in e.mask.at[i]

\* The region and its complement, prepared apart, split every frame, and the
\* areas they record add up to it, up to the rounding of a mean over frames
\* (runtime/processors.py:122-132).
ComplementsSplitTheFrame ==
    \A j, k \in DOMAIN results : {ProcessOf(j), ProcessOf(k)} \cap raced = {} =>
        \A d \in Entries[j], e \in Entries[k] :
            (/\ d.item.sample = e.item.sample /\ ~IsControl(d.item)
             /\ d.item.region = e.item.region /\ d.item.invert /\ ~e.item.invert) =>
                LET shape == Frames[d.item.sample]
                    excess == d.area + e.area - shape.h * shape.w IN
                /\ excess \in -1..1
                /\ \A i \in DOMAIN d.mask.at : d.mask.at[i] = Pixels(shape) \ e.mask.at[i]

\* A shuffle of tiles inside a mask brings no pixel from outside the frame,
\* and none twice (perturb/operators.py:380-409).
ShufflesMovePixels ==
    \A k \in DOMAIN results : \A e \in Entries[k] : e.item.op = "patch_shuffle" =>
        \A i \in DOMAIN e.pixels :
            LET sources == {e.pixels[i][p] : p \in e.mask.at[i]} IN
            /\ sources \subseteq Pixels(Frames[e.item.sample])
            /\ Cardinality(sources) = Cardinality(e.mask.at[i])

\* The pixels of regions and controls are where their definition puts them,
\* whichever process prepared them.
RegionsAreSound == ControlsFollowTheirTarget /\ GridCellsPartition /\ JointsAreCovered

\* What any process prepared, whatever was replaced meanwhile and in whichever
\* order chunks were worked on, has its type, splits the frame with its
\* complement down to the recorded area, and moves pixels only inside the
\* frame (runtime/processors.py:122-132, perturb/operators.py:380-409); cells,
\* controls and boxes lie where the plan says, although they are prepared
\* apart (region/mask_generators.py:150, 309, skeleton_mask_generator.py:117).
PreparedAreSound ==
    TypeOK /\ ComplementsSplitTheFrame /\ ShufflesMovePixels /\ RegionsAreSound

\* Every planned chunk is prepared and accepted, whatever fails in it and
\* however the workers are scheduled: neither the order of results nor the
\* bound on how far they run ahead makes them wait for one another
\* (runtime/loader.py:22, runtime/pipeline.py:190).
EveryChunkIsAccepted == phase = "planned" ~> Settled

\* A plan holds the planned items once, in chunks of the configured size, and
\* only a configuration with twins has none (plan/builder.py:155-222).
PlanIsSound == OnlyTwinsAreUnplannable /\ EveryItemIsPlannedOnce

\* What the work is prepared from is sound before it begins: a source is known
\* again by its provenance and every sample it lists can be loaded, what was
\* accepted of a parameter is what can be used, and an adapter takes masks to
\* where it takes the image and batches apart without changing a prediction
\* (source/provider.py:120-135, region/mask_generators.py:197,
\* adapter/preprocessing.py:298-349, adapter/torchvision_tsm_adapter.py:33-53).
InputsAreSound == phase = "new" => SourcesAreSound /\ AdaptersAreSound /\ StrategiesAreSound
=============================================================================
