# A TLA+ model of SSAT

SSAT (`src/ssat`) audits how sensitive an image or video classifier is to
perturbing regions of its inputs. A *run* computes a clean prediction for each
sample and one prediction for each planned perturbation of it, and keeps them in
an *audit dump*, a directory that later runs resume, that `rebuild-index`
repairs, and from which metrics, analyses and reports are derived.

This directory models SSAT from the configuration to the exported labels, and
the experiments of the repository that keep state of their own or repeat an
analysis of the package. Each module is translated from the source named in it;
`PROJECT.json` maps every definition to its lines.

## 1. Inventory

`[M]` modelled, `[P]` in part, `[-]` not modelled (the reason is in section 9
and in `PROJECT.json`).

| component | state it keeps | operations | interacts with | what makes it hard | correct when |
|---|---|---|---|---|---|
| dump writer `core/dump` `[M]` | `run_manifest.json`, `clean/`, `perturbed/`, `index/`; buffers, statuses and next ordinals in memory | create, resume, `write_*`, `flush`, `close` | run service opens it, runtime writes to it | each publication is one `os.replace`; kill or I/O error before or after any of them, early stops, resumes over leftovers | index backed by data, fragments immutable, counts true, `finished_at` only when complete |
| resume index `core/resume` `[M]` | none (reads the dump) | `pending_*`, `rebuild` | run service, dump service | whole-chunk selection, interrupted rebuilds | nothing recorded is lost or repeated without need; everything is eventually recorded |
| dump reader `core/dump/reader.py`, `_dump_service.py` `[M]` | none | inspect, iterate, estimate's reading | reads without the lock | a writer runs beside it | what is read is one moment of the dump |
| audit runtime `core/runtime` `[M]` | lazy streams, Rebatcher buffer, batch cap, rows to write | prepare, rebatch, predict, split, record | workers, adapter, dump writer, cancellation token of another thread | recursion on out-of-memory, cap that shrinks between batches, `fail_fast`, cancellation at any moment | no work lost, doubled or reordered; the model's limits respected; it ends |
| two-stage execution `application` `[M]` | `PreparedRun` (token and one-shot flags), output lock | `prepare_run`, `execute_run`, `close`, `rebuild_index` | other processes and threads on the same output, users who edit inputs | nothing is locked between the two stages | a run starts only on what was prepared; one writer at a time |
| work planning `core/plan` `[M]` | plan, one-entry materialize cache of each process | `enumerate`, `materialize` | runtime, estimate, workers | identity of items, cache of the last sample | a chunk is always materialized as enumerated |
| derived stores `metrics/store.py`, `analysis/store.py` `[M]` | parquet files and a manifest with its source's hash | save, load, verify | dump -> metrics -> analysis -> report | several files without a lock, hash taken late | a store that verifies was computed from its source |
| metrics `metrics` `[M]` | none | join, normalise, score, average | dump, derived stores | exclusions and empty groups | every row is scored or counted as excluded, once |
| analysis `analysis` `[M]` | none | pair, compare, stability, intervals, grade | derived stores | pairing of targets and controls over missing rows | a verdict rests on evidence about its own anchor |
| report `report` `[P]` | report directory | assemble, link assets, export, relabel | derived stores | joins of five tables; files rewritten in place | the report shows the tables, once; labels are of one report |
| estimate `core/estimate` `[M]` | batch size shared with the run | sanity, profile, area check, extrapolate, advise | runtime, prepare stage | few measurements stand for all; limits | covers the run; advice taken is enough |
| regions, perturbations `core/region`, `core/perturb` `[M]` | cache of decoded masks, store of tracked boxes | build, generate, perturb | workers, files | pixels at boundaries; files replaced while read | pixels are where the definition puts them |
| sample sources `core/source` `[M]` | catalog, provenance | open, list, load | planning, resume | labels and frames that depend on parameters | provenance tells sources apart |
| model adapters `core/adapter` `[M]` | weights, pipelines, identity | build, preprocess, transform mask, predict | runtime, source | image and mask take different routines; errors are told apart by type | masks stay on what they mask; errors reach the run as what they are |
| strategy registries `[M]` | classes in the order of registration | register, find, name | planning, sources | first match wins | every accepted name is served, by one class |
| configuration `core/config` `[P]` | resolved configuration | validate, resolve | all stages | checked here, used elsewhere | what is accepted can be run |
| scripts, experiments `[P]` | raw parts and a manifest (two reference workflows) | run, resume, analyze, report; regrade | users; stores of ssat | in-place writes, limits, kills | no row lost or repeated; agrees with the package |
| command line, utilities `[P]`; metrics visualisation `[-]` | | | | | |

Interaction: `execute_run` holds the output lock from the repeated fingerprint
to the writer's `close`. Inside it `run_audit` pulls prepared work from lazy
generators (fed by the workers of `Prepare`) and pushes rows into `DumpWriter`,
which publishes a fragment whenever a buffer is full. The modules meet at these
interfaces:

* `Prepare` takes a configuration to accepted chunks; these are the pending
  work that `Runtime` predicts (constants `Samples`, `Chunks`).
* `Runtime` implements `WorkList` (each piece of pending work is recorded at
  most once, clean first, completion means all). The actions `WriteClean`,
  `WritePerturbed`, `EndOfWork` and `Stop` of `AuditDump` are that interface
  seen from the dump. `Estimate` extends `Runtime`: the same generators, run on
  a selection.
* `Session` reduces a dump to a version that every publication advances;
  `AuditDump` is what is inside, and its single program counter is justified by
  `Session`'s `WritesItsOwnDump` (one actor at a time past the lock).
  `Inspect` extends `AuditDump` by the readers that take no lock.
* `Derived` reduces the rows of a dump to a version and its manifest to what a
  hash tells apart; when each of them changes is `AuditDump`'s order of
  publication (data before index before manifest), and what a killed flush
  leaves is `AuditDump`'s orphan. `Results` is the complement: one dump at rest,
  and what the same commands compute from its rows.

## 2. Modules

| module | models | kind |
|---|---|---|
| `AuditDump` | dump writer, resume filter, rebuild, closing by `execute_run` | component |
| `ResultLog` | what a dump promises | abstract specification of `AuditDump` |
| `Inspect` | unlocked readers, composed with `AuditDump` | composition |
| `Runtime` | `run_audit` | component |
| `WorkList` | what a run promises about its pending work | abstract specification of `Runtime` |
| `Estimate` | the cost estimate, composed with `Runtime` | composition |
| `Session` | `prepare_run` / `execute_run` / `rebuild_index` across processes | component |
| `Derived` | `metrics`, `analyze`, `report`, `export-labels` beside `run` and `rebuild-index` | component |
| `Snapshot` | what a store promises about its changing source | abstract specification of the metrics store of `Derived` |
| `Scores` | metrics of a dump | operators |
| `Evidence` | analysis of a dump and its metrics | operators |
| `Stores` | schemas of dump, metrics and analysis: flattening and reading back | operators |
| `Report` | assembler, tables and labels of a report | operators |
| `Results` | `compute_metrics`, `compute_analysis`, `generate_report`, `export_labels` one after the other on one dump | composition of the four above |
| `Studies` | grade engine (a1), control tensor (a2), tables of the reference workflows | operators and properties over `Results` |
| `Rounding` | Python's `round`, `floor`, `ceil` of a quotient | operators |
| `Masks` | pixels of regions, builder of tracked boxes, pixel operators | operators |
| `Plan` | enumeration, chunks, item identity, validation of regions and operators | operators |
| `Sources` | the four providers of samples and their registry | operators and properties |
| `Strategies` | registries, expanders, parameters of operators and regions | operators and properties |
| `Transforms` | preprocessing of images and masks | operators |
| `Adapter` | the three adapters: configuration, construction, prediction, identity | operators and properties |
| `Prepare` | resolution, planning, and the workers that prepare chunks | composition of the six above |
| `Reference` | the two resumable reference workflows | component |
| `MCAuditDump`, `MCInspect`, `MCRuntime`, `MCSession`, `MCDerived`, `MCResults`, `MCPrepare`, `MCReference` | small instances | TLC |
| `Runtime_proofs` | theorems about `Runtime`, then about `Estimate` | TLAPS |
| `Session_proofs`, `Derived_proofs`, `Reference_proofs` | theorems about the module of that name | TLAPS |
| `Dump_proofs` | theorems about `AuditDump`, then about `Inspect` | TLAPS |
| `Prepare_proofs`, `Plan_proofs` | theorems about `Prepare`: masks, stability and what is sound of an entry; then the plan as a whole, regions, and all of what was prepared | TLAPS |
| `SequenceLemmas` | members, pieces, concatenations and flattenings of sequences; sums over finite sets; least counterexamples | lemmas, TLAPS |
| `Subsequences` | the members of a sequence that are in a set (`Those`) | operator |

Operators named `Faulty...` or preceded by a comment `\* faulty:` are not part
of a specification: each is a plausible bug of the definition after it, used
to see that the properties notice it (`PROJECT.json`, "mutants").

### AuditDump

A fragment file is a function from identifiers to statuses, `Absent` where it
has no row; the files of a directory are indexed by ordinal. What a reader
finds (`CleanLocations`, `IndexLocations`) is the row of the highest ordinal.
`pc` says where the holder of the output lock is. A flush is the sequence
`clean_file, clean_counts, data_file, index_file, item_counts`, one step per
`os.replace`, and `after` is what it returns to: the run, the close after a
completed run, after a cancelled or fail-fast run ("stop"), or after any other
exception ("abort"). `FlushError` and `CloseFlushError` let any publication raise, with
the file in place (the directory fsync failed) or not, and leave memory behind,
as the code does: `writer.py` updates its buffers after the write returned.
`Crash` forgets memory at any step. Logits, hashes, region data and timestamps
are abstracted: the properties tell statuses and presence apart.

### Inspect

A reader makes passes, each of which lists a directory (`ListFiles`, one step)
and opens the listed files one after the other (`ReadFile`); everything
`AuditDump` does may happen in between. `inspect` makes four (where the clean rows
are, the rows, where the items are, their rows), the estimate two (`Script`).
`snapC` and `snapI` remember the disk at a listing, `alone` that no command was
running at any of them, `meanwhile` the worst that happened since.

### Runtime and Estimate

The generators are lazy, so one `pc` suffices: `pull` (the Rebatcher asks for
an item), `predict`, `outcome` (a batch returned, cancellation is looked at),
`write`, and three ends. `stack` is the recursion of `BatchSplitter.predict`:
the parts of the batch still to be predicted, in order. A part succeeds, raises,
or is out of memory; alone it is skipped, else it is halved. `CleanupRaises` is
an exception in the handler, which no inner call catches. Workers only prepare;
their number changes timing, not order, so it is not a parameter here (it is one
of `Prepare`). An array is its shape.

`Estimate` adds one variable, the calls of the counting adapter. A behaviour of
`Runtime` that is neither cancelled nor fails fast is a measurement; in its last
state `SanityResult`, `ProfileResult`, `AreaSanity` and `Report` are the results
of the passes, evaluated for each of a set of situations (what is planned and
pending, the limits set). Durations are external; a rate is a rational number
with the batch durations left open.

### Session

`prep[p]` is the `PreparedRun` of a process with the inputs as they were parsed
(`used`) and as they were hashed (`hash`), and the token. The dump is a record:
`empty`, `bare` (directories without manifest) or `dump`, a version, the
configuration it was created with, and the source contents its rows came from.
`seen` and `at` are history variables: what the token stands for, and what the
check found.

### Derived

A store is a function from its fragments to the version of the rows each was
computed from, and a manifest that contains the hashed manifest
itself. The writer's steps are those of `AuditDump` with the data left out:
`PublishRows` then `PublishCounts`, and for a rebuild `IndexOrphan` for each
orphan, then `PublishCounts`. Each of the four commands has a record (`m`, `a`,
`r`, `l`) with its `pc` and what it has read so far, one step per file it reads
or replaces; a kill resets the record and leaves the files. `os.replace` is one
step; a file that is opened for writing (the CSV files, `report_manifest.json`,
`labels.jsonl`) is `Torn` first. `sample_rankings.csv` stands for the five CSV
files, which are written alike. `stamps` numbers the manifests with a timestamp
(`computed_at`, `generated_at`), so no two are equal; a run manifest is stamped
when a session opens it. `told` (the manifest has changed since the rows last
did) is a history variable, and so are `saw` and `told` in pages and analyses.
The metric and the thresholds that were asked for are left out.

### Scores, Evidence, Stores, Report, Results, Studies

`Results` takes a dump (clean rows, and fragments of perturbed rows, which come
in any order within a fragment) through the commands. The passes of
`metrics/aggregate.py` and `analysis/indexer.py` that depend on the order of rows
are steps (`OpenDump`, `BuildContext`; `OpenAnalysis`, `IndexRow`, `BuildIndex`);
`ComputeMetrics` and `Analyze` are one step each, made of the operators of
`Scores` and `Evidence`; `GenerateReport` and `ExportLabels` are made of those of
`Report`. A validation that raises, in a row type or in a geometry check, leads to
the stage `failed`.

A logit, an area and a score are small integers, and scores are multiples of
`Scale`, so that every mean taken is an integer and equality is exact; a
probability is its rank, where rounding may merge neighbours (`Prob`). A standard
deviation is told apart as zero or not, or compared as a square. An interval of
the bootstrap is only known to lie within the resampled values (`Resampled`).
`Stores` gives every table its columns, with the nullable ones, as the schemas
declare them: a row is flattened, written (a key without a column is dropped, a
null in a required column fails the write) and rebuilt.

`Studies` evaluates the experiments on the tables `Results` reaches: the grades
recomputed from one feature row per anchor under swept thresholds, the analysis
of the first *k* controls, and the seed, region and control tables that the
reference workflows aggregate from raw rows.

### Plan, Masks, Sources, Strategies, Transforms, Adapter, Prepare

`Prepare` starts from a configuration as written. `ResolveConfig` hashes the
files it refers to and takes the statistics of the readable samples;
`EnumeratePlan` builds the plan; then each process takes a chunk and rebuilds its
items, those of its last sample cached (`Take`), prepares one item after the other
(`PrepareItem`; a mask file is two steps, `CheckDigest` and `DecodeMask`, through
the cache), and returns the chunk (`Finish`). Workers take chunks in turn and are
at most `Prefetch` ahead; the main process validates what they return, in order
(`Accept`). `ReplaceFile` puts another content under the path of a mask file at any
moment. The digest of a file is its content; identifiers are tuples, so that no
two differ by text alone.

A mask is a sequence of pixel sets, one for each frame or one for all. The seed
of an item is left open, and so is what is drawn from it; its dependence on the
identity of the item is kept. What OpenCV computes for a blurred pixel is `New`.

`Sources`, `Strategies` and `Adapter` are calculations over everything a user can
write: their properties quantify over `SourceConfigs`, `RawPerturbations`,
`RawRegions`, `AdapterConfigs` and so on, and are evaluated once, in the phase
`new`. In `Transforms` a view maps each pixel to the pixels of the frame it is
made of, computed separately for an image (which blends) and for the mask that
goes with it (which picks one).

### Reference

A user starts the `run.py` of either workflow again and again (`Invoke`), limited
or not, to audit, analyse or report. `pc` of `call` follows the invocation:
opening the store, `Refresh` of a complete one, `Measure` of one unit of rows
after the other, `WritePart` and `WriteManifest` whenever enough rows are
pending. `Kill` ends an invocation between two steps, `Tear` inside the write of
a file, which is then `Torn`; `EditInputs` changes what `build_identity` hashes,
never the number of rows that are expected: an edit that adds or removes work beside a
`summary.json` that is taken as it is found is outside of the model.
A row is its key.

## 3. Runs

| run | instance | question | distinct states |
|---|---|---|---|
| `dump` | 1 sample, 2 chunks of 3 items, `retry_failed`, flush every 2 rows, 2 faults | is the disk consistent through every sequence of runs, faults, resumes, rebuilds, when results are superseded and buffers are partial? | 371 000 |
| `dump_live` | 1 chunk of 2 items, flush every row, 2 faults, fairness | do repeated runs complete the dump? | 313 000 |
| `inspect` | 1 chunk of 2 items, 1 fault, 1 reader | is what an unlocked reader returns one moment of the dump; does an estimate cover the runs that follow? | 2 600 000 |
| `session` | 2 processes, one of them with 2 threads, 1 rebuilder | do check and lock keep a run on its dump; is a `PreparedRun` one-shot? | 698 000 |
| `session_stale` | 1 process | violated: see section 8 | |
| `runtime` | 2 samples, chunks of 2, 1 and 1 items, 2 shapes, target 4, limit 3, `fail_fast` or not, fairness; 6 situations to estimate | is work lost, doubled, reordered; are limits kept; does every run end; is the estimate made of it sound? | 349 000 |
| `derived` | 2 rows, 2 sessions, 4 stamps, 2 kills | are accepted stores complete and current, after half-done saves and rebuilds too; is a report of one dump? | 2 800 000 |
| `derived_overlap` | 1 run | violated: see section 8 | |
| `results` | dumps of up to 9 rows, in ten families | what is refused; is every row accounted for from the dump to the labels; do independent implementations agree? | 123 000 |
| `prepare` | configurations of up to 3 samples, 0 to 2 workers, 1 replaced file, fairness; tables of sources, adapters and parameters | is every planned item prepared as planned, with the right pixels? | 219 000 |
| `reference` | 3 samples in 2 batches, 2 audits, 2 kills, 1 edit, fairness | does a stopped, killed and resumed reference audit stay one audit, and end? | 1 190 000 |
| `reference_complete` | the same without kills and edits | violated: see section 8 | |

### What the properties say

*AuditDump.* `IndexBacked`: an index part always describes its data fragment.
`PublishedIsImmutable`: nothing published is rewritten. `LatestOnlyAdvances`:
what a reader finds is superseded only by later fragments. `CountsMatchDisk`:
`counts_by_status` is what a reader counts, even after a failed publication
whose file is there. `FinishedIsComplete`: `finished_at` means every result is
there. `RepeatedRunsComplete`: repeating the command leaves no work undone.
`ImplementsResultLog`: refinement.

*Inspect.* `ReadsAreOfOneMoment`: the rows returned are those of one moment, the
listing (`RowsAreASnapshot`); nothing running beside a reader makes it refuse an
undamaged dump (`UndamagedReadsSucceed`); at rest its counts match.
`EstimateCoversTheRun`: a run is never larger than the estimate its user
confirmed. `EmptyEstimateIsFinal`: where the estimate found nothing pending, no
later run publishes anything. Both are for runs without `retry_failed`, which
makes recorded results pending again.

*Runtime, Estimate.* `BatchesAreSound`: while the run goes on each piece of work is
in exactly one place (`NothingLostOrDoubled`); batches are in plan order and the rows
of a batch are those of its items in order, however it was split
(`PredictedInOrder`); no part is empty, mixed or too large (`PartsFitTheModel`);
`FailFastStops`. `SubmissionsFollowTheCap`: the cap never grows and each batch that
is submitted is within it, across both phases (nothing is buffered while a batch is
out, so there is no older buffer to cut). `CancelIsObserved`, `RunEnds`, and `ImplementsWorkList`:
refinement. `EstimateIsSound`: what is selected is spread over the whole
(`SelectionsAreSpread`), an area check that passed saw every region of the samples
it drew (`PassedAreasAreKept`), each selected piece has one outcome and a bounded
number of calls (`OutcomesAreCounted`, `CallsAreBounded`), advice that is taken brings the run
within its limits (`AdviceFits`), and less work never costs more (`LessCostsNoMore`).

*Session.* `CheckedIsUnchanged`: who opens a writer finds inputs and dump as
its preflight did. `OneWriterPerPreparation`: although `_consumed` is tested
without the lock. `WritesItsOwnDump`: the right configuration, and exclusion.
`DumpIsNeverRestarted`: a create prepared on an empty output never destroys the
dump another process made meanwhile.

*Derived.* As long as the last change of the rows has reached the manifest, and
commands do not overlap: `AcceptedStoresAreCurrent`, that a manifest that is there
has all its fragments, that `verify_source_dump` accepts only metrics of today's
rows, although a killed save leaves new fragments under an old manifest, and the
same for an analysis, through two hashes; `JoinsAreOfOneDump`, that even the
fragment of a killed analysis joins items and metrics of one dump, and that a
gallery vouches for the whole page; `LabelsAreNotOlderThanTheirReport`, the order
in which a report is written, seen by a reader that compares nothing.
`ImplementsSnapshot`: refinement. Both conditions are needed. A rebuild changes
rows before the manifest, or without it when the counts stay the same, and such a
change is invisible to every later check; overlapping commands are in section 8.

*Results.* `RefusalsAreExact`: a command refuses what an audit left if and only if
the areas of a region and of its complement meet under one name and differ, or there
is no score to analyze (section 8); no other validation ever rejects a dump.
`RowsAreAccountedFor`: every row is scored or counted as excluded, once
(`NothingDroppedSilently`); the order of rows does not matter
(`GeometryIsOrderFree`); metrics and analysis, which join the dump by different
code, average the same items (`BothPathsAgree`); what is written is what is read
back (`StoresKeepWhatWasComputed`). `EvidenceIsSound`: controls stay with their
targets, every target that has a score gets a verdict, an unavailable flag is
never taken for a refutation, clusters of operators are connected components.
`ReportShowsTheTables`: galleries are the extremes, shares add up, every verdict is
shown once. `RiskMeansAFlip`: a label, four files after the dump, still says
whether some perturbation flipped the sample.

*Studies.* `IndependentPathsAgree`: the grade engine reproduces the stored
verdicts; the first *k* controls of the tensor give what the package would have
computed from *k* controls; the tables of the reference workflows agree with the
package where their definitions do. `StricterNeverRaises`: the sweep is monotone.

*Prepare and its parts.* `PlanIsStable`: the items rebuilt in any process are the
planned ones, and the main process accepts whatever a worker made of them.
`PlanIsSound`: each combination of an instance or a control, a perturbation and a
salt is planned once, in chunks that are neither empty nor too large
(`EveryItemIsPlannedOnce`); only twins, an untracked part or an empty or repeating
source make a resolved configuration unplannable (`OnlyTwinsAreUnplannable`).
`MasksAreWhatTheyClaim`: a mask from a file, fresh or cached, is the one the plan
names, except in a process that was reading when the file was replaced.
`PreparedAreSound`: a region and its complement split every frame and so do their
areas, up to a rounding; a shuffle permutes pixels of the frame; and
`RegionsAreSound`: the cells of a grid, prepared by several workers, partition the
frame, boxes cover their joints, controls have their target's shape;
where a fill has not one level for each channel no cell and no control is prepared.
`InputsAreSound`: what a configuration names. Sampled frames lie in the clip, in
order, and spread, provenance tells two sources apart unless the provider is
`kinetics400`, a registered provider is reached by its name (`SourcesAreSound`);
masks follow the image through preprocessing and adapters report errors as what
they are (`AdaptersAreSound`); what a configuration accepts can be served and
applied (`StrategiesAreSound`, explicit regions with parameters left out,
section 8). `EveryChunkIsAccepted`: the workers and the bound on how far they
run ahead never leave everyone waiting.

*Reference.* `StoreIsConsistent`: no row is stored twice, the manifest is never
ahead of the parts, a limit is kept, a complete output is analysable and a report
covers the audit. `CompletedRowsAreFinal`: nothing changes the rows of a
complete output. `ResumedAuditsFinish`: an invocation without a limit completes
what its predecessors left, unless a file is torn or the inputs were edited.

### Bounds, and why they are enough

* `MaxFaults` (kills, I/O errors, early stops, lost fragments): 2 let a failed
  publication be followed by a kill during the recovery; 1 in `Inspect` lets a
  fragment be lost or a writer die beside the reader. The proofs do not depend on
  it.
* `MaxOrd`: a run starts only when its fragments fit (`HasRoom`); there are more
  ordinals than the faults can use up, so runs complete in every branch.
* Two items in a chunk are the least for which a chunk is partly recorded, two
  chunks and two rows to a flush the least for which a fragment spans chunks.
* `MaxEdits = 1`, and `OneEdit` in `MCSession`: an input equals what was read or
  does not; a second edit is no different from the first. `MaxVersion = 3` is a
  creation, a recording and a foreign publication.
* Runtime: batches of 3 split unevenly and again; a shape change ends a batch
  early and the last chunk leaves a rest. The situations of the estimate put each
  limit just above and just below what is extrapolated.
* Derived: two fragments are the least that can disagree. Four stamps are a
  metrics store, its analysis, newer metrics and a report; two kills leave an
  orphan and then a rebuild or a save half done. The rows change twice, in one
  or two sessions, and two tallies let them change without the counts.
* Results: each family of dumps is the least that reaches one join (two regions
  with two controls in any order; two samples, labelled or not; two salts; two
  operators with two parameters; three operators on three regions, for rank
  correlations; skeleton parts of two samples; a region and its complement, half of
  the frame or not, each with a control; both polarities in a sample that the metrics
  leave out), with every outcome for each of its
  rows. `Lost` is a sample whose image is gone when the gallery is drawn.
* Prepare: frames of at most 3 by 5 pixels, which a grid does not divide; a cache
  of one mask for two files; `MaxReplaced = 1`, since a second replacement meets the
  same two steps as the first. `MaxClip = 9` bounds clip lengths and sample counts.
* Reference: `FlushAt = 3` puts the end of a part inside a unit and between units;
  limits 1 and 3 stop inside and at the end of one.

`CHECK_DEADLOCK FALSE` is set where the system stops: `Runtime`, `Results` and
`Prepare` end, and the commands of `Derived` and `Reference` are bounded and wait
for nothing. Symmetry is used for items (`dump`, `inspect`) and threads, which
the specifications do not tell apart, and never with liveness.

## 4. Fairness

* `AuditDump`: `WF(Running)`: a command that is running takes its next step,
  since it waits for nobody once it has the lock. `SF(StartResume)`: the operator
  keeps repeating the command (the tutorial's advice). `SF(RepairIndex)`: and
  rebuilds the index when resuming reports a missing fragment. Strong, because
  each is disabled whenever another command holds the lock. Faults have no
  fairness and are bounded, that is, they stop at some point.
* `Runtime`: `WF(Proceed)`: one thread whose calls return or raise. `Break`,
  `WriterRaises` and `Cancel` need not happen, so `RunEnds` is not the
  consequence of a failure. What would break it is a batcher that yields empty
  batches, or a split that does not shrink.
* `Prepare`: `WF(Step)`: some process goes on while one can, which a scheduler of
  processes guarantees. Nothing is assumed of a particular worker; replacing files
  need not happen. What would break `EveryChunkIsAccepted` is a worker that waits
  for the main process while that waits for it.
* `Reference`: `WF(Step)`: an invocation that was started goes on. Users need not
  start another one, and kills are bounded.

## 5. Proofs

TLAPS checks all proof modules from nothing in less than half an hour. Every
theorem holds for every value of the constants that the named assumptions of the
module allow (TLC evaluates them in every run): the bounds on kills, edits,
versions and ordinals are any numbers, plans, batches and directories are of any
size. Every inductive invariant was first checked by TLC on the small instance
of the module's run.

| theorem | states | needs |
|---|---|---|
| `Dump_proofs`: `IndexAlwaysBacked`, `CountsAlwaysMatch`, `FinishedAlwaysComplete`, `PublishedStaysPut`, `LatestAdvances`, ... | the properties of the dump | `IInv` of four layers |
| `Dump_proofs!DumpImplementsLog` | refinement of `ResultLog` | `IInv`, `OnceInv` |
| `Dump_proofs`: `ReadersSeeOneMoment`, `EstimatesCover`, `EmptyEstimatesAreFinal` | `ReadsAreOfOneMoment`, `EstimateCoversTheRun`, `EmptyEstimateIsFinal` | `ReaderInv` on top of the invariant of the dump |
| `Runtime_proofs`: `BatchesSound`, `CapHolds`, `CancelObserved` | `BatchesAreSound`, `SubmissionsFollowTheCap`, `CancelIsObserved` | `IInv` |
| `Runtime_proofs!WorkListImplemented` | refinement of `WorkList` | `IInv` |
| `Runtime_proofs`: `EstimateSound`, `CallsStayBounded` | `EstimateIsSound`; the calls of the model in an estimate | `IInv`, `CountInv` |
| `Session_proofs` | the lock, the token and one writer per check | `IInv` |
| `Derived_proofs`: `TypeCorrect`, `LoadableStores` | `TypeOK`, `StoresAreLoadable`, however commands overlap | `Whole` |
| `Derived_proofs`: `AcceptedIsCurrent`, `OneDumpJoins`, `LabelsFollowReport`, `MetricsImplementSnapshot` | what loaders accept is current and of one dump; refinement of `Snapshot` | `IInv`, `~Overlap` |
| `Reference_proofs`: `TypeCorrect`, `StoreConsistent`, `CompletedFinal` | `TypeOK`, `StoreIsConsistent`, `CompletedRowsAreFinal` | `IInv` |
| `Prepare_proofs`: `MasksClaimSafe`, `PlanStableSafe` | `MasksAreWhatTheyClaim`, `PlanIsStable` | `Typed` with `MasksInv`; `Typed` with `StableInv` |
| `Plan_proofs!PlanSoundSafe` | `PlanIsSound` | `Typed`, `StableInv`, `PlanInv` |
| `Plan_proofs`: `RegionsSafe`, `PreparedSafe` | `RegionsAreSound`, `PreparedAreSound` | `Known`: those three, `MasksInv`, `SoundInv` and `TrackInv` |

`Dump_proofs`, `AuditDump`. For every plan, flush threshold, `retry_failed`, and any
bounds. Assumptions: those of the module (finite sets, `UNION Chunks = Items`,
samples and items are distinct identifiers). None of the invariants is inductive
alone; the invariant has four layers, each proved on top of the ones before:

1. `Control`: what `pc` says about buffers and pending work, e.g. at `close_ok`
   nothing is buffered or pending.
2. `FileInv`: the open writer's ordinals are fresh, up to the one file that a
   failed publication left and that the closing flush writes again *with the
   same rows*; this exception is why `PublishedIsImmutable` survives
   `FlushError`. Gives `IndexAlwaysBacked`, `PublishedStaysPut`,
   `LatestAdvances`.
3. `MemoryInv`: the statuses in memory are those on disk, up to the same file.
   Gives `CountsAlwaysMatch`.
4. `AccountInv`: every sample and item is pending, buffered or on disk. Gives
   `FinishedAlwaysComplete`.

`DumpImplementsLog` adds `OnceInv` (nothing pending is buffered) and maps each
step to a step of `ResultLog`.

`Dump_proofs`, `Inspect`. For the composition `InspectSpec`, any dump activity beside
the reader. The hard part is a reader that opens the files of a directory in any
order, one per step, while others are published: `Locating` says that the
newest row of the moment of the listing is found among what was located and what
is still to be opened, whichever order is taken, and `Selecting` the same of the
rows read afterwards. `Backing` carries a location across the writer's steps
(files are immutable, as proved of `AuditDump`), and is only claimed while the
directory is undamaged. `AtRest` ties snapshots, counts and manifest together as
long as nothing was published since; `Settling` says that a complete listing
taken while no command ran stays complete, the reason that an estimate of
nothing is final.

`Runtime_proofs`. For any plan in which an identifier occurs once
(`PlanAssumption`), any shapes, caps, failures, memory errors and cancellation.
`BatchesAreSound` counts occurrences, and a count is not inductive; `IInv` has
instead the order of everything: batch, buffer, prepared and untaken work are
in plan order and each is ahead of the next (`Ordered`), and the parts on the
stack of a split batch cut what is left of it into adjacent pieces (`Cut`), also
after splits inside splits. That no work is in two places follows from the order.
`Waiting`, `Queued`, `RecordedOnce` and `Covered` account for every piece of
work until the run ends; `Failing` is what `fail_fast` may leave behind. The run
`runtime` checks `MeasureSpec` of `Estimate`, whose steps are those of
`Runtime!Next` and count the calls of the model besides.

`EstimateSound` is about the end of such a measurement, for any work, answers,
situations and options of the types the code checks (`EstimateAssumption`, with
`SituationOK`: both passes have something to measure, no more is pending than
there is, no chunk is longer than the number of variants in one). `CountInv`
follows the calls. A full binary tree with n leaves has n - 1 other nodes, and the
splits of a batch make such a tree, so a pass has taken at most twice what it asked
about, less one, plus the parts still on the stack (`AtMost`), and at least one call for each
full batch (`AtLeast`); what was asked about is in the records and in the rows
not yet written (`Asked`). When the pass ends that is what reached the model, and
`CallsStayBounded` follows. The rest is arithmetic over the measurements.
`SpreadOfFewer`: rounding half to even keeps multiples of a step of at least one
apart. `ReportIs` names the parts of a report, and `PartCosts` says that a part of
the work costs no more of anything, which gives `LessCostsNoMore`. That advice is
enough is the hard part: limits are compared as fractions by multiplying
crosswise, the order that makes is transitive (`CrosswiseTransitive`), so one limit
binds (`BinderIs`), and what the fraction of that limit keeps, rounded down, is
within each of the three limits although bytes are rounded up
(`ItemsFit`, `SecondsFit`, `BytesFit`, `ReducedFits`). A part of which
nothing would tell the number of classes cannot be estimated, by the code either,
and is left out of the claim.

`Session_proofs`. For any processes, threads, rebuilders and edits. `IInv`:
`Exclusion` (who is past the lock owns it), `Pinned` (an unmasked token
determines what was seen, and the first publication uses it up), `Opening`
(between check and publication nothing moves, by exclusion), `Versioned`,
`Rebuilding`, `Control`. The one-shot theorem shows that the version in the
token, not the unlocked flag, is what makes a second writer impossible.

`Derived_proofs`. `Whole`, what each store and each command has written at each
of its steps, is inductive under any overlap of commands and gives
`StoresAreLoadable`. That what is accepted is *current* is false under overlap
(run `derived_overlap`), so the other theorems assume `~Overlap`: commands may
be killed anywhere but one ends before the next starts. `IInv` adds what each
command holds in memory (`Held`), that time stamps identify a store (`Stamped`),
the order of the writes of a report (`WrittenInOrder`), and `HashedOnce`: a run
manifest that metrics were computed for never comes back once it was replaced.
That last part is why a matching hash means the same rows, although a rebuild
keeps the session and writes equal tallies. `MissingAssumption` only says that
`None` is not a manifest or a page.

`Reference_proofs`. For any audits, variants, grid, samples and batches without
a repeated identifier (`InputAssumption`), any limits, kills and edits. First
the plan: the units of either workflow are built by flattening nested sequences,
and `ShortcutFits` and `ImageNetFits` show that they share no row and repeat
none; `JoinUnits`, `JoinBoxes` and `Flattened` do so level by level. Then the
invariant. On the disk: `Owned` (one version of the inputs), `StoredOnce`,
`Counted`, `Finished`. Of the invocation: `Mirrored` (known rows are those on
disk and those pending, which are apart), `Limited`, `Sequenced` (where a flush
goes on) and `Covered`. `Covered` is the part that is not obvious: as long as no
limit has cut a unit (`Uncut`), each unit is known as a whole or not at all
(`Tidy`), so an append of a unit that is not known stores all of it, and at the
end of the loops the rows are the expected ones. A second limited run breaks
`Tidy`, which is the defect that `reference_complete` shows. `Appending` is the
contract of `_append_with_limit`: never more than the limit leaves, exactly that
if it stops.

`Prepare_proofs`. For any configurations as the parser lets them through
(`ConfigsAssumption`: `config/schema.py`), any samples, files, contents, numbers
of workers and sizes of the cache (`BoundsAssumption`). `MasksInv` follows the
digest of a mask file from the plan to the entry: what a process checked, what it
cached under that digest and what it prepared, for the processes that no
replacement has caught between check and decoding. `StableInv` ties what every
process holds to the plan: what it rebuilt last is what `items` says of that
sample, and of a chunk under way, or returned and not yet accepted, the prepared
and the failed items split the planned ones in order (`Split`). `ResultOK`
compares with the subsequences of the planned identifiers, so the heart of the
proof is `SplitEnd`: two parts of a sequence without repetition, kept in its order,
are the subsequences their members select. That a chunk has no
repetition comes from `PlanOK`; that there is always a sample of each rank, so that
the enumeration is defined, is `RankReaches`.

`SoundInv` says of every item, planned, under way or returned,
that it is `Fit` (its sample has a frame, its tiles have a size), and of every
entry that it is `Made`: its mask is one that the generator of its region gives
(`OfRegion`), inverted if it is to be, its area the rounded mean of that mask, and
its pixels a candidate of its operator put together by that mask. The rest is about
masks. `GridInFrame`, `ExplicitInFrame`, `SkeletonInFrame` and `MovedInFrame`: what
a generator gives lies in the frame. `AreasSplit`: the areas of a mask and its
complement are sums over frames that add up (`SumsAddUp`, for the fold with which
`TotalArea` is written), and `RoundedParts` bounds what rounding half to even
can do to them. `ShuffledIs`: numbering tiles by rows is one to one, so a permutation of
tiles is one of pixels.

`Plan_proofs`. `PlanInv` says that the configuration passed its checks
(`Validated`), that every sample has the items its regions expand to, and that the
plan is the enumeration of them. That no identity occurs twice is taken apart level
by level: salts of a perturbation, perturbations of a region, regions and controls
of a sample, chunks, samples (`VariantsOnce`, `InstancesOnce`, `ControlsOnce`,
`SampleIdsOnce`, all from `FlatKeyed`: no key occurs twice in a flattened sequence if
and only if none does in a part or in two parts). The same lemma read from right to
left is why only twins are refused. The number of items is a sum of products; `SumFunction` of the community modules chooses the next
index to add in an unspecified order, and `SumIsTotal` shows that any order gives
the running total, from which the length of a flattened sequence is the sum of the
lengths. The control samples of a region are counted over all controls that name it.

`RegionsSafe` and `PreparedSafe` also assume what sources and mask files are
(`MasksAssumption`: a frame has a pixel, a bitmap lies in its shape, joints come
frame by frame as finite sets of integer pairs, a pixel has at least one unit of
resolution). `TrackInv` says of every chunk, under way or returned, that each item
of it is prepared, failed or still to come, each once, so that a chunk that failed
nowhere (`Full`) has an entry for every item; without it "the cells that were
prepared" could be fewer than those that were planned. `CellsFollow` then needs
only the geometry: rows and columns cut a side into intervals that meet, empty ones
included. `ControlsFollow`: a control is its target moved, and a shift keeps the
shape (`ShapeKept`), its complement's included. `JointsFollow`: the least and the
greatest coordinate of a finite set, widened and rounded outwards, still contain it,
at the size of the frame or larger.

Facts about the recursively defined functions of a model (`Those` of
`Subsequences`, `FlattenSeq`) are proved with `NatLeast` of `SequenceLemmas`: of the numbers for
which a claim fails there would be a least one. It also has what the proofs share about
sums over finite sets, which the community modules fold in an unspecified order
(`FoldIsSum`, `SumsOfNats`, `CountedByKind`), and about division with remainder
(`DivMod`).

## 6. Only model-checked

- Liveness (`RepeatedRunsComplete`, `RunEnds`, `EveryChunkIsAccepted`,
  `ResumedAuditsFinish`): TLAPS has no rules for fairness and ENABLED here.
- The invariants of `Results` and `Studies`: averages, bootstraps and foldings over
  rows, which need induction over data.
- The spread of a selection is stated for up to twelve items, as TLC checks it;
  `SpreadOfFewer` has it for any number.
- `InputsAreSound` of `Prepare`: which frames of a clip are taken is checked for every
  clip up to `MaxClip`, and registries, strategies and adapter pipelines are tables
  given as constants: no step changes them, and a theorem would have to assume
  of the tables most of what it states.
- The commands of `Derived` that overlap, beyond `StoresAreLoadable`, and the
  runs that expect a violation.

## 7. Plan

Order: what can lose or corrupt results first, then what is derived from them,
then what is computed. All modules of the plan are written and checked.

| # | module(s) | checked | proved |
|---|---|---|---|
| 1 | `AuditDump`, `ResultLog` | yes | yes |
| 2 | `Session` | yes | yes |
| 3 | `Runtime`, `WorkList` | yes | yes |
| 4 | `Derived`, `Snapshot` | yes | yes |
| 5 | `Inspect` | yes | yes |
| 6 | `Prepare` with `Plan`, `Masks` | yes | all invariants but `InputsAreSound` |
| 7 | `Reference` | yes | yes |
| 8 | `Scores`, `Evidence`, `Stores`, `Report`, `Results`, `Studies` | yes | no |
| 9 | `Estimate` | yes | yes |
| 10 | `Sources`, `Strategies`, `Transforms`, `Adapter` | yes | no |

## 8. What the code does otherwise than it says

With a run that shows it:

* `UnchangedSincePreflight` (`docs/APPLICATION_API.md:28`): if an input is edited
  during `prepare_run`, the token is a constant, equal to the next one whatever
  happened (`_session_service.py:200`). `CheckedIsUnchanged` and
  `OneWriterPerPreparation` hold for all other tokens (`~Masked`).
* `AcceptedMetricsAreCurrent` with overlapping commands (`metrics/store.py:258-264`):
  the hash of the dump's manifest is taken when the metrics are saved
  (`store.py:179`), so a run that flushes meanwhile is vouched for unread.
* `CompleteMeansWhole` (`captum_baseline/README.md:33-34`): `_append_with_limit`
  cuts a unit before the rows already stored are left out, so that two limited
  runs can mark an output complete with rows missing (`workflow.py:763`).

Noticed while modelling, without a run of its own:

*Dump and session.* A run killed between creating the directories of a dump and
publishing its first manifest leaves an output that is neither empty nor a dump,
and no command accepts it any more (`writer.py:153`, `_session_service.py:169-191`),
although a killed run is said to be safe to retry (`docs/TUTORIAL.md:65`). A source
manifest is parsed and then read again for its hash (`core/source/provider.py:128`,
`:132`). When the last fragment of a dump is removed and its index rebuilt, the
next run reuses its ordinal, and `finished_at` stays set although rows are missing
(`resume/index.py:178`); `ReadsAreOfOneMoment` and `FinishedIsComplete` leave damaged
dumps out.

*Configuration.* Explicit regions with parameters are accepted
(`region_expanders.py:127`), and every item of theirs fails
(`mask_generators.py:197`). Two perturbations that are the same to twelve decimals
are accepted and cannot be planned. Controls of a tracked part, or of a grid cell
without pixels, are accepted and always fail. The length of a fill is compared with
the channels only when it is applied (`perturb/_helpers.py:54-60`): `PreparedAreSound`
says that each of its items fails; a blur with a small sigma, or tiles larger
than the frame, change nothing and say nothing.

*Masks.* The digest of a mask file is checked and the file opened again to be decoded
(`mask_generators.py:213`): if it is replaced in between, the wrong mask is used and
cached. `MasksAreWhatTheyClaim` leaves out a process that was in this window.

*Sources.* The provenance of a Kinetics source omits its number of frames, split,
classes and directory (`kinetics.py:113-118`), so a dump can be resumed with
others; without pinned classes its labels depend on the split (`:82-84`).
`video_folder.py:47-50` calls segment centres equivalent to an integer formula from
which floating point differs by one for some clips, e.g. frame 24 of 49 for 2.
An image is read twice, to hash and to decode (`image_folder.py:65-66`).

*Adapters.* The recorded identity omits `state_dict_key`, `strict`,
`model_kwargs` and the TSM shift; a checkpoint is hashed before it is read again.
Pipelines taken from a preset are not checked for order. `TenCrop` is accepted
where the transformation of a mask raises. An out-of-memory error outside the
network is not recognised as one.

*Estimate.* The area check looks at the first item of each (region, instance,
inversion) only, so at one control of many, and passes when there is nothing to
look at. Without `minimum_accuracy` an estimate in which every clean sample
failed asks for no confirmation.

*Metrics and analysis.* `flip_wrong_to_correct` counts an improvement as
degradation 1, although positive is documented as worse. A label outside the
classes aborts the computation of metrics; only the sanity pass warns of it.
All-zero degradations count as consistent in sign. A tiny standard deviation of
controls gives any z-value (`control.py`, `control_std != 0.0`). A configuration may
perturb a region and its complement; both are recorded under one `region_key` with
their own areas (`processors.py:122-132`), and unless these are equal the metrics take
the dump for corrupt (`aggregate.py:276-291`). The analysis of a dump without a joined
row ends in a `KeyError`, which is reported as a failed analysis (`reader.py:131-140`). A control whose
target was never recorded is, when areas are within the tolerance, paired with
another region.

*Report.* `class_semantic_excluded_no_gt_label` is always 0. Regions that tie are
ordered by the stores on cards and by key in `top_region_share`. The grid layout
of a page overlays two grid families although its comment promises the table
(`html_renderer.py:414-464`). Reliability is distributed over all metrics beside
rows of the primary one. The semantic tables are filled although documented as
empty for a single group.

*Reference workflows.* `accuracy.json` is taken as done when it is there, even torn;
a torn part or manifest makes every later run raise; a summary is reported
whatever it was computed from. Seed stability of a single seed is 0 there and
unavailable in the package, and the sign test of the studies takes all-zero signs
for consistent.

## 9. Not modelled, and why

* `metrics/viz`, HTML, CSS, charts, wording, CLI text and logging are layout.
* Networks, image and video decoders, the restricted unpickler and YAML are external,
  as are the file system's own failures beyond a raised error, a kill and a lost
  file. What OpenCV computes and what a seeded generator draws are left open.
* The resolution of `skeleton_source` and the determinism check of an adapter are
  left out of `Configuration` and `Prepare`; control regions are told apart by tuples, so that
  two names that join to one text are not seen.
* Studies a3, a4, b1, b2 and phase 0, figures, benchmarks and the preparation of
  datasets run the package or read its tables, and keep no state of their own.
* `KeyboardInterrupt`, which bypasses `close`, behaves as `Crash`. Schema and code
  version mismatches (a dump from another release) end a command before it changes
  anything. A listing of a directory is one step.
