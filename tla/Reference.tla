----------------------------- MODULE Reference -----------------------------
(***************************************************************************)
(* The independent Captum workflows: the synthetic-shortcut baseline       *)
(* (experiments/reference_comparison/captum_baseline) and its ImageNet     *)
(* twin (experiments/revision_1/c1_captum/imagenet_workflow).  Both keep   *)
(* their rows in a RawStore: part files plus a run_manifest.json that is   *)
(* written in place, neither of them atomically and without a lock.        *)
(*                                                                         *)
(* A user starts run.py again and again on one output: with or without     *)
(* --stop-after-items, after kills at any point, after editing the inputs. *)
(* A row is its item_key; what was measured is left to Studies.            *)
(***************************************************************************)
EXTENDS Integers, FiniteSets, SequencesExt, FiniteSetsExt

CONSTANTS
    Batches,   \* samples of the manifest, in the order and batches of the loader
    Audits,    \* audit_runs: their variants (operator, seed) and controls flag
    Cells,     \* grid cells in row-major order
    Controls,  \* controls_per_region
    FlushAt,   \* pending rows that make a part: 4096, or 16384 in the twin
    Limits,    \* values of --stop-after-items, None included
    MaxKills,  \* bound: kills
    MaxEdits,  \* bound: edits of configuration, manifests or checkpoints
    Torn,      \* a file that a kill left half-written
    None

ASSUME ReferenceAssumption ==
    /\ Controls \in Nat \ {0, 1} /\ FlushAt \in Nat \ {0}
    /\ Limits \subseteq Nat \cup {None} /\ MaxKills \in Nat /\ MaxEdits \in Nat

Samples == UNION {Range(batch) : batch \in Range(Batches)}
Variants == UNION {Range(audit.variants) : audit \in Range(Audits)}

\* The twin has one audit.  Nobody compares the identifiers of a manifest: with
\* one of them twice, a part has duplicates and no command accepts it any more.
ASSUME InputAssumption ==
    /\ Audits \in Seq(Range(Audits)) /\ Audits # <<>>
    /\ \A a \in DOMAIN Audits : /\ Audits[a].variants \in Seq(Range(Audits[a].variants))
                                /\ IsInjective(Audits[a].variants)
                                /\ Audits[a].controls \in BOOLEAN
    /\ Cells \in Seq(Range(Cells)) /\ IsInjective(Cells)
    /\ Batches \in Seq(Seq(Samples))
    /\ \A b, c \in DOMAIN Batches : \A i \in DOMAIN Batches[b], j \in DOMAIN Batches[c] :
          Batches[b][i] = Batches[c][j] => b = c /\ i = j

Rows == [audit: DOMAIN Audits, variant: Variants, sample: Samples, cell: Range(Cells),
         control: 0..Controls]
Parts == [rows: SUBSET Rows, identity: Nat]
Manifests == [identity: Nat, status: {"incomplete", "complete"}, parts: Nat, rows: Nat]
ASSUME MissingAssumption == Torn # None /\ Torn \notin Parts /\ {None, Torn} \cap Manifests = {}

VARIABLES
    workflow,  \* "shortcut" or "imagenet"
    inputs,    \* version of what build_identity hashes
    parts,     \* raw/part-*.parquet: [rows, identity] or Torn
    manifest,  \* run_manifest.json: None, Torn or its fields
    accuracy,  \* accuracy.json: None, Torn or TRUE
    summary,   \* analysis/summary.json: None, Torn or its rows
    report,    \* report.md: None or the rows it is about
    call,      \* the current invocation: its arguments and where it is
    store,     \* its RawStore
    kills,
    limited    \* history: invocations with a limit on this output, up to 2

disk == <<parts, manifest, accuracy, summary, report>>
vars == <<workflow, inputs, disk, call, store, kills, limited>>

-----------------------------------------------------------------------------
(* The work, in the order of the loops of run_audit: a unit is what one    *)
(* call of Captum measures and _append_with_limit appends.                 *)

Key(a, v, s, cell, control) ==
    [audit |-> a, variant |-> v, sample |-> s, cell |-> cell, control |-> control]

\* the rows of the sequences in the domain of f, one after the other
Each(f) == FlattenSeq([i \in DOMAIN f |-> f[i]])
TargetRows(a, v, samples) ==
    Each([i \in DOMAIN samples |-> [j \in DOMAIN Cells |-> Key(a, v, samples[i], Cells[j], 0)]])
ControlRows(a, v, samples, cell, k) ==
    [i \in DOMAIN samples |-> Key(a, v, samples[i], cell, k)]

\* per batch and variant: the targets, then each control of each cell
ShortcutUnits ==
    LET controlUnits(a, v, samples) ==
            Each([j \in DOMAIN Cells |->
                    [k \in 1..Controls |-> ControlRows(a, v, samples, Cells[j], k)]])
        units(a, v, samples) ==
            <<TargetRows(a, v, samples)>>
              \o (IF Audits[a].controls THEN controlUnits(a, v, samples) ELSE <<>>) IN
    Each([a \in DOMAIN Audits |-> Each([b \in DOMAIN Batches |->
        Each([i \in DOMAIN Audits[a].variants |-> units(a, Audits[a].variants[i], Batches[b])])])])

\* per sample and variant: the targets, then all controls
ImageNetUnits ==
    LET samples == Each(Batches)
        controls(v, s) == Each([j \in DOMAIN Cells |->
                                  [k \in 1..Controls |-> Key(1, v, s, Cells[j], k)]])
        units(v, s) == <<TargetRows(1, v, <<s>>), controls(v, s)>> IN
    Each([i \in DOMAIN samples |->
        Each([j \in DOMAIN Audits[1].variants |-> units(Audits[1].variants[j], samples[i])])])

ShortcutPlan == ShortcutUnits
ImageNetPlan == ImageNetUnits
Units == IF workflow = "shortcut" THEN ShortcutPlan ELSE ImageNetPlan

-----------------------------------------------------------------------------
(* Invocations.  A failure ends one; a kill does, too, and may tear what   *)
(* is being written.                                                       *)

NoCall == [pc |-> "idle", command |-> None, limit |-> None, at |-> 0, then |-> None,
           stopped |-> FALSE, outcome |-> None]
NoStore == [keys |-> {}, pending |-> {}, start |-> 0]
RowCount == Cardinality(store.keys)

Goto(pc) == call' = [call EXCEPT !.pc = pc]
\* in memory nothing outlives an invocation
End(outcome) == call' = [NoCall EXCEPT !.outcome = outcome] /\ store' = NoStore
Fails == End("error") /\ UNCHANGED disk

Init ==
    /\ workflow \in {"shortcut", "imagenet"} /\ inputs = 1
    /\ parts = <<>> /\ manifest = None /\ accuracy = None
    /\ summary = None /\ report = None
    /\ call = NoCall /\ store = NoStore /\ kills = 0 /\ limited = 0

\* run.py: audit, analyze, report or all; only an audit can be limited
Invoke(command, limit) ==
    /\ call.pc = "idle"
    /\ limit # None => command \in {"audit", "all"}
    /\ call' = [NoCall EXCEPT !.command = command, !.limit = limit,
                  !.pc = IF command \in {"audit", "all"} THEN "open" ELSE command]
    /\ limited' = IF limit = None THEN limited ELSE Min({limited + 1, 2})
    /\ UNCHANGED <<workflow, inputs, disk, store, kills>>

EditInputs ==
    /\ call.pc = "idle" /\ inputs <= MaxEdits
    /\ inputs' = inputs + 1
    /\ UNCHANGED <<workflow, disk, call, store, kills, limited>>

-----------------------------------------------------------------------------
(* RawStore.                                                               *)

Fields(status, count, rows) ==
    [identity |-> inputs, status |-> status, parts |-> count, rows |-> rows]

OpenStore ==
    /\ call.pc = "open"
    /\ \/ /\ manifest = None
          /\ manifest' = Fields("incomplete", 0, 0)
          /\ Goto("refresh") /\ UNCHANGED <<store, parts, accuracy, summary, report>>
       \/ manifest = Torn /\ Fails
       \/ /\ manifest \notin {None, Torn} /\ manifest.identity # inputs
          /\ Fails
       \/ /\ manifest \notin {None, Torn} /\ manifest.identity = inputs
          /\ Goto("refresh") /\ UNCHANGED <<disk, store>>
    /\ UNCHANGED <<workflow, inputs, kills, limited>>

Readable == Torn \notin Range(parts)
OnDisk == UNION {p.rows : p \in Range(parts) \ {Torn}}
Duplicates == \E i, j \in DOMAIN parts : i < j /\ parts[i].rows \cap parts[j].rows # {}

\* faulty: a complete store is audited again
RefreshAndAudit ==
    /\ call.pc = "refresh"
    /\ IF ~Readable \/ Duplicates THEN Fails
       ELSE /\ store' = [keys |-> OnDisk, pending |-> {}, start |-> Cardinality(OnDisk)]
            /\ call' = [call EXCEPT !.pc = "units", !.at = 1]
            /\ UNCHANGED disk
    /\ UNCHANGED <<workflow, inputs, kills, limited>>

\* every part is read; a complete store is only re-stamped
Refresh ==
    LET damaged == ~Readable \/ Duplicates
        wrong == manifest.status = "complete" /\ manifest.rows # Cardinality(OnDisk) IN
    /\ call.pc = "refresh"
    /\ IF damaged \/ wrong THEN Fails
       ELSE /\ store' = [keys |-> OnDisk, pending |-> {}, start |-> Cardinality(OnDisk)]
            /\ call' = [call EXCEPT !.pc = IF manifest.status = "complete" THEN "complete"
                                           ELSE "units", !.at = 1]
            /\ UNCHANGED disk
    /\ UNCHANGED <<workflow, inputs, kills, limited>>

\* append: known rows are left out
AppendRows(known, rows) ==
    [known EXCEPT !.keys = @ \cup Range(rows), !.pending = @ \cup (Range(rows) \ known.keys)]

\* faulty: the limit is looked at after the rows were appended
AppendThenLimit(known, rows, limit) ==
    LET appended == AppendRows(known, rows) IN
    [store |-> appended,
     stopped |-> limit # None /\ Cardinality(appended.keys) - known.start >= limit]

\* the limit cuts the rows before the known ones are left out
AppendWithLimit(known, rows, limit) ==
    LET left == limit - (Cardinality(known.keys) - known.start)
        appended == AppendRows(known, SubSeq(rows, 1, Min({left, Len(rows)}))) IN
    IF limit = None THEN [store |-> AppendRows(known, rows), stopped |-> FALSE]
    ELSE IF left <= 0 THEN [store |-> known, stopped |-> TRUE]
    ELSE [store |-> appended,
          stopped |-> Cardinality(appended.keys) - known.start >= limit]

Full(pending) == Cardinality(pending) >= FlushAt

\* faulty: a unit that is known is tried again
MeasureAgain ==
    LET rows == Units[call.at]
        result == AppendWithLimit(store, rows, call.limit) IN
    /\ call.pc = "units" /\ call.at <= Len(Units)
    /\ store' = result.store
    /\ call' = [call EXCEPT !.at = IF result.store = store THEN @ ELSE @ + 1,
                  !.stopped = result.stopped,
                  !.then = IF result.stopped THEN "stopped" ELSE "units",
                  !.pc = IF result.stopped \/ Full(result.store.pending) THEN "part" ELSE "units"]
    /\ UNCHANGED <<workflow, inputs, disk, kills, limited>>

\* one unit of the loops; a unit whose rows are all known is not measured
Measure ==
    LET rows == Units[call.at]
        result == AppendWithLimit(store, rows, call.limit)
        stopped == result.stopped IN
    /\ call.pc = "units" /\ call.at <= Len(Units)
    /\ IF Range(rows) \subseteq store.keys
       THEN call' = [call EXCEPT !.at = @ + 1] /\ UNCHANGED store
       ELSE /\ store' = result.store
            /\ call' = [call EXCEPT !.at = @ + 1, !.stopped = stopped,
                  !.then = IF stopped THEN "stopped" ELSE "units",
                  !.pc = IF stopped \/ Full(result.store.pending) THEN "part" ELSE "units"]
    /\ UNCHANGED <<workflow, inputs, disk, kills, limited>>

\* the twin flushes before it computes the accuracy, the baseline after it
EndOfLoops ==
    /\ call.pc = "units" /\ call.at > Len(Units)
    /\ call' = IF workflow = "imagenet"
               THEN [call EXCEPT !.pc = "part", !.then = "accuracy"]
               ELSE [call EXCEPT !.pc = "accuracy"]
    /\ UNCHANGED <<workflow, inputs, disk, store, kills, limited>>

\* flush writes the part first and the manifest after it
WritePart ==
    /\ call.pc = "part"
    /\ IF store.pending = {} THEN Goto(call.then) /\ UNCHANGED parts
       ELSE /\ parts' = parts \o <<[rows |-> store.pending, identity |-> inputs]>>
            /\ Goto("manifest")
    /\ UNCHANGED <<workflow, inputs, manifest, accuracy, summary, report, store, kills, limited>>

WriteManifest ==
    /\ call.pc = "manifest"
    /\ manifest' = Fields("incomplete", Len(parts), RowCount)
    /\ store' = [store EXCEPT !.pending = {}]
    /\ Goto(call.then)
    /\ UNCHANGED <<workflow, inputs, parts, accuracy, summary, report, kills, limited>>

Stop ==
    /\ call.pc = "stopped"
    /\ End("incomplete")
    /\ UNCHANGED <<workflow, inputs, disk, kills, limited>>

\* the baseline keeps an accuracy.json it finds, whatever is in it
RunAccuracy ==
    /\ workflow = "shortcut" /\ call.pc = "accuracy"
    /\ accuracy' = IF accuracy = None THEN TRUE ELSE accuracy
    /\ call' = [call EXCEPT !.pc = "part", !.then = "complete"]
    /\ UNCHANGED <<workflow, inputs, parts, manifest, summary, report, store, kills, limited>>

\* the twin computes it anew from its rows
WriteAccuracy ==
    /\ workflow = "imagenet" /\ call.pc = "accuracy"
    /\ accuracy' = TRUE
    /\ call' = [call EXCEPT !.pc = "part", !.then = "complete"]
    /\ UNCHANGED <<workflow, inputs, parts, manifest, summary, report, store, kills, limited>>

Complete ==
    /\ call.pc = "complete"
    /\ manifest' = Fields("complete", Len(parts), RowCount)
    /\ IF call.command = "all" THEN Goto("analyze") /\ UNCHANGED store ELSE End("complete")
    /\ UNCHANGED <<workflow, inputs, parts, accuracy, summary, report, kills, limited>>

-----------------------------------------------------------------------------
(* analyze and report read the parts and accuracy.json, not the manifest.  *)

Expected == UNION {Range(Units[i]) : i \in DOMAIN Units}
Analyzable ==
    /\ parts # <<>> /\ Readable /\ ~Duplicates
    /\ Cardinality(OnDisk) = Cardinality(Expected)
    /\ accuracy = TRUE

\* expected_rows is counted from the configuration
Analyze ==
    /\ call.pc = "analyze"
    /\ IF ~Analyzable THEN Fails
       ELSE /\ summary' = OnDisk
            /\ IF call.command = "analyze" THEN End("analyzed")
               ELSE Goto("report") /\ UNCHANGED store
            /\ UNCHANGED <<parts, manifest, accuracy, report>>
    /\ UNCHANGED <<workflow, inputs, kills, limited>>

\* a summary that is there is used as it is
RenderReport ==
    /\ call.pc = "report"
    /\ \/ summary = None /\ Goto("analyze") /\ UNCHANGED <<disk, store>>
       \/ summary = Torn /\ Fails
       \/ /\ summary \notin {None, Torn}
          /\ report' = summary /\ End("reported")
          /\ UNCHANGED <<parts, manifest, accuracy, summary>>
    /\ UNCHANGED <<workflow, inputs, kills, limited>>

-----------------------------------------------------------------------------
(* Kills.  A file opened for writing is empty until it has been written.   *)

Kill ==
    /\ call.pc # "idle" /\ kills < MaxKills
    /\ kills' = kills + 1 /\ End("killed")
    /\ UNCHANGED <<workflow, inputs, disk, limited>>

Tear ==
    LET at(pc) == call.pc = pc IN
    /\ kills < MaxKills /\ kills' = kills + 1 /\ End("killed")
    /\ \/ /\ at("part") /\ store.pending # {}
          /\ parts' = parts \o <<Torn>> /\ UNCHANGED <<manifest, accuracy, summary>>
       \/ /\ at("manifest") \/ at("complete") \/ (at("open") /\ manifest = None)
          /\ manifest' = Torn /\ UNCHANGED <<parts, accuracy, summary>>
       \/ /\ at("accuracy") /\ (workflow = "imagenet" \/ accuracy = None)
          /\ accuracy' = Torn /\ UNCHANGED <<parts, manifest, summary>>
       \/ /\ at("analyze") /\ Analyzable
          /\ summary' = Torn /\ UNCHANGED <<parts, manifest, accuracy>>
    /\ UNCHANGED <<workflow, inputs, report, limited>>

Step == \/ OpenStore \/ Refresh \/ Measure \/ EndOfLoops \/ WritePart \/ WriteManifest
        \/ Stop \/ RunAccuracy \/ WriteAccuracy \/ Complete \/ Analyze \/ RenderReport
Next == \/ Step \/ EditInputs \/ Kill \/ Tear
        \/ \E c \in {"audit", "all", "analyze", "report"}, l \in Limits : Invoke(c, l)
Spec == Init /\ [][Next]_vars
FairSpec == Spec /\ WF_vars(Step)

-----------------------------------------------------------------------------
(* Properties.                                                             *)

Completed == manifest \notin {None, Torn} /\ manifest.status = "complete"
Whole == Readable /\ OnDisk = Expected

\* Every variable holds a value of its type.
TypeOK ==
    /\ \A p \in Range(parts) \ {Torn} : p.rows \subseteq Expected
    /\ manifest \in {None, Torn} \/ manifest \in Manifests
    /\ call.pc \in {"idle", "open", "refresh", "units", "part", "manifest", "accuracy",
                    "stopped", "complete", "analyze", "report"}
    /\ store.pending \subseteq store.keys /\ store.keys \subseteq Expected

\* However often a run is stopped, killed and resumed, no row is stored in two
\* parts, and all parts were measured on the inputs the manifest names: a
\* resume is never refused for a duplicate, and tables never mix inputs.
RowsAreStoredOnce ==
    /\ Readable => ~Duplicates
    /\ manifest \notin {None, Torn} =>
          \A p \in Range(parts) \ {Torn} : p.identity = manifest.identity

\* The manifest never claims a row that is not on disk, although it is written
\* after the part and a kill may come between the two; a complete one counts
\* exactly the rows there are, through every later check of the cache.
ManifestIsNotAhead ==
    manifest \notin {None, Torn} /\ Readable =>
       /\ manifest.rows <= Cardinality(OnDisk) /\ manifest.parts <= Len(parts)
       /\ Completed => manifest.rows = Cardinality(OnDisk) /\ manifest.parts = Len(parts)

\* A limited run writes at most the rows it was allowed, and if it stops, then
\* exactly these, whatever was known before and however the units are cut.
LimitIsKept ==
    call.limit # None /\ call.pc \in {"units", "part", "manifest", "stopped"} =>
       /\ RowCount - store.start <= call.limit
       /\ call.stopped => RowCount - store.start = call.limit

\* A completed output can be analysed without a model: it has every row and
\* every file that analyze reads.  Two things take this away: a second limited
\* run, which appends nothing where a unit was cut before (CompleteMeansWhole),
\* and, in the baseline, an accuracy.json that a kill had left half-written.
CompletedOutputIsAnalyzable ==
    Completed /\ call.pc = "idle" =>
       /\ Readable
       /\ limited < 2 => OnDisk = Expected
       /\ accuracy = TRUE \/ (workflow = "shortcut" /\ accuracy = Torn)

\* What is analysed and reported is the whole audit, however the output came
\* about: the tables of an output with missing rows are never written.
ReportsCoverTheAudit ==
    /\ summary \notin {None, Torn} => summary = Expected
    /\ report # None => report = Expected

\* A complete output gains and loses no row any more, whichever commands are
\* started on it.
CompletedRowsAreFinal == [][Completed => parts' = parts]_vars

\* A run without a limit that is not killed any more measures what is left,
\* from whatever its predecessors stored, and ends with a complete output.
ResumedAuditsFinish ==
    call.pc = "units" /\ call.limit = None /\ kills = MaxKills ~> Completed

\* README.md of the baseline: the next invocation "resumes only missing item
\* identities"; the option "leave[s] a resumable incomplete run".  Checked for
\* any number of limited runs: a complete output has all rows.
CompleteMeansWhole == Completed /\ Readable => OnDisk = Expected

\* Through stops, kills and edits the store of an audit stays one audit: what
\* is stored, counted, limited, analysed and reported agrees.
StoreIsConsistent ==
    /\ TypeOK /\ RowsAreStoredOnce /\ ManifestIsNotAhead /\ LimitIsKept
    /\ CompletedOutputIsAnalyzable /\ ReportsCoverTheAudit
=============================================================================
