------------------------------ MODULE Derived ------------------------------
(***************************************************************************)
(* What is computed from a dump: `ssat metrics` (metrics/store.py),        *)
(* `ssat analyze` (analysis/reader.py, analysis/store.py), `ssat report`   *)
(* (report/assembler.py, assets.py, exporter.py, html_renderer.py) and     *)
(* `ssat export-labels` (report/labels.py), beside the runs and rebuilds   *)
(* that change the dump.                                                   *)
(*                                                                         *)
(* No command but run and rebuild takes a lock.  A store is several files, *)
(* replaced one after the other, and a manifest, replaced last, that holds *)
(* the hash of the manifest of its source; a hash is modelled by the       *)
(* hashed manifest itself.  Rows are reduced to a version, and the content *)
(* of a derived file to the version it was computed from.                  *)
(* AuditDump models what a version of the dump consists of.                *)
(***************************************************************************)
EXTENDS Integers

CONSTANTS
    NMetrics,    \* number of metrics fragments (save_metrics)
    NAnalysis,   \* number of analysis fragments (save_analysis)
    Tallies,     \* the values counts_by_status may take
    None,        \* nothing there
    Torn,        \* a file that was truncated and not completely rewritten
    Overlap,     \* whether a command may start before another one has ended
    MaxRows,     \* bound: changes of the rows
    MaxSessions, \* bound: runs
    MaxStamps,   \* bound: derived stores written
    MaxFaults    \* bound: commands that are killed or fail

ASSUME StoreAssumption == NMetrics \in Nat \ {0} /\ NAnalysis \in Nat \ {0}
ASSUME NothingAssumption == None \notin Nat /\ 0 \in Tallies
ASSUME OverlapAssumption == Overlap \in BOOLEAN
ASSUME BoundAssumption ==
    {MaxRows, MaxSessions, MaxStamps, MaxFaults} \subseteq Nat

VARIABLES
    rows,      \* version of the rows that a reader of the dump finds
    tally,     \* their counts by status
    orphans,   \* data fragments that wait for a rebuild to index them
    manifest,  \* run_manifest.json
    told,      \* history: the last change of the rows changed the manifest too
    writer,    \* where the holder of the output lock is
    metrics, mman,    \* the metrics fragments and metrics_manifest.json
    m,                \* compute_metrics
    analysis, aman,   \* the analysis fragments and analysis_manifest.json
    a,                \* analyze
    model, rankings, rman,  \* report_model.json, sample_rankings.csv,
                            \* report_manifest.json
    r,                \* generate_report
    labels, lman,     \* what labels.jsonl and labels_manifest.json came from
    l,                \* export_labels
    stamps,    \* timestamps taken so far: no two manifests carry the same
    faults     \* commands killed or failed so far (bounded by MaxFaults)

dump == <<rows, tally, orphans, manifest, told, writer>>
mstore == <<metrics, mman>>
astore == <<analysis, aman>>
page == <<model, rankings, rman>>
vars == <<rows, tally, orphans, manifest, told, writer, metrics, mman, m,
          analysis, aman, a, model, rankings, rman, r, labels, lman, l, stamps, faults>>

-----------------------------------------------------------------------------
Versions == 0..MaxRows
MFiles == 1..NMetrics
AFiles == 1..NAnalysis
NoMetrics == [k \in MFiles |-> None]
NoAnalysis == [k \in AFiles |-> None]

\* the local state of a command that is not running
MIdle == [pc |-> "idle", rows |-> 0, excl |-> 0, at |-> 0, hash |-> None]
AIdle == [pc |-> "idle", man |-> None, read |-> NoMetrics, ctx |-> 0,
          at |-> 0, hash |-> None, told |-> FALSE]
RIdle == [pc |-> "idle", man |-> None, read |-> NoMetrics, aman |-> None,
          aread |-> NoAnalysis, at |-> 0, page |-> None]
LIdle == [pc |-> "idle", model |-> None, rankings |-> None, from |-> None]

Quiet == /\ writer = "idle" /\ m.pc = "idle" /\ a.pc = "idle"
         /\ r.pc = "idle" /\ l.pc = "idle"
MayStart == Overlap \/ Quiet
MayFault == faults < MaxFaults /\ faults' = faults + 1

Init ==
    /\ rows = 0 /\ tally = 0 /\ orphans = 0 /\ manifest = None
    /\ told = TRUE /\ writer = "idle"
    /\ metrics = NoMetrics /\ mman = None /\ m = MIdle
    /\ analysis = NoAnalysis /\ aman = None /\ a = AIdle
    /\ model = None /\ rankings = None /\ rman = None /\ r = RIdle
    /\ labels = None /\ lman = None /\ l = LIdle
    /\ stamps = 0 /\ faults = 0

-----------------------------------------------------------------------------
(* The dump.  Every session stamps the manifest it opens (started_at or a  *)
(* resume event) and a successful one also the one it closes with.         *)

Session == IF manifest = None THEN 0 ELSE manifest.session
PublishManifest(new) ==
    /\ manifest' = new
    /\ told' = (told \/ new # manifest)

\* faulty: a resumed run leaves no event in the manifest
OpenSilently ==
    /\ MayStart /\ writer = "idle" /\ Session < MaxSessions
    /\ manifest' = [session |-> 1, tally |-> tally, finished |-> FALSE]
    /\ told' = TRUE /\ writer' = "recording"
    /\ UNCHANGED <<rows, tally, orphans, mstore, m, astore, a, page, r, labels, lman,
                   l, stamps, faults>>
OpenRun ==
    /\ MayStart /\ writer = "idle" /\ Session < MaxSessions
    /\ PublishManifest([session |-> Session + 1, tally |-> tally,
                        finished |-> FALSE])
    /\ writer' = "recording"
    /\ UNCHANGED <<rows, tally, orphans, mstore, m, astore, a, page, r, labels, lman,
                   l, stamps, faults>>

\* rows that only supersede others may leave the counts as they were
ChangeRows ==
    /\ rows < MaxRows /\ rows' = rows + 1 /\ told' = FALSE
    /\ tally' \in IF rows = 0 THEN Tallies \ {0} ELSE Tallies

PublishRows ==
    /\ writer = "recording" /\ ChangeRows
    /\ writer' = "counting"
    /\ UNCHANGED <<orphans, manifest, mstore, m, astore, a, page, r, labels, lman, l,
                   stamps, faults>>

PublishCounts ==
    /\ writer = "counting" \/ (writer = "indexing" /\ orphans = 0)
    /\ PublishManifest([manifest EXCEPT !.tally = tally])
    /\ writer' = IF writer = "counting" THEN "recording" ELSE "idle"
    /\ UNCHANGED <<rows, tally, orphans, mstore, m, astore, a, page, r, labels, lman,
                   l, stamps, faults>>

CloseRun ==
    /\ writer = "recording"
    /\ \E success \in BOOLEAN :
          PublishManifest([manifest EXCEPT !.finished = success])
    /\ writer' = "idle"
    /\ UNCHANGED <<rows, tally, orphans, mstore, m, astore, a, page, r, labels, lman,
                   l, stamps, faults>>

\* between a data fragment and its index part a kill leaves an orphan
KillWriter ==
    /\ writer # "idle" /\ MayFault
    /\ writer' = "idle"
    /\ orphans' \in {orphans}
                    \cup IF writer = "recording" THEN {orphans + 1} ELSE {}
    /\ UNCHANGED <<rows, tally, manifest, told, mstore, m, astore, a, page, r,
                   labels, lman, l, stamps>>

StartRebuild ==
    /\ MayStart /\ writer = "idle" /\ manifest # None
    /\ writer' = "indexing"
    /\ UNCHANGED <<rows, tally, orphans, manifest, told, mstore, m, astore, a,
                   page, r, labels, lman, l, stamps, faults>>

\* an orphan that newer fragments supersede changes no row when it is indexed
IndexOrphan ==
    /\ writer = "indexing" /\ orphans > 0
    /\ \/ UNCHANGED <<rows, tally, told>>
       \/ ChangeRows
    /\ orphans' = orphans - 1
    /\ UNCHANGED <<manifest, writer, mstore, m, astore, a, page, r, labels, lman,
                   l, stamps, faults>>

-----------------------------------------------------------------------------
(* ssat metrics.                                                           *)

ReadDump ==
    /\ MayStart /\ m.pc = "idle" /\ manifest # None /\ stamps < MaxStamps
    /\ m' = [MIdle EXCEPT !.pc = "summary", !.rows = rows]
    /\ UNCHANGED <<dump, mstore, astore, a, page, r, labels, lman, l, stamps, faults>>

\* the rows are read once more for the exclusion summary
Summarise ==
    /\ m.pc = "summary"
    /\ m' = [m EXCEPT !.pc = "save", !.excl = rows, !.at = 1]
    /\ UNCHANGED <<dump, mstore, astore, a, page, r, labels, lman, l, stamps, faults>>

\* faulty: the manifest is written first
SaveManifestFirst ==
    /\ m.pc = "save"
    /\ IF m.at = 1 /\ m.hash = None
       THEN /\ mman' = [hash |-> manifest, excl |-> m.excl, stamp |-> stamps + 1]
            /\ stamps' = stamps + 1
            /\ m' = [m EXCEPT !.hash = manifest] /\ UNCHANGED metrics
       ELSE /\ metrics' = [metrics EXCEPT ![m.at] = m.rows]
            /\ m' = IF m.at = NMetrics THEN MIdle ELSE [m EXCEPT !.at = @ + 1]
            /\ UNCHANGED <<mman, stamps>>
    /\ UNCHANGED <<dump, astore, a, page, r, labels, lman, l, faults>>

\* the fragments, then the hash of the source, then the manifest
SaveMetrics ==
    /\ m.pc = "save"
    /\ \/ /\ m.at <= NMetrics
          /\ metrics' = [metrics EXCEPT ![m.at] = m.rows]
          /\ m' = [m EXCEPT !.at = @ + 1]
          /\ UNCHANGED <<mman, stamps>>
       \/ /\ m.at = NMetrics + 1
          /\ m' = [m EXCEPT !.at = @ + 1, !.hash = manifest]
          /\ UNCHANGED <<metrics, mman, stamps>>
       \/ /\ m.at = NMetrics + 2
          /\ mman' = [hash |-> m.hash, excl |-> m.excl, stamp |-> stamps + 1]
          /\ stamps' = stamps + 1 /\ m' = MIdle /\ UNCHANGED metrics
    /\ UNCHANGED <<dump, astore, a, page, r, labels, lman, l, faults>>

KillMetrics ==
    /\ m.pc # "idle" /\ MayFault /\ m' = MIdle
    /\ UNCHANGED <<dump, mstore, astore, a, page, r, labels, lman, l, stamps>>

-----------------------------------------------------------------------------
(* ssat analyze: load_metrics, verify_source_dump, items(), save_analysis. *)

OpenMetrics ==
    /\ MayStart /\ a.pc = "idle" /\ mman # None /\ stamps < MaxStamps
    /\ a' = [AIdle EXCEPT !.pc = "load", !.man = mman, !.at = 1]
    /\ UNCHANGED <<dump, mstore, m, astore, page, r, labels, lman, l, stamps, faults>>

LoadMetrics ==
    /\ a.pc = "load" /\ a.at <= NMetrics
    /\ a' = [a EXCEPT !.read[a.at] = metrics[a.at], !.at = @ + 1]
    /\ UNCHANGED <<dump, mstore, m, astore, page, r, labels, lman, l, stamps, faults>>

VerifySourceDump ==
    /\ a.pc = "load" /\ a.at > NMetrics
    /\ a' = IF a.man.hash = manifest THEN [a EXCEPT !.pc = "items"] ELSE AIdle
    /\ UNCHANGED <<dump, mstore, m, astore, page, r, labels, lman, l, stamps, faults>>

ReadItems ==
    /\ a.pc = "items"
    /\ a' = [a EXCEPT !.pc = "save", !.ctx = rows, !.at = 1, !.told = told]
    /\ UNCHANGED <<dump, mstore, m, astore, page, r, labels, lman, l, stamps, faults>>

SaveAnalysis ==
    /\ a.pc = "save"
    /\ \/ /\ a.at <= NAnalysis
          /\ analysis' = [analysis EXCEPT ![a.at] =
                             [items |-> a.read[1], ctx |-> a.ctx, told |-> a.told]]
          /\ a' = [a EXCEPT !.at = @ + 1]
          /\ UNCHANGED <<aman, stamps>>
       \/ /\ a.at = NAnalysis + 1
          /\ a' = [a EXCEPT !.at = @ + 1, !.hash = mman]
          /\ UNCHANGED <<analysis, aman, stamps>>
       \/ /\ a.at = NAnalysis + 2
          /\ aman' = [hash |-> a.hash, stamp |-> stamps + 1]
          /\ stamps' = stamps + 1 /\ a' = AIdle /\ UNCHANGED analysis
    /\ UNCHANGED <<dump, mstore, m, page, r, labels, lman, l, faults>>

KillAnalysis ==
    /\ a.pc # "idle" /\ MayFault /\ a' = AIdle
    /\ UNCHANGED <<dump, mstore, m, astore, page, r, labels, lman, l, stamps>>

-----------------------------------------------------------------------------
(* ssat report.  The assembler reads the metrics store without comparing   *)
(* it with the dump; only the gallery (link_assets) does, when there is    *)
(* one: source_provenance recorded and at least one sample selected.       *)

OpenReport ==
    /\ MayStart /\ r.pc = "idle" /\ manifest # None /\ mman # None
    /\ stamps < MaxStamps
    /\ r' = [RIdle EXCEPT !.pc = "load", !.man = mman, !.at = 1]
    /\ UNCHANGED <<dump, mstore, m, astore, a, page, labels, lman, l, stamps, faults>>

LoadForReport ==
    /\ r.pc = "load" /\ r.at <= NMetrics
    /\ r' = [r EXCEPT !.read[r.at] = metrics[r.at], !.at = @ + 1]
    /\ UNCHANGED <<dump, mstore, m, astore, a, page, labels, lman, l, stamps, faults>>

\* no analysis directory: a report without it; one without a manifest: none
OpenAnalysis ==
    /\ r.pc = "load" /\ r.at > NMetrics
    /\ r' = IF aman # None
            THEN [r EXCEPT !.pc = "analysis", !.aman = aman, !.at = 1]
            ELSE IF analysis = NoAnalysis THEN [r EXCEPT !.pc = "provenance"]
            ELSE RIdle
    /\ UNCHANGED <<dump, mstore, m, astore, a, page, labels, lman, l, stamps, faults>>

LoadAnalysis ==
    /\ r.pc = "analysis" /\ r.at <= NAnalysis
    /\ r' = [r EXCEPT !.aread[r.at] = analysis[r.at], !.at = @ + 1]
    /\ UNCHANGED <<dump, mstore, m, astore, a, page, labels, lman, l, stamps, faults>>

VerifySourceMetrics ==
    /\ r.pc = "analysis" /\ r.at > NAnalysis
    /\ r' = IF r.aman.hash = mman THEN [r EXCEPT !.pc = "provenance"] ELSE RIdle
    /\ UNCHANGED <<dump, mstore, m, astore, a, page, labels, lman, l, stamps, faults>>

\* history: the rows at this moment, if the dump's manifest has told of them
Seen == IF told THEN rows ELSE None
\* the hashes of _build_provenance are taken after everything was read
Assemble ==
    /\ r.pc = "provenance"
    /\ \E g \in BOOLEAN :
          r' = [r EXCEPT !.pc = "link", !.page =
                  [man |-> r.man, read |-> r.read, aman |-> r.aman,
                   aread |-> r.aread, run |-> manifest, metrics |-> mman,
                   gallery |-> g, saw |-> Seen, stamp |-> stamps + 1]]
    /\ stamps' = stamps + 1
    /\ UNCHANGED <<dump, mstore, m, astore, a, page, labels, lman, l, faults>>

\* faulty: the gallery is rendered from whatever the store holds
LinkAnyway ==
    /\ r.pc = "link" /\ r' = [r EXCEPT !.pc = "model"]
    /\ UNCHANGED <<dump, mstore, m, astore, a, page, labels, lman, l, stamps, faults>>
LinkAssets ==
    /\ r.pc = "link"
    /\ r' = IF r.page.gallery => mman.hash = manifest
            THEN [r EXCEPT !.pc = "model"] ELSE RIdle
    /\ UNCHANGED <<dump, mstore, m, astore, a, page, labels, lman, l, stamps, faults>>

\* report_model.json is replaced atomically
ExportModel ==
    /\ r.pc = "model"
    /\ model' = r.page /\ r' = [r EXCEPT !.pc = "open_rankings"]
    /\ UNCHANGED <<dump, mstore, m, astore, a, rankings, rman, labels, lman, l,
                   stamps, faults>>

\* faulty: a file that exists is not exported again
ExportNewRankings ==
    /\ r.pc = "open_rankings"
    /\ rankings' = IF rankings = None THEN r.page ELSE rankings
    /\ r' = [r EXCEPT !.pc = "open_manifest"]
    /\ UNCHANGED <<dump, mstore, m, astore, a, model, rman, labels, lman, l,
                   stamps, faults>>
\* the CSV files and report_manifest.json are truncated, then written
ExportRankings ==
    /\ \/ /\ r.pc = "open_rankings" /\ rankings' = Torn
          /\ r' = [r EXCEPT !.pc = "write_rankings"]
       \/ /\ r.pc = "write_rankings" /\ rankings' = r.page
          /\ r' = [r EXCEPT !.pc = "open_manifest"]
    /\ UNCHANGED <<dump, mstore, m, astore, a, model, rman, labels, lman, l, stamps,
                   faults>>

RenderReport ==
    /\ \/ /\ r.pc = "open_manifest" /\ rman' = Torn
          /\ r' = [r EXCEPT !.pc = "write_manifest"]
       \/ /\ r.pc = "write_manifest" /\ rman' = r.page /\ r' = RIdle
    /\ UNCHANGED <<dump, mstore, m, astore, a, model, rankings, labels, lman, l,
                   stamps, faults>>

KillReport ==
    /\ r.pc # "idle" /\ MayFault /\ r' = RIdle
    /\ UNCHANGED <<dump, mstore, m, astore, a, page, labels, lman, l, stamps>>

-----------------------------------------------------------------------------
(* ssat export-labels reads nothing but the report directory.              *)

OpenModel ==
    /\ MayStart /\ l.pc = "idle" /\ stamps < MaxStamps
    /\ model # None /\ rankings # None
    /\ l' = [LIdle EXCEPT !.pc = "rankings", !.model = model]
    /\ UNCHANGED <<dump, mstore, m, astore, a, page, r, labels, lman, stamps, faults>>

ReadRankings ==
    /\ l.pc = "rankings"
    /\ l' = [l EXCEPT !.pc = "hash", !.rankings = rankings]
    /\ UNCHANGED <<dump, mstore, m, astore, a, page, r, labels, lman, stamps, faults>>

HashReport ==
    /\ l.pc = "hash"
    /\ l' = [l EXCEPT !.pc = "save", !.from = rman]
    /\ UNCHANGED <<dump, mstore, m, astore, a, page, r, labels, lman, stamps, faults>>

\* labels.jsonl is truncated, then written; labels_manifest.json is replaced
ExportLabels ==
    /\ \/ /\ l.pc = "save" /\ labels' = Torn
          /\ l' = [l EXCEPT !.pc = "write"] /\ UNCHANGED <<lman, stamps>>
       \/ /\ l.pc = "write" /\ labels' = [model |-> l.model, rankings |-> l.rankings]
          /\ l' = [l EXCEPT !.pc = "manifest"] /\ UNCHANGED <<lman, stamps>>
       \/ /\ l.pc = "manifest" /\ l' = LIdle
          /\ lman' = [model |-> l.model, rankings |-> l.rankings,
                      from |-> l.from, stamp |-> stamps + 1]
          /\ stamps' = stamps + 1 /\ UNCHANGED labels
    /\ UNCHANGED <<dump, mstore, m, astore, a, page, r, faults>>

KillLabels ==
    /\ l.pc # "idle" /\ MayFault /\ l' = LIdle
    /\ UNCHANGED <<dump, mstore, m, astore, a, page, r, labels, lman, stamps>>

-----------------------------------------------------------------------------
Dump == \/ OpenRun \/ PublishRows \/ PublishCounts \/ CloseRun \/ KillWriter
        \/ StartRebuild \/ IndexOrphan
Metrics == ReadDump \/ Summarise \/ SaveMetrics \/ KillMetrics
Analysis == \/ OpenMetrics \/ LoadMetrics \/ VerifySourceDump \/ ReadItems
            \/ SaveAnalysis \/ KillAnalysis
Report == \/ OpenReport \/ LoadForReport \/ OpenAnalysis \/ LoadAnalysis
          \/ VerifySourceMetrics \/ Assemble \/ LinkAssets \/ ExportModel
          \/ ExportRankings \/ RenderReport \/ KillReport
Labels == OpenModel \/ ReadRankings \/ HashReport \/ ExportLabels \/ KillLabels

Next == Dump \/ Metrics \/ Analysis \/ Report \/ Labels
Spec == Init /\ [][Next]_vars

-----------------------------------------------------------------------------
(* Types.                                                                  *)

Maybe(S) == S \cup {None}
RunManifests == [session : 1..MaxSessions, tally : Tallies, finished : BOOLEAN]
MetricsManifests == [hash : RunManifests, excl : Versions, stamp : Nat]
AnalysisRows == [items : Versions, ctx : Versions, told : BOOLEAN]
AnalysisManifests == [hash : MetricsManifests, stamp : Nat]
Pages == [man : MetricsManifests, read : [MFiles -> Versions],
          aman : Maybe(AnalysisManifests), aread : [AFiles -> Maybe(AnalysisRows)],
          run : RunManifests, metrics : MetricsManifests,
          gallery : BOOLEAN, saw : Maybe(Versions), stamp : Nat]
Written(S) == Maybe(S) \cup {Torn}  \* what a file that is truncated may hold
\* a file that is not there is none of those that are
ASSUME MissingAssumption == None \notin RunManifests \cup AnalysisRows \cup Pages

TypeOK ==
    /\ rows \in Versions /\ tally \in Tallies
    /\ orphans \in 0..MaxFaults /\ told \in BOOLEAN
    /\ manifest \in Maybe(RunManifests)
    /\ writer \in {"idle", "recording", "counting", "indexing"}
    /\ metrics \in [MFiles -> Maybe(Versions)]
    /\ mman \in Maybe(MetricsManifests)
    /\ m \in [pc : {"idle", "summary", "save"}, rows : Versions, excl : Versions,
              at : 0..NMetrics + 2, hash : Maybe(RunManifests)]
    /\ analysis \in [AFiles -> Maybe(AnalysisRows)]
    /\ aman \in Maybe(AnalysisManifests)
    /\ a \in [pc : {"idle", "load", "items", "save"},
              man : Maybe(MetricsManifests), read : [MFiles -> Maybe(Versions)],
              ctx : Versions, at : 0..NMetrics + NAnalysis + 2,
              hash : Maybe(MetricsManifests), told : BOOLEAN]
    /\ model \in Maybe(Pages) /\ rankings \in Written(Pages)
    /\ rman \in Written(Pages)
    /\ r \in [pc : {"idle", "load", "analysis", "provenance", "link", "model",
                    "open_rankings", "write_rankings", "open_manifest",
                    "write_manifest"},
              man : Maybe(MetricsManifests), read : [MFiles -> Maybe(Versions)],
              aman : Maybe(AnalysisManifests),
              aread : [AFiles -> Maybe(AnalysisRows)],
              at : 0..NMetrics + NAnalysis + 1, page : Maybe(Pages)]
    /\ labels \in Written([model : Pages, rankings : Written(Pages)])
    /\ lman \in Maybe([model : Pages, rankings : Written(Pages),
                       from : Written(Pages), stamp : Nat])
    /\ l \in [pc : {"idle", "rankings", "hash", "save", "write", "manifest"},
              model : Maybe(Pages), rankings : Written(Pages),
              from : Written(Pages)]
    /\ stamps \in Nat /\ faults \in 0..MaxFaults

-----------------------------------------------------------------------------
(* Properties.                                                             *)

\* Whatever was killed, a store whose manifest exists has all its fragments:
\* load_metrics and load_analysis never stop at a missing one.
StoresAreLoadable ==
    /\ mman # None => \A k \in MFiles : metrics[k] # None
    /\ aman # None => \A k \in AFiles : analysis[k] # None

\* verify_source_dump passes for the metrics store on disk
Accepted == mman # None /\ mman.hash = manifest
MetricsAreOf(v) == /\ mman.excl = v
                   /\ \A k \in MFiles : metrics[k] = v

\* If the last change of the rows reached run_manifest.json, a metrics store
\* that verify_source_dump accepts was computed from the rows of today, all of
\* its fragments and its exclusion summary, in the middle of a save and after
\* a killed one as well.
AcceptedMetricsAreCurrent == told /\ Accepted => MetricsAreOf(rows)

\* Every fragment of an analysis, of a killed one too and however old it is by
\* now, joined the items of one dump with the metrics of the same dump, if the
\* manifest of the dump had told of its last change when it was joined.
AnalysisJoinsOneDump ==
    \A k \in AFiles : analysis[k] # None /\ analysis[k].told =>
        analysis[k].items = analysis[k].ctx

\* When the metrics are accepted for the dump and the analysis for the metrics,
\* all fragments of the analysis joined today's items (reader.py:88) with the
\* metrics of today's items.
AcceptedAnalysisIsCurrent ==
    told /\ Accepted /\ aman # None /\ aman.hash = mman =>
        \A k \in AFiles : analysis[k].items = rows /\ analysis[k].ctx = rows

\* A report with a gallery, complete or not, is of one dump: everything it shows
\* was computed from the rows at its assembly, and it names the manifests of
\* exactly that dump, metrics and analysis.
ReportIsOfOneDump ==
    model # None /\ model.gallery /\ model.saw # None =>
        /\ model.man = model.metrics /\ model.man.hash = model.run
        /\ \A k \in MFiles : model.read[k] = model.saw
        /\ model.aman # None =>
              /\ model.aman.hash = model.metrics
              /\ \A k \in AFiles :
                    /\ model.aread[k].items = model.saw
                    /\ model.aread[k].ctx = model.saw

\* What a loader can get out of the metrics store implements Snapshot.
SnapshotOfRows == INSTANCE Snapshot WITH
    source <- rows,
    copy <- IF told /\ Accepted THEN mman.excl ELSE None
ImplementsSnapshot == SnapshotOfRows!Spec

\* Nothing compares the files of a report directory, which a killed report
\* leaves half rewritten; but labels that name a report are of that report or
\* a newer one, since the files they are made of are written first.
LabelsAreNotOlderThanTheirReport ==
    lman # None /\ lman.from \notin {None, Torn} =>
        /\ lman.from.stamp <= lman.model.stamp
        /\ lman.rankings # Torn => lman.from.stamp <= lman.rankings.stamp

\* What the loaders accept is whole and current.
AcceptedStoresAreCurrent ==
    /\ TypeOK /\ StoresAreLoadable
    /\ AcceptedMetricsAreCurrent /\ AcceptedAnalysisIsCurrent

\* Whatever joins several stores joined stores of one dump.
JoinsAreOfOneDump == AnalysisJoinsOneDump /\ ReportIsOfOneDump
=============================================================================
