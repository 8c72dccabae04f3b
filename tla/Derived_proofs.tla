--------------------------- MODULE Derived_proofs ---------------------------
(***************************************************************************)
(* Theorems about Derived, for every number of fragments, rows, sessions,  *)
(* stores and faults.  What the commands write is whole however they       *)
(* overlap; that it is current, and that a join is of one dump, is proved  *)
(* for commands that run one after the other (~Overlap), killed or not.    *)
(***************************************************************************)
EXTENDS Derived, TLAPS

-----------------------------------------------------------------------------
(* The first invariant holds under any overlap.  Each part says what a     *)
(* store, and the command that writes it, has at each point.               *)

ADump == manifest \in RunManifests
AMetricsStore == /\ mman \in MetricsManifests /\ ADump
                 /\ \A k \in MFiles : metrics[k] \in Versions

DumpPart ==
    /\ rows \in Versions /\ tally \in Tallies /\ told \in BOOLEAN
    /\ orphans \in Nat /\ faults \in 0..MaxFaults /\ orphans <= faults
    /\ manifest \in Maybe(RunManifests)
    /\ writer \in {"idle", "recording", "counting", "indexing"}
    /\ writer # "idle" => ADump
    /\ stamps \in Nat

MetricsPart ==
    /\ metrics \in [MFiles -> Maybe(Versions)]
    /\ mman \in Maybe(MetricsManifests)
    /\ mman # None => AMetricsStore

MetricsStates ==
    [pc : {"idle", "summary", "save"}, rows : Versions, excl : Versions,
     at : 0..NMetrics + 2, hash : Maybe(RunManifests)]
MetricsCommand ==
    /\ m \in MetricsStates
    /\ m.pc # "idle" => ADump
    /\ m.pc = "save" =>
         /\ m.at >= 1
         /\ \A k \in MFiles : k < m.at => metrics[k] \in Versions
         /\ m.at = NMetrics + 2 => m.hash \in RunManifests

AnalysisPart ==
    /\ analysis \in [AFiles -> Maybe(AnalysisRows)]
    /\ aman \in Maybe(AnalysisManifests)
    /\ aman # None => \A k \in AFiles : analysis[k] \in AnalysisRows

AnalysisStates ==
    [pc : {"idle", "load", "items", "save"},
     man : Maybe(MetricsManifests), read : [MFiles -> Maybe(Versions)],
     ctx : Versions, at : 0..NMetrics + NAnalysis + 2,
     hash : Maybe(MetricsManifests), told : BOOLEAN]
AnalysisCommand ==
    /\ a \in AnalysisStates
    /\ a.pc # "idle" => AMetricsStore /\ a.man \in MetricsManifests
    /\ a.pc = "load" =>
         /\ a.at \in 1..NMetrics + 1
         /\ \A k \in MFiles : k < a.at => a.read[k] \in Versions
    /\ a.pc \in {"items", "save"} => \A k \in MFiles : a.read[k] \in Versions
    /\ a.pc = "save" =>
         /\ a.at \in 1..NAnalysis + 2
         /\ \A k \in AFiles : k < a.at => analysis[k] \in AnalysisRows
         /\ a.at = NAnalysis + 2 => a.hash \in MetricsManifests

ReportPart == /\ model \in Maybe(Pages)
              /\ rankings \in Written(Pages) /\ rman \in Written(Pages)

Writing == {"link", "model", "open_rankings", "write_rankings",
            "open_manifest", "write_manifest"}
ReportStates ==
    [pc : {"idle", "load", "analysis", "provenance"} \cup Writing,
     man : Maybe(MetricsManifests), read : [MFiles -> Maybe(Versions)],
     aman : Maybe(AnalysisManifests),
     aread : [AFiles -> Maybe(AnalysisRows)],
     at : 0..NMetrics + NAnalysis + 1, page : Maybe(Pages)]
ReportCommand ==
    /\ r \in ReportStates
    /\ r.pc # "idle" => ADump /\ AMetricsStore /\ r.man \in MetricsManifests
    /\ r.pc = "load" =>
         /\ r.at \in 1..NMetrics + 1
         /\ \A k \in MFiles : k < r.at => r.read[k] \in Versions
    /\ r.pc \in {"analysis", "provenance"} =>
         \A k \in MFiles : r.read[k] \in Versions
    /\ r.pc = "analysis" => /\ r.at \in 1..NAnalysis + 1
                            /\ r.aman \in AnalysisManifests
    /\ r.pc \in Writing => r.page \in Pages

Labelled == [model : Pages, rankings : Written(Pages)]
LabelsStates ==
    [pc : {"idle", "rankings", "hash", "save", "write", "manifest"},
     model : Maybe(Pages), rankings : Written(Pages), from : Written(Pages)]
LabelsPart ==
    /\ labels \in Written(Labelled)
    /\ lman \in Maybe([model : Pages, rankings : Written(Pages),
                       from : Written(Pages), stamp : Nat])
    /\ l \in LabelsStates
    /\ l.pc # "idle" => l.model \in Pages

Whole == /\ DumpPart /\ MetricsPart /\ MetricsCommand /\ AnalysisPart
         /\ AnalysisCommand /\ ReportPart /\ ReportCommand /\ LabelsPart

-----------------------------------------------------------------------------
(* The second invariant needs the commands to run one after the other.     *)

OneAtATime ==
    /\ writer # "idle" =>
         m.pc = "idle" /\ a.pc = "idle" /\ r.pc = "idle" /\ l.pc = "idle"
    /\ m.pc # "idle" => a.pc = "idle" /\ r.pc = "idle" /\ l.pc = "idle"
    /\ a.pc # "idle" => r.pc = "idle" /\ l.pc = "idle"
    /\ r.pc # "idle" => l.pc = "idle"

\* A manifest that a metrics store was computed for never comes back once it
\* was replaced.  A rebuild keeps the session, but it replaces the manifest
\* after its last orphan, and only a later session leaves new ones.
HashedOnce ==
    mman # None =>
        /\ mman.hash.session <= manifest.session
        /\ writer \in {"recording", "counting"} =>
             mman.hash.session < manifest.session
        /\ mman.hash # manifest /\ mman.hash.session = manifest.session =>
             orphans = 0 /\ manifest.tally = tally

\* what compute_metrics holds is of the dump it read
MetricsHeld ==
    /\ m.pc # "idle" => m.rows = rows
    /\ m.pc = "save" =>
         /\ m.excl = rows
         /\ \A k \in MFiles : k < m.at => metrics[k] = rows
         /\ m.at = NMetrics + 2 => m.hash = manifest

\* what analyze holds is what the metrics store has
AnalysisHeld ==
    /\ a.pc # "idle" => a.man = mman /\ mman # None
    /\ a.pc = "load" => \A k \in MFiles : k < a.at => a.read[k] = metrics[k]
    /\ a.pc \in {"items", "save"} => a.read = metrics /\ Accepted
    /\ a.pc = "save" =>
         /\ a.ctx = rows /\ a.told = told
         /\ \A k \in AFiles : k < a.at =>
               analysis[k] = [items |-> a.read[1], ctx |-> rows, told |-> told]
         /\ a.at = NAnalysis + 2 => a.hash = mman

\* what generate_report holds is what the stores have
ReportHeld ==
    /\ r.pc # "idle" => r.man = mman /\ mman # None
    /\ r.pc = "load" =>
         /\ r.aman = None
         /\ \A k \in MFiles : k < r.at => r.read[k] = metrics[k]
    /\ r.pc \in {"analysis", "provenance"} => r.read = metrics
    /\ r.pc = "analysis" =>
         r.aman = aman /\ \A k \in AFiles : k < r.at => r.aread[k] = analysis[k]
    /\ r.pc = "provenance" /\ r.aman # None =>
         r.aman = aman /\ aman.hash = mman /\ r.aread = analysis

\* a page that was assembled and, once it is linked, of one dump
PageOfOneDump(p) ==
    p.gallery /\ p.saw # None =>
        /\ p.man = p.metrics /\ p.man.hash = p.run
        /\ \A k \in MFiles : p.read[k] = p.saw
        /\ p.aman # None => /\ p.aman.hash = p.metrics
                            /\ \A k \in AFiles : /\ p.aread[k].items = p.saw
                                                 /\ p.aread[k].ctx = p.saw
PageHeld ==
    /\ r.pc = "link" =>
         /\ r.page.run = manifest /\ r.page.metrics = mman /\ r.page.saw = Seen
         /\ r.page.man = mman /\ r.page.read = metrics
         /\ r.page.aman # None =>
              r.page.aman = aman /\ aman.hash = mman /\ r.page.aread = analysis
    /\ r.pc \in Writing \ {"link"} => PageOfOneDump(r.page)
    /\ r.pc \in Writing => r.page.stamp = stamps
    /\ r.pc \in Writing \ {"link", "model"} => model = r.page
    /\ r.pc \in {"open_manifest", "write_manifest"} => rankings = r.page

\* no two manifests carry the same stamp, and none a future one
Stamped ==
    /\ mman # None => mman.stamp <= stamps
    /\ aman # None => aman.hash.stamp <= stamps
    /\ model # None => model.stamp <= stamps
    /\ rankings \notin {None, Torn} => rankings.stamp <= stamps

\* the files of a report are written in this order
WrittenInOrder ==
    rman \notin {None, Torn} =>
        /\ model \in Pages /\ rman.stamp <= model.stamp
        /\ rankings # Torn => rankings \in Pages /\ rman.stamp <= rankings.stamp

\* export_labels holds what the report directory has
LabelsHeld ==
    /\ l.pc # "idle" => l.model = model /\ rankings # None
    /\ l.pc \notin {"idle", "rankings"} => l.rankings = rankings
    /\ l.pc \notin {"idle", "rankings", "hash"} => l.from = rman

Joined == /\ AcceptedMetricsAreCurrent /\ AcceptedAnalysisIsCurrent
          /\ AnalysisJoinsOneDump /\ ReportIsOfOneDump
          /\ LabelsAreNotOlderThanTheirReport
Held == /\ MetricsHeld /\ AnalysisHeld /\ ReportHeld /\ PageHeld /\ LabelsHeld
IInv == /\ Whole /\ OneAtATime /\ HashedOnce /\ Stamped /\ WrittenInOrder
        /\ Held /\ Joined

-----------------------------------------------------------------------------
(* Every step leaves what the commands write whole.                        *)

\* what the bounds are
LEMMA Bounds ==
    /\ MaxRows \in Nat /\ MaxSessions \in Nat /\ MaxStamps \in Nat
    /\ MaxFaults \in Nat /\ NMetrics >= 1 /\ NAnalysis >= 1
    /\ NMetrics \in Nat /\ NAnalysis \in Nat
BY StoreAssumption, BoundAssumption

\* the stores start whole
LEMMA InitWhole == ASSUME Init PROVE Whole
<1> USE Bounds, NothingAssumption DEF Init
<1>1. DumpPart
  BY DEF DumpPart, Versions, Maybe
<1>2. MetricsPart /\ AnalysisPart /\ ReportPart
  BY DEF MetricsPart, AnalysisPart, ReportPart, NoMetrics, NoAnalysis, Maybe, Written
<1>3. MetricsCommand
  BY DEF MetricsCommand, MetricsStates, MIdle, Versions, Maybe
<1>4. AnalysisCommand
  BY DEF AnalysisCommand, AnalysisStates, AIdle, NoMetrics, Versions, Maybe
<1>5. ReportCommand
  BY DEF ReportCommand, ReportStates, RIdle, NoMetrics, NoAnalysis, Maybe, Writing
<1>6. LabelsPart
  BY DEF LabelsPart, LabelsStates, LIdle, Maybe, Written
<1> QED BY <1>1, <1>2, <1>3, <1>4, <1>5, <1>6 DEF Whole

\* what a step that leaves a store alone does to the parts that are about it
LEMMA Apart ==
    ASSUME Whole, ADump => ADump', AMetricsStore => AMetricsStore'
    PROVE  /\ UNCHANGED mstore => MetricsPart'
           /\ UNCHANGED <<mstore, m>> => MetricsCommand'
           /\ UNCHANGED astore => AnalysisPart'
           /\ UNCHANGED <<astore, a>> => AnalysisCommand'
           /\ UNCHANGED page => ReportPart'
           /\ UNCHANGED r => ReportCommand'
           /\ UNCHANGED <<labels, lman, l>> => LabelsPart'
<1>1. UNCHANGED mstore => MetricsPart'
  BY DEF Whole, MetricsPart, mstore
<1>2. UNCHANGED <<mstore, m>> => MetricsCommand'
  BY DEF Whole, MetricsCommand, mstore
<1>3. UNCHANGED astore => AnalysisPart'
  BY DEF Whole, AnalysisPart, astore
<1>4. UNCHANGED <<astore, a>> => AnalysisCommand'
  BY DEF Whole, AnalysisCommand, astore
<1>5. UNCHANGED page => ReportPart'
  BY DEF Whole, ReportPart, page
<1>6. UNCHANGED r => ReportCommand'
  BY DEF Whole, ReportCommand
<1>7. UNCHANGED <<labels, lman, l>> => LabelsPart'
  BY DEF Whole, LabelsPart
<1> QED BY <1>1, <1>2, <1>3, <1>4, <1>5, <1>6, <1>7

\* who leaves the dump alone leaves its part whole
LEMMA DumpAtRest ==
    ASSUME Whole, UNCHANGED dump, stamps' \in Nat,
           faults' \in 0..MaxFaults, faults <= faults'
    PROVE  DumpPart' /\ (ADump => ADump')
BY Bounds DEF Whole, DumpPart, dump, ADump

\* faults only grow, up to their bound
LEMMA KeepsFaults ==
    ASSUME Whole, UNCHANGED faults \/ MayFault
    PROVE  faults' \in 0..MaxFaults /\ faults <= faults'
BY Bounds DEF Whole, DumpPart, MayFault

\* a step of a run or a rebuild keeps everything whole
LEMMA DumpWhole == ASSUME Whole, Dump PROVE Whole'
<1> USE Bounds, NothingAssumption
<1> DEFINE rest == <<mstore, m, astore, a, page, r, labels, lman, l, stamps>>
<1>1. UNCHANGED rest
  BY DEF Dump, OpenRun, PublishRows, PublishCounts, CloseRun, KillWriter,
         StartRebuild, IndexOrphan
<1>2. DumpPart' /\ (ADump => ADump')
  <2> USE DEF Whole, DumpPart, ADump
  <2>1. ChangeRows => /\ rows' \in Versions /\ tally' \in Tallies
                      /\ told' \in BOOLEAN
    <3>1. rows \in Versions
      OBVIOUS
    <3>2. ChangeRows => rows' \in Versions
      BY <3>1 DEF ChangeRows, Versions
    <3>3. ChangeRows => tally' \in Tallies /\ told' \in BOOLEAN
      BY DEF ChangeRows
    <3> QED BY <3>2, <3>3
  <2>2. ASSUME NEW new \in RunManifests, PublishManifest(new)
        PROVE  ADump' /\ told' \in BOOLEAN
    BY <2>2 DEF PublishManifest
  <2>3. CASE OpenRun
    <3>1. Session \in Nat /\ Session + 1 \in 1..MaxSessions
      BY <2>3 DEF OpenRun, Session, Maybe, RunManifests
    <3>2. [session |-> Session + 1, tally |-> tally, finished |-> FALSE]
             \in RunManifests
      BY <3>1 DEF RunManifests
    <3>3. ADump' /\ told' \in BOOLEAN
      BY <2>2, <2>3, <3>2 DEF OpenRun
    <3> QED BY <2>3, <3>3 DEF OpenRun, Maybe
  <2>4. CASE PublishRows
    BY <2>1, <2>4 DEF PublishRows, Maybe
  <2>5. CASE PublishCounts
    <3>1. [manifest EXCEPT !.tally = tally] \in RunManifests
      BY <2>5 DEF PublishCounts, RunManifests
    <3>2. ADump' /\ told' \in BOOLEAN
      BY <2>2, <2>5, <3>1 DEF PublishCounts
    <3> QED BY <2>5, <3>2 DEF PublishCounts, Maybe
  <2>6. CASE CloseRun
    <3>1. ADump' /\ told' \in BOOLEAN
      <4>1. ASSUME NEW s \in BOOLEAN
            PROVE  [manifest EXCEPT !.finished = s] \in RunManifests
        BY <2>6 DEF CloseRun, RunManifests
      <4> QED BY <2>2, <2>6, <4>1 DEF CloseRun
    <3> QED BY <2>6, <3>1 DEF CloseRun, Maybe
  <2>7. CASE KillWriter
    BY <2>7 DEF KillWriter, MayFault, Maybe
  <2>8. CASE StartRebuild
    BY <2>8 DEF StartRebuild, Maybe
  <2>9. CASE IndexOrphan
    BY <2>1, <2>9 DEF IndexOrphan, ChangeRows, Maybe
  <2> HIDE DEF DumpPart
  <2> QED BY <2>3, <2>4, <2>5, <2>6, <2>7, <2>8, <2>9 DEF Dump
<1>3. AMetricsStore => AMetricsStore'
  BY <1>1, <1>2 DEF AMetricsStore, mstore
<1> QED BY <1>1, <1>2, <1>3, Apart DEF Whole

\* so does a step of metrics
LEMMA MetricsWhole == ASSUME Whole, Metrics PROVE Whole'
<1> USE Bounds, NothingAssumption
<1>1. UNCHANGED <<dump, astore, a, page, r, labels, lman, l>>
  BY DEF Metrics, ReadDump, Summarise, SaveMetrics, KillMetrics
<1>2. stamps' \in Nat /\ (UNCHANGED faults \/ MayFault)
  BY DEF Whole, DumpPart, Metrics, ReadDump, Summarise, SaveMetrics, KillMetrics
<1>3. DumpPart' /\ (ADump => ADump')
  BY <1>1, <1>2, KeepsFaults, DumpAtRest
<1>4. /\ MetricsPart' /\ MetricsCommand'
      /\ AMetricsStore => AMetricsStore'
  <2> USE <1>3
  <2>1. MIdle \in MetricsStates /\ MIdle.pc = "idle"
    BY DEF MIdle, MetricsStates, Versions, Maybe
  <2>2. UNCHANGED mstore => MetricsPart' /\ (AMetricsStore => AMetricsStore')
    BY DEF Whole, MetricsPart, AMetricsStore, mstore
  <2>3. CASE ReadDump
    <3>1. m' = [MIdle EXCEPT !.pc = "summary", !.rows = rows] /\ UNCHANGED mstore
      BY <2>3 DEF ReadDump
    <3>2. rows \in Versions /\ ADump
      BY <2>3 DEF ReadDump, Whole, DumpPart, Maybe, ADump
    <3>3. m' \in MetricsStates /\ m'.pc = "summary"
      BY <2>1, <3>1, <3>2 DEF MetricsStates
    <3> QED BY <2>2, <3>1, <3>2, <3>3 DEF MetricsCommand
  <2>4. CASE Summarise
    <3>1. /\ m.pc = "summary" /\ UNCHANGED mstore
          /\ m' = [m EXCEPT !.pc = "save", !.excl = rows, !.at = 1]
      BY <2>4 DEF Summarise
    <3>2. m \in MetricsStates /\ rows \in Versions /\ ADump
      BY <3>1 DEF Whole, DumpPart, MetricsCommand
    <3>3. m' \in MetricsStates /\ m'.at = 1
      <4>1. m' = [pc |-> "save", rows |-> m.rows, excl |-> rows, at |-> 1,
                  hash |-> m.hash]
        BY <3>1, <3>2 DEF MetricsStates
      <4>2. 1 \in 0..NMetrics + 2
        OBVIOUS
      <4> QED BY <3>2, <4>1, <4>2 DEF MetricsStates
    <3>4. 1 # NMetrics + 2 /\ \A k \in MFiles : ~(k < 1)
      BY DEF MFiles
    <3> QED BY <2>2, <3>1, <3>2, <3>3, <3>4 DEF MetricsCommand
  <2>5. CASE SaveMetrics
    <3>1. /\ m.pc = "save" /\ ADump /\ m \in MetricsStates /\ m.at >= 1
          /\ \A k \in MFiles : k < m.at => metrics[k] \in Versions
          /\ m.at = NMetrics + 2 => m.hash \in RunManifests
      BY <2>5 DEF SaveMetrics, Whole, MetricsCommand
    <3>2. m.rows \in Versions /\ m.excl \in Versions /\ m.at \in Nat
      BY <3>1 DEF MetricsStates
    <3>3. metrics \in [MFiles -> Maybe(Versions)]
      BY DEF Whole, MetricsPart
    <3>4. CASE m.at <= NMetrics
      <4>1. /\ m' = [m EXCEPT !.at = @ + 1] /\ UNCHANGED mman
            /\ metrics' = [metrics EXCEPT ![m.at] = m.rows]
        BY <2>5, <3>2, <3>4 DEF SaveMetrics
      <4>2. /\ m' \in MetricsStates /\ m'.pc = "save"
            /\ m'.at = m.at + 1 /\ m'.at # NMetrics + 2
        BY <3>1, <3>2, <3>4, <4>1 DEF MetricsStates
      <4>3. m.at \in MFiles
        BY <3>1, <3>2, <3>4 DEF MFiles
      <4>4. metrics' \in [MFiles -> Maybe(Versions)]
        BY <3>2, <3>3, <4>1, <4>3 DEF Maybe
      <4>5. ASSUME NEW k \in MFiles, k < m.at + 1 \/ metrics[k] \in Versions
            PROVE  metrics'[k] \in Versions
        BY <3>1, <3>2, <3>3, <4>1, <4>3, <4>5 DEF MFiles
      <4>6. MetricsPart'
        BY <3>1, <4>1, <4>4, <4>5 DEF Whole, MetricsPart, AMetricsStore
      <4>7. MetricsCommand'
        BY <3>1, <3>2, <4>2, <4>5 DEF MetricsCommand
      <4> QED BY <4>1, <4>5, <4>6, <4>7 DEF AMetricsStore
    <3>5. CASE m.at = NMetrics + 1
      <4>1. /\ m' = [m EXCEPT !.at = @ + 1, !.hash = manifest] /\ UNCHANGED mstore
        BY <2>5, <3>5 DEF SaveMetrics, mstore
      <4>2. /\ m' \in MetricsStates /\ m'.at = NMetrics + 2
            /\ m'.hash \in RunManifests
        <5>1. m' = [pc |-> "save", rows |-> m.rows, excl |-> m.excl,
                    at |-> m.at + 1, hash |-> manifest]
          BY <3>1, <3>5, <4>1 DEF MetricsStates
        <5>2. /\ m.at + 1 = NMetrics + 2 /\ m.at + 1 \in 0..NMetrics + 2
              /\ manifest \in Maybe(RunManifests)
          BY <3>1, <3>5 DEF ADump, Maybe
        <5> QED BY <3>1, <3>2, <5>1, <5>2 DEF MetricsStates, ADump
      <4>3. \A k \in MFiles : metrics'[k] \in Versions
        BY <3>1, <3>5, <4>1 DEF MFiles, mstore
      <4> QED BY <2>2, <3>1, <4>1, <4>2, <4>3 DEF MetricsCommand
    <3>6. CASE m.at = NMetrics + 2
      <4>1. /\ m' = MIdle /\ UNCHANGED metrics
            /\ mman' = [hash |-> m.hash, excl |-> m.excl, stamp |-> stamps + 1]
        BY <2>5, <3>6 DEF SaveMetrics
      <4>2. mman' \in MetricsManifests
        BY <3>1, <3>2, <3>6, <4>1 DEF MetricsManifests, Whole, DumpPart
      <4>3. \A k \in MFiles : metrics[k] \in Versions
        BY <3>1, <3>6 DEF MFiles
      <4>4. MetricsPart'
        BY <3>1, <3>3, <4>1, <4>2, <4>3 DEF MetricsPart, AMetricsStore, Maybe
      <4> QED BY <2>1, <3>1, <4>1, <4>2, <4>3, <4>4 DEF MetricsCommand, AMetricsStore
    <3> QED BY <2>5, <3>4, <3>5, <3>6 DEF SaveMetrics
  <2>6. CASE KillMetrics
    BY <2>1, <2>2, <2>6 DEF KillMetrics, MetricsCommand
  <2> QED BY <2>3, <2>4, <2>5, <2>6 DEF Metrics
<1> QED BY <1>1, <1>3, <1>4, Apart DEF Whole

\* The local state of a command after a step, field by field.
LEMMA AnalysisState ==
    ASSUME NEW p \in {"idle", "load", "items", "save"},
           NEW x \in Maybe(MetricsManifests), NEW d \in [MFiles -> Maybe(Versions)],
           NEW c \in Versions, NEW n \in 0..NMetrics + NAnalysis + 2,
           NEW h \in Maybe(MetricsManifests), NEW t \in BOOLEAN
    PROVE  [pc |-> p, man |-> x, read |-> d, ctx |-> c, at |-> n, hash |-> h,
            told |-> t] \in AnalysisStates
BY DEF AnalysisStates

\* of analyze
LEMMA AnalysisWhole == ASSUME Whole, Analysis PROVE Whole'
<1> USE Bounds, NothingAssumption
<1>1. UNCHANGED <<dump, mstore, m, page, r, labels, lman, l>>
  BY DEF Analysis, OpenMetrics, LoadMetrics, VerifySourceDump, ReadItems,
         SaveAnalysis, KillAnalysis
<1>2. stamps' \in Nat /\ (UNCHANGED faults \/ MayFault)
  BY DEF Whole, DumpPart, Analysis, OpenMetrics, LoadMetrics, VerifySourceDump,
         ReadItems, SaveAnalysis, KillAnalysis
<1>3. DumpPart' /\ (ADump => ADump')
  BY <1>1, <1>2, KeepsFaults, DumpAtRest
<1>4. AMetricsStore => AMetricsStore'
  BY <1>1, <1>3 DEF AMetricsStore, mstore
<1>5. AnalysisPart' /\ AnalysisCommand'
  <2> USE <1>4
  <2>1. AIdle \in AnalysisStates /\ AIdle.pc = "idle"
    BY DEF AIdle, AnalysisStates, NoMetrics, Versions, Maybe
  <2>2. a' = AIdle => AnalysisCommand'
    BY <2>1 DEF AnalysisCommand
  <2>3. UNCHANGED astore => AnalysisPart'
    BY DEF Whole, AnalysisPart, astore
  <2>4. /\ a \in AnalysisStates /\ AnalysisCommand
        /\ rows \in Versions /\ told \in BOOLEAN
    BY DEF Whole, DumpPart, AnalysisCommand
  <2>5. /\ a.man \in Maybe(MetricsManifests) /\ a.read \in [MFiles -> Maybe(Versions)]
        /\ a.ctx \in Versions /\ a.at \in Nat
        /\ a.hash \in Maybe(MetricsManifests) /\ a.told \in BOOLEAN
        /\ a = [pc |-> a.pc, man |-> a.man, read |-> a.read, ctx |-> a.ctx,
                at |-> a.at, hash |-> a.hash, told |-> a.told]
    BY <2>4 DEF AnalysisStates
  <2>6. CASE OpenMetrics
    <3>1. /\ a' = [pc |-> "load", man |-> mman, read |-> NoMetrics, ctx |-> 0,
                   at |-> 1, hash |-> None, told |-> FALSE]
          /\ UNCHANGED astore /\ mman # None
      BY <2>6 DEF OpenMetrics, AIdle
    <3>2. AMetricsStore /\ mman \in Maybe(MetricsManifests)
      BY <3>1 DEF Whole, MetricsPart, AMetricsStore, Maybe
    <3>3. /\ 1 \in 0..NMetrics + NAnalysis + 2 /\ 0 \in Versions
          /\ NoMetrics \in [MFiles -> Maybe(Versions)]
          /\ None \in Maybe(MetricsManifests)
          /\ 1 \in 1..NMetrics + 1 /\ \A k \in MFiles : ~(k < 1)
      BY DEF Versions, NoMetrics, Maybe, MFiles
    <3>4. a' \in AnalysisStates
      BY <3>1, <3>2, <3>3, AnalysisState
    <3> QED BY <2>3, <3>1, <3>2, <3>3, <3>4 DEF AnalysisCommand, AMetricsStore
  <2>7. CASE LoadMetrics
    <3>1. /\ a.pc = "load" /\ a.at <= NMetrics /\ UNCHANGED astore
          /\ a' = [a EXCEPT !.read[a.at] = metrics[a.at], !.at = @ + 1]
      BY <2>7 DEF LoadMetrics
    <3>2. /\ a.man \in MetricsManifests /\ AMetricsStore /\ a.at \in 1..NMetrics + 1
          /\ \A k \in MFiles : k < a.at => a.read[k] \in Versions
      BY <2>4, <3>1 DEF AnalysisCommand
    <3>3. a.at \in MFiles /\ a.at + 1 \in 1..NMetrics + 1
          /\ a.at + 1 \in 0..NMetrics + NAnalysis + 2
      BY <3>1, <3>2 DEF MFiles
    <3>4. \A k \in MFiles : metrics[k] \in Versions
      BY <3>2 DEF AMetricsStore
    <3> DEFINE loaded == [a.read EXCEPT ![a.at] = metrics[a.at]]
    <3>5. loaded \in [MFiles -> Maybe(Versions)]
      BY <2>5, <3>3, <3>4 DEF Maybe
    <3>6. \A k \in MFiles : k < a.at + 1 => loaded[k] \in Versions
      BY <2>5, <3>2, <3>3, <3>4 DEF MFiles
    <3> HIDE DEF loaded
    <3>7. a' = [pc |-> a.pc, man |-> a.man, read |-> loaded, ctx |-> a.ctx,
                at |-> a.at + 1, hash |-> a.hash, told |-> a.told]
      BY <2>5, <3>1 DEF loaded
    <3>8. a' \in AnalysisStates
      BY <2>5, <3>1, <3>3, <3>5, <3>7 DEF AnalysisStates
    <3>9. AnalysisPart'
      BY <2>3, <3>1
    <3>10. /\ a'.pc = "load" /\ a'.man = a.man /\ a'.read = loaded
           /\ a'.at = a.at + 1
      BY <3>1, <3>7 DEF loaded
    <3> QED BY <3>2, <3>3, <3>6, <3>8, <3>9, <3>10 DEF AnalysisCommand
  <2>8. CASE VerifySourceDump
    <3>1. CASE a' = [a EXCEPT !.pc = "items"]
      <4>1. a.pc = "load" /\ a.at > NMetrics /\ UNCHANGED astore
        BY <2>8 DEF VerifySourceDump
      <4>2. \A k \in MFiles : a.read[k] \in Versions
        BY <2>4, <2>5, <4>1 DEF AnalysisCommand, MFiles
      <4>3. a' \in AnalysisStates /\ a'.pc = "items" /\ a'.read = a.read
            /\ a'.man = a.man
        BY <2>4, <3>1 DEF AnalysisStates
      <4> QED BY <2>3, <2>4, <4>1, <4>2, <4>3 DEF AnalysisCommand
    <3> QED BY <2>2, <2>3, <2>8, <3>1 DEF VerifySourceDump
  <2>9. CASE ReadItems
    <3>1. /\ a.pc = "items" /\ UNCHANGED astore
          /\ a' = [pc |-> "save", man |-> a.man, read |-> a.read, ctx |-> rows,
                   at |-> 1, hash |-> a.hash, told |-> told]
      BY <2>5, <2>9 DEF ReadItems
    <3>2. /\ 1 \in 0..NMetrics + NAnalysis + 2 /\ 1 \in 1..NAnalysis + 2
          /\ 1 # NAnalysis + 2 /\ \A k \in AFiles : ~(k < 1)
      BY DEF AFiles
    <3>3. a' \in AnalysisStates
      BY <2>4, <2>5, <3>1, <3>2, AnalysisState
    <3> QED BY <2>3, <2>4, <3>1, <3>2, <3>3 DEF AnalysisCommand
  <2>10. CASE SaveAnalysis
    <3>1. /\ a.pc = "save" /\ AMetricsStore /\ a.man \in MetricsManifests
          /\ a.at \in 1..NAnalysis + 2 /\ \A k \in MFiles : a.read[k] \in Versions
          /\ \A k \in AFiles : k < a.at => analysis[k] \in AnalysisRows
          /\ a.at = NAnalysis + 2 => a.hash \in MetricsManifests
      BY <2>4, <2>10 DEF SaveAnalysis, AnalysisCommand
    <3>2. /\ analysis \in [AFiles -> Maybe(AnalysisRows)]
          /\ aman \in Maybe(AnalysisManifests)
          /\ aman # None => \A k \in AFiles : analysis[k] \in AnalysisRows
      BY DEF Whole, AnalysisPart
    <3>3. CASE a.at <= NAnalysis
      <4> DEFINE row == [items |-> a.read[1], ctx |-> a.ctx, told |-> a.told]
      <4>1. /\ a' = [a EXCEPT !.at = @ + 1] /\ UNCHANGED aman
            /\ analysis' = [analysis EXCEPT ![a.at] = row]
        BY <2>10, <3>1, <3>3 DEF SaveAnalysis
      <4>2. a.at \in AFiles /\ 1 \in MFiles
        BY <3>1, <3>3 DEF AFiles, MFiles
      <4>3. row \in AnalysisRows
        BY <2>5, <3>1, <4>2 DEF AnalysisRows
      <4> HIDE DEF row
      <4>4. analysis' \in [AFiles -> Maybe(AnalysisRows)]
        BY <3>2, <4>1, <4>2, <4>3 DEF Maybe
      <4>5. ASSUME NEW k \in AFiles, k < a.at + 1 \/ analysis[k] \in AnalysisRows
            PROVE  analysis'[k] \in AnalysisRows
        BY <3>1, <3>2, <4>1, <4>2, <4>3, <4>5 DEF AFiles
      <4>6. /\ a.at + 1 \in 1..NAnalysis + 2 /\ a.at + 1 # NAnalysis + 2
            /\ a.at + 1 \in 0..NMetrics + NAnalysis + 2
        BY <3>1, <3>3
      <4>7. a' = [pc |-> a.pc, man |-> a.man, read |-> a.read, ctx |-> a.ctx,
                  at |-> a.at + 1, hash |-> a.hash, told |-> a.told]
        BY <2>5, <4>1
      <4>8. a' \in AnalysisStates
        BY <2>5, <3>1, <4>6, <4>7, AnalysisState
      <4>9. AnalysisPart'
        BY <3>2, <4>1, <4>4, <4>5 DEF AnalysisPart
      <4> QED BY <3>1, <4>5, <4>6, <4>7, <4>8, <4>9 DEF AnalysisCommand
    <3>4. CASE a.at = NAnalysis + 1
      <4>1. a' = [a EXCEPT !.at = @ + 1, !.hash = mman] /\ UNCHANGED astore
        BY <2>10, <3>4 DEF SaveAnalysis, astore
      <4>2. a' = [pc |-> a.pc, man |-> a.man, read |-> a.read, ctx |-> a.ctx,
                  at |-> a.at + 1, hash |-> mman, told |-> a.told]
        BY <2>5, <4>1
      <4>3. /\ a.at + 1 \in 1..NAnalysis + 2
            /\ a.at + 1 \in 0..NMetrics + NAnalysis + 2
            /\ \A k \in AFiles : k < a.at
        BY <3>4 DEF AFiles
      <4>4. a' \in AnalysisStates
        BY <2>5, <3>1, <4>2, <4>3, AnalysisState DEF AMetricsStore, Maybe
      <4> QED BY <2>3, <3>1, <4>1, <4>2, <4>3, <4>4
              DEF AnalysisCommand, AMetricsStore, astore
    <3>5. CASE a.at = NAnalysis + 2
      <4>1. /\ a' = AIdle /\ UNCHANGED analysis
            /\ aman' = [hash |-> a.hash, stamp |-> stamps + 1]
        BY <2>10, <3>5 DEF SaveAnalysis
      <4>2. aman' \in AnalysisManifests
        BY <3>1, <3>5, <4>1 DEF AnalysisManifests, Whole, DumpPart
      <4>3. \A k \in AFiles : analysis[k] \in AnalysisRows
        BY <3>1, <3>5 DEF AFiles
      <4> QED BY <2>2, <3>2, <4>1, <4>2, <4>3 DEF AnalysisPart, Maybe
    <3> QED BY <2>10, <3>3, <3>4, <3>5 DEF SaveAnalysis
  <2>11. CASE KillAnalysis
    BY <2>2, <2>3, <2>11 DEF KillAnalysis
  <2> QED BY <2>6, <2>7, <2>8, <2>9, <2>10, <2>11 DEF Analysis
<1> QED BY <1>1, <1>3, <1>4, <1>5, Apart DEF Whole

\* a report is in one of its states
LEMMA ReportState ==
    ASSUME NEW p \in {"idle", "load", "analysis", "provenance"} \cup Writing,
           NEW x \in Maybe(MetricsManifests), NEW d \in [MFiles -> Maybe(Versions)],
           NEW y \in Maybe(AnalysisManifests),
           NEW e \in [AFiles -> Maybe(AnalysisRows)],
           NEW n \in 0..NMetrics + NAnalysis + 1, NEW g \in Maybe(Pages)
    PROVE  [pc |-> p, man |-> x, read |-> d, aman |-> y, aread |-> e, at |-> n,
            page |-> g] \in ReportStates
BY DEF ReportStates

\* of report
LEMMA ReportWhole == ASSUME Whole, Report PROVE Whole'
<1> USE Bounds, NothingAssumption
<1>1. UNCHANGED <<dump, mstore, m, astore, a, labels, lman, l>>
  BY DEF Report, OpenReport, LoadForReport, OpenAnalysis, LoadAnalysis,
         VerifySourceMetrics, Assemble, LinkAssets, ExportModel, ExportRankings,
         RenderReport, KillReport
<1>2. stamps' \in Nat /\ (UNCHANGED faults \/ MayFault)
  <2>1. stamps' \in Nat
    <3>1. CASE Assemble
      BY <3>1 DEF Assemble, Whole, DumpPart
    <3>2. CASE ~Assemble
      BY <3>2 DEF Whole, DumpPart, Report, OpenReport, LoadForReport,
         OpenAnalysis, LoadAnalysis, VerifySourceMetrics, LinkAssets, ExportModel,
         ExportRankings, RenderReport, KillReport
    <3> QED BY <3>1, <3>2
  <2>2. UNCHANGED faults \/ MayFault
    BY DEF Report, OpenReport, LoadForReport, OpenAnalysis, LoadAnalysis,
       VerifySourceMetrics, Assemble, LinkAssets, ExportModel, ExportRankings,
       RenderReport, KillReport
  <2> QED BY <2>1, <2>2
<1>3. DumpPart' /\ (ADump => ADump')
  BY <1>1, <1>2, KeepsFaults, DumpAtRest
<1>4. AMetricsStore => AMetricsStore'
  BY <1>1, <1>3 DEF AMetricsStore, mstore
<1>5. ReportPart' /\ ReportCommand'
  <2> USE <1>3, <1>4
  <2>1. RIdle \in ReportStates /\ RIdle.pc = "idle"
    BY DEF RIdle, ReportStates, NoMetrics, NoAnalysis, Maybe, Writing
  <2>2. r' = RIdle => ReportCommand'
    BY <2>1 DEF ReportCommand, Writing
  <2>3. UNCHANGED page => ReportPart'
    BY DEF Whole, ReportPart, page
  <2>4. r \in ReportStates /\ ReportCommand /\ ReportPart
    BY DEF Whole, ReportCommand
  <2>5. /\ r.man \in Maybe(MetricsManifests) /\ r.read \in [MFiles -> Maybe(Versions)]
        /\ r.aman \in Maybe(AnalysisManifests)
        /\ r.aread \in [AFiles -> Maybe(AnalysisRows)]
        /\ r.at \in Nat /\ r.page \in Maybe(Pages)
        /\ r.at \in 0..NMetrics + NAnalysis + 1
        /\ r = [pc |-> r.pc, man |-> r.man, read |-> r.read, aman |-> r.aman,
                aread |-> r.aread, at |-> r.at, page |-> r.page]
    BY <2>4 DEF ReportStates
  <2>6. r.pc # "idle" => ADump /\ AMetricsStore /\ r.man \in MetricsManifests
    BY <2>4 DEF ReportCommand
  <2>7. /\ analysis \in [AFiles -> Maybe(AnalysisRows)]
        /\ aman # None => aman \in AnalysisManifests
        /\ \A k \in MFiles : ~(k < 1)
        /\ 1 \in 1..NMetrics + 1 /\ 1 \in 1..NAnalysis + 1
        /\ 1 \in 0..NMetrics + NAnalysis + 1
    BY DEF Whole, AnalysisPart, Maybe, MFiles
  <2>8. CASE OpenReport
    <3>1. /\ r' = [pc |-> "load", man |-> mman, read |-> NoMetrics, aman |-> None,
                   aread |-> NoAnalysis, at |-> 1, page |-> None]
          /\ mman # None /\ UNCHANGED page
      BY <2>8 DEF OpenReport, RIdle
    <3>2. AMetricsStore /\ ADump
      BY <3>1 DEF Whole, MetricsPart, AMetricsStore
    <3>3. /\ NoMetrics \in [MFiles -> Maybe(Versions)]
          /\ NoAnalysis \in [AFiles -> Maybe(AnalysisRows)]
          /\ None \in Maybe(AnalysisManifests) /\ None \in Maybe(Pages)
          /\ mman \in Maybe(MetricsManifests)
      BY <3>2 DEF NoMetrics, NoAnalysis, Maybe, AMetricsStore
    <3>4. r' \in ReportStates
      BY <2>7, <3>1, <3>3, ReportState
    <3> QED BY <2>3, <2>7, <3>1, <3>2, <3>4 DEF ReportCommand, AMetricsStore, Writing, page
  <2>9. CASE LoadForReport
    <3>1. /\ r.pc = "load" /\ r.at <= NMetrics /\ UNCHANGED page
          /\ r' = [r EXCEPT !.read[r.at] = metrics[r.at], !.at = @ + 1]
      BY <2>9 DEF LoadForReport
    <3>2. /\ AMetricsStore /\ ADump /\ r.at \in 1..NMetrics + 1
          /\ \A k \in MFiles : k < r.at => r.read[k] \in Versions
      BY <2>4, <3>1 DEF ReportCommand
    <3>3. r.at \in MFiles /\ r.at + 1 \in 1..NMetrics + 1
          /\ r.at + 1 \in 0..NMetrics + NAnalysis + 1
      BY <3>1, <3>2 DEF MFiles
    <3>4. \A k \in MFiles : metrics[k] \in Versions
      BY <3>2 DEF AMetricsStore
    <3> DEFINE loaded == [r.read EXCEPT ![r.at] = metrics[r.at]]
    <3>5. loaded \in [MFiles -> Maybe(Versions)]
      BY <2>5, <3>3, <3>4 DEF Maybe
    <3>6. \A k \in MFiles : k < r.at + 1 => loaded[k] \in Versions
      BY <2>5, <3>2, <3>3, <3>4 DEF MFiles
    <3> HIDE DEF loaded
    <3>7. r' = [pc |-> r.pc, man |-> r.man, read |-> loaded, aman |-> r.aman,
                aread |-> r.aread, at |-> r.at + 1, page |-> r.page]
      BY <2>5, <3>1 DEF loaded
    <3>8. r' \in ReportStates
      BY <2>5, <3>1, <3>3, <3>5, <3>7 DEF ReportStates
    <3>9. /\ r'.pc = "load" /\ r'.man = r.man /\ r'.read = loaded
          /\ r'.at = r.at + 1
      BY <3>1, <3>7 DEF loaded
    <3> QED BY <2>3, <2>6, <3>1, <3>2, <3>3, <3>6, <3>8, <3>9 DEF ReportCommand, Writing
  <2>10. CASE OpenAnalysis
    <3>1. r.pc = "load" /\ r.at > NMetrics /\ UNCHANGED page
      BY <2>10 DEF OpenAnalysis
    <3>2. \A k \in MFiles : r.read[k] \in Versions
      BY <2>4, <2>5, <3>1 DEF ReportCommand, MFiles
    <3>3. CASE aman # None
      <4>1. r' = [pc |-> "analysis", man |-> r.man, read |-> r.read, aman |-> aman,
                  aread |-> r.aread, at |-> 1, page |-> r.page]
        BY <2>5, <2>10, <3>3 DEF OpenAnalysis
      <4>2. r' \in ReportStates
        BY <2>5, <2>7, <3>3, <4>1 DEF ReportStates, Maybe
      <4> QED BY <2>3, <2>6, <2>7, <3>1, <3>2, <3>3, <4>1, <4>2 DEF ReportCommand, Writing
    <3>4. CASE r' = [r EXCEPT !.pc = "provenance"]
      <4>1. /\ r' \in ReportStates /\ r'.pc = "provenance" /\ r'.read = r.read
            /\ r'.man = r.man
        BY <2>4, <3>4 DEF ReportStates
      <4> QED BY <2>3, <2>6, <3>1, <3>2, <4>1 DEF ReportCommand, Writing
    <3> QED BY <2>2, <2>3, <2>10, <3>1, <3>3, <3>4 DEF OpenAnalysis
  <2>11. CASE LoadAnalysis
    <3>1. /\ r.pc = "analysis" /\ r.at <= NAnalysis /\ UNCHANGED page
          /\ r' = [r EXCEPT !.aread[r.at] = analysis[r.at], !.at = @ + 1]
      BY <2>11 DEF LoadAnalysis
    <3>2. /\ AMetricsStore /\ ADump /\ r.at \in 1..NAnalysis + 1
          /\ \A k \in MFiles : r.read[k] \in Versions
          /\ r.aman \in AnalysisManifests
      BY <2>4, <3>1 DEF ReportCommand
    <3>3. r.at \in AFiles /\ r.at + 1 \in 1..NAnalysis + 1
          /\ r.at + 1 \in 0..NMetrics + NAnalysis + 1
      BY <3>1, <3>2 DEF AFiles
    <3> DEFINE loaded == [r.aread EXCEPT ![r.at] = analysis[r.at]]
    <3>4. loaded \in [AFiles -> Maybe(AnalysisRows)]
      BY <2>5, <2>7, <3>3
    <3> HIDE DEF loaded
    <3>5. r' = [pc |-> r.pc, man |-> r.man, read |-> r.read, aman |-> r.aman,
                aread |-> loaded, at |-> r.at + 1, page |-> r.page]
      BY <2>5, <3>1 DEF loaded
    <3>6. r' \in ReportStates
      BY <2>5, <3>1, <3>3, <3>4, <3>5 DEF ReportStates
    <3>7. /\ r'.pc = "analysis" /\ r'.man = r.man /\ r'.read = r.read
          /\ r'.aman = r.aman /\ r'.at = r.at + 1
      BY <3>1, <3>5 DEF loaded
    <3> QED BY <2>3, <2>6, <3>1, <3>2, <3>3, <3>6, <3>7 DEF ReportCommand, Writing
  <2>12. CASE VerifySourceMetrics
    <3>1. CASE r' = [r EXCEPT !.pc = "provenance"]
      <4>1. r.pc = "analysis" /\ UNCHANGED page
        BY <2>12 DEF VerifySourceMetrics
      <4>2. /\ r' \in ReportStates /\ r'.pc = "provenance" /\ r'.read = r.read
            /\ r'.man = r.man
        BY <2>4, <3>1 DEF ReportStates
      <4>3. \A k \in MFiles : r.read[k] \in Versions
        BY <2>4, <4>1 DEF ReportCommand
      <4> QED BY <2>3, <2>6, <4>1, <4>2, <4>3 DEF ReportCommand, Writing
    <3> QED BY <2>2, <2>3, <2>12, <3>1 DEF VerifySourceMetrics
  <2>13. CASE Assemble
    <3>1. PICK g \in BOOLEAN :
             r' = [r EXCEPT !.pc = "link", !.page =
                     [man |-> r.man, read |-> r.read, aman |-> r.aman,
                      aread |-> r.aread, run |-> manifest, metrics |-> mman,
                      gallery |-> g, saw |-> Seen, stamp |-> stamps + 1]]
      BY <2>13 DEF Assemble
    <3> DEFINE new == [man |-> r.man, read |-> r.read, aman |-> r.aman,
                       aread |-> r.aread, run |-> manifest, metrics |-> mman,
                       gallery |-> g, saw |-> Seen, stamp |-> stamps + 1]
    <3>2. r.pc = "provenance" /\ UNCHANGED page
      BY <2>13 DEF Assemble
    <3>3. \A k \in MFiles : r.read[k] \in Versions
      BY <2>4, <3>2 DEF ReportCommand
    <3>4. r.read \in [MFiles -> Versions]
      BY <2>5, <3>3
    <3>5. Seen \in Maybe(Versions) /\ stamps + 1 \in Nat
      BY DEF Seen, Maybe, Whole, DumpPart
    <3>6. new \in Pages
      BY <2>5, <2>6, <3>2, <3>4, <3>5 DEF Pages, ADump, AMetricsStore
    <3> HIDE DEF new
    <3>7. r' \in ReportStates /\ r'.pc = "link" /\ r'.man = r.man /\ r'.page = new
      <4>1. r' = [pc |-> "link", man |-> r.man, read |-> r.read, aman |-> r.aman,
                  aread |-> r.aread, at |-> r.at, page |-> new]
        BY <2>5, <3>1 DEF new
      <4>2. r' \in ReportStates
        BY <2>5, <3>6, <4>1 DEF ReportStates, Writing, Maybe
      <4> QED BY <4>1, <4>2 DEF new
    <3> QED BY <2>3, <2>6, <3>2, <3>6, <3>7 DEF ReportCommand, Writing
  <2>14. ASSUME NEW to \in Writing, r.pc \in Writing, r' = [r EXCEPT !.pc = to]
         PROVE  ReportCommand'
    <3>1. /\ r' \in ReportStates /\ r'.pc = to /\ r'.page = r.page
          /\ r'.man = r.man
      BY <2>4, <2>14 DEF ReportStates
    <3>2. r.page \in Pages
      BY <2>4, <2>14 DEF ReportCommand
    <3> QED BY <2>6, <2>14, <3>1, <3>2 DEF ReportCommand, Writing
  <2>15. r.pc \in Writing => r.page \in Pages
    BY <2>4 DEF ReportCommand
  <2>16. CASE LinkAssets
    BY <2>2, <2>3, <2>14, <2>16 DEF LinkAssets, Writing
  <2>17. CASE ExportModel
    BY <2>4, <2>14, <2>15, <2>17 DEF ExportModel, Writing, ReportPart, Maybe
  <2>18. CASE ExportRankings
    BY <2>4, <2>14, <2>15, <2>18 DEF ExportRankings, Writing, ReportPart, Maybe, Written
  <2>19. CASE RenderReport
    BY <2>2, <2>4, <2>14, <2>15, <2>19 DEF RenderReport, Writing, ReportPart, Maybe, Written
  <2>20. CASE KillReport
    BY <2>2, <2>3, <2>20 DEF KillReport
  <2> QED BY <2>8, <2>9, <2>10, <2>11, <2>12, <2>13, <2>16, <2>17, <2>18, <2>19, <2>20
          DEF Report
<1> QED BY <1>1, <1>3, <1>4, <1>5, Apart DEF Whole

\* of export-labels
LEMMA LabelsWhole == ASSUME Whole, Labels PROVE Whole'
<1> USE Bounds, NothingAssumption
<1>1. UNCHANGED <<dump, mstore, m, astore, a, page, r>>
  BY DEF Labels, OpenModel, ReadRankings, HashReport, ExportLabels, KillLabels
<1>2. stamps' \in Nat /\ (UNCHANGED faults \/ MayFault)
  BY DEF Whole, DumpPart, Labels, OpenModel, ReadRankings, HashReport, ExportLabels,
         KillLabels
<1>3. DumpPart' /\ (ADump => ADump')
  BY <1>1, <1>2, KeepsFaults, DumpAtRest
<1>4. AMetricsStore => AMetricsStore'
  BY <1>1, <1>3 DEF AMetricsStore, mstore
<1>5. LabelsPart'
  <2>1. LabelsPart /\ ReportPart /\ stamps \in Nat
    BY DEF Whole, DumpPart
  <2>2. LIdle \in LabelsStates /\ LIdle.pc = "idle"
    BY DEF LIdle, LabelsStates, Maybe, Written
  <2>3. CASE OpenModel
    <3>1. l' = [pc |-> "rankings", model |-> model, rankings |-> None, from |-> None]
      BY <2>3 DEF OpenModel, LIdle
    <3>2. model \in Pages
      BY <2>1, <2>3 DEF OpenModel, ReportPart, Maybe
    <3>3. l' \in LabelsStates
      BY <3>1, <3>2 DEF LabelsStates, Maybe, Written
    <3> QED BY <2>1, <2>3, <3>1, <3>2, <3>3 DEF OpenModel, LabelsPart
  <2>4. CASE ReadRankings
    <3>1. /\ l' \in LabelsStates /\ l'.pc = "hash" /\ l'.model = l.model
          /\ l.pc = "rankings"
      BY <2>1, <2>4 DEF ReadRankings, LabelsPart, LabelsStates, ReportPart
    <3> QED BY <2>1, <2>4, <3>1 DEF ReadRankings, LabelsPart
  <2>5. CASE HashReport
    <3>1. /\ l' \in LabelsStates /\ l'.pc = "save" /\ l'.model = l.model
          /\ l.pc = "hash"
      BY <2>1, <2>5 DEF HashReport, LabelsPart, LabelsStates, ReportPart
    <3> QED BY <2>1, <2>5, <3>1 DEF HashReport, LabelsPart
  <2>6. CASE ExportLabels
    <3>1. /\ l.pc # "idle" => l.model \in Pages
          /\ l.rankings \in Written(Pages) /\ l.from \in Written(Pages)
      BY <2>1 DEF LabelsPart, LabelsStates
    <3>2. CASE l.pc = "save"
      <4>1. /\ l' \in LabelsStates /\ l'.pc = "write" /\ l'.model = l.model
        BY <2>1, <2>6, <3>2 DEF ExportLabels, LabelsPart, LabelsStates
      <4> QED BY <2>1, <2>6, <3>1, <3>2, <4>1 DEF ExportLabels, LabelsPart, Written
    <3>3. CASE l.pc = "write"
      <4>1. /\ l' \in LabelsStates /\ l'.pc = "manifest" /\ l'.model = l.model
        BY <2>1, <2>6, <3>3 DEF ExportLabels, LabelsPart, LabelsStates
      <4>2. [model |-> l.model, rankings |-> l.rankings] \in Labelled
        BY <3>1, <3>3 DEF Labelled
      <4> QED BY <2>1, <2>6, <3>1, <3>3, <4>1, <4>2
              DEF ExportLabels, LabelsPart, Written, Maybe
    <3>4. CASE l.pc = "manifest"
      BY <2>1, <2>2, <2>6, <3>1, <3>4 DEF ExportLabels, LabelsPart, Maybe
    <3> QED BY <2>6, <3>2, <3>3, <3>4 DEF ExportLabels
  <2>7. CASE KillLabels
    BY <2>1, <2>2, <2>7 DEF KillLabels, LabelsPart
  <2> QED BY <2>3, <2>4, <2>5, <2>6, <2>7 DEF Labels
<1> QED BY <1>1, <1>3, <1>4, <1>5, Apart DEF Whole

\* and so does every step
LEMMA NextWhole == ASSUME Whole, [Next]_vars PROVE Whole'
<1>1. CASE UNCHANGED vars
  <2>1. /\ UNCHANGED <<dump, mstore, m, astore, a, page, r, labels, lman, l>>
        /\ UNCHANGED <<stamps, faults>>
    BY <1>1 DEF vars, dump, mstore, astore, page
  <2>2. DumpPart' /\ (ADump => ADump')
    BY <2>1 DEF Whole, DumpPart, dump, ADump
  <2>3. AMetricsStore => AMetricsStore'
    BY <2>1, <2>2 DEF AMetricsStore, mstore
  <2> QED BY <2>1, <2>2, <2>3, Apart DEF Whole
<1> QED BY <1>1, DumpWhole, MetricsWhole, AnalysisWhole, ReportWhole, LabelsWhole
        DEF Next

\* what is whole is typed and can be loaded
LEMMA WholeIsTyped == Whole => TypeOK /\ StoresAreLoadable
<1> SUFFICES ASSUME Whole PROVE TypeOK /\ StoresAreLoadable
  OBVIOUS
<1>1. TypeOK
  <2>1. /\ rows \in Versions /\ tally \in Tallies
        /\ orphans \in 0..MaxFaults /\ told \in BOOLEAN
        /\ manifest \in Maybe(RunManifests)
        /\ writer \in {"idle", "recording", "counting", "indexing"}
        /\ stamps \in Nat /\ faults \in 0..MaxFaults
    BY Bounds DEF Whole, DumpPart
  <2>2. /\ metrics \in [MFiles -> Maybe(Versions)]
        /\ mman \in Maybe(MetricsManifests) /\ m \in MetricsStates
        /\ analysis \in [AFiles -> Maybe(AnalysisRows)]
        /\ aman \in Maybe(AnalysisManifests) /\ a \in AnalysisStates
    BY DEF Whole, MetricsPart, MetricsCommand, AnalysisPart, AnalysisCommand
  <2>3. /\ ReportPart /\ LabelsPart /\ r \in ReportStates
        /\ {"idle", "load", "analysis", "provenance"} \cup Writing
            = {"idle", "load", "analysis", "provenance", "link", "model",
               "open_rankings", "write_rankings", "open_manifest",
               "write_manifest"}
    BY DEF Whole, ReportCommand, Writing
  <2> QED BY <2>1, <2>2, <2>3
          DEF TypeOK, MetricsStates, AnalysisStates, ReportStates, ReportPart,
              LabelsPart, Labelled, LabelsStates
<1>2. StoresAreLoadable
  BY NothingAssumption, MissingAssumption
     DEF Whole, MetricsPart, AMetricsStore, AnalysisPart, StoresAreLoadable, Versions
<1> QED BY <1>1, <1>2

-----------------------------------------------------------------------------
(* The theorems that hold under any overlap.                               *)

\* However the commands overlap and wherever they are killed, every store,
\* manifest, page and command is what its reader takes it for.
THEOREM TypeCorrect == Spec => []TypeOK
<1>1. Spec => []Whole
  <2> HIDE DEF Whole
  <2> QED BY InitWhole, NextWhole, PTL DEF Spec
<1>2. Whole => TypeOK
  BY WholeIsTyped
<1> QED BY <1>1, <1>2, PTL

\* A loader never stops at a fragment that is missing: save_metrics and
\* save_analysis replace their manifest last.
THEOREM LoadableStores == Spec => []StoresAreLoadable
<1>1. Spec => []Whole
  <2> HIDE DEF Whole
  <2> QED BY InitWhole, NextWhole, PTL DEF Spec
<1>2. Whole => StoresAreLoadable
  BY WholeIsTyped
<1> QED BY <1>1, <1>2, PTL

-----------------------------------------------------------------------------
(* Every step leaves what the commands hold current, one after the other.  *)

\* the commands start with nothing in memory
LEMMA InitHeld == ASSUME Init PROVE IInv
<1>1. Whole
  BY InitWhole
<1>2. OneAtATime /\ HashedOnce /\ Stamped /\ WrittenInOrder
  BY DEF Init, OneAtATime, HashedOnce, Stamped, WrittenInOrder, MIdle, AIdle,
         RIdle, LIdle
<1>3. Held
  BY DEF Init, Held, MetricsHeld, AnalysisHeld, ReportHeld, PageHeld, LabelsHeld,
         Writing, MIdle, AIdle, RIdle, LIdle
<1>4. Joined
  BY DEF Init, Joined, AcceptedMetricsAreCurrent, AcceptedAnalysisIsCurrent, Accepted,
         AnalysisJoinsOneDump, NoAnalysis, ReportIsOfOneDump,
         LabelsAreNotOlderThanTheirReport
<1> QED BY <1>1, <1>2, <1>3, <1>4 DEF IInv

\* The five commands take their steps while the others are idle.
LEMMA Alone ==
    ASSUME OneAtATime, ~Overlap
    PROVE  /\ Dump => m.pc = "idle" /\ a.pc = "idle" /\ r.pc = "idle" /\ l.pc = "idle"
           /\ Metrics => /\ writer = "idle" /\ a.pc = "idle" /\ r.pc = "idle"
                         /\ l.pc = "idle"
           /\ Analysis => /\ writer = "idle" /\ m.pc = "idle" /\ r.pc = "idle"
                          /\ l.pc = "idle"
           /\ Report => /\ writer = "idle" /\ m.pc = "idle" /\ a.pc = "idle"
                        /\ l.pc = "idle"
           /\ Labels => /\ writer = "idle" /\ m.pc = "idle" /\ a.pc = "idle"
                        /\ r.pc = "idle"
<1> USE DEF OneAtATime, MayStart, Quiet
<1>1. Dump => Quiet \/ writer # "idle"
  BY DEF Dump, OpenRun, PublishRows, PublishCounts, CloseRun, KillWriter,
         StartRebuild, IndexOrphan
<1>2. Metrics => Quiet \/ m.pc # "idle"
  BY DEF Metrics, ReadDump, Summarise, SaveMetrics, KillMetrics
<1>3. Analysis => Quiet \/ a.pc # "idle"
  BY DEF Analysis, OpenMetrics, LoadMetrics, VerifySourceDump, ReadItems,
         SaveAnalysis, KillAnalysis
<1>4. Report => Quiet \/ r.pc # "idle"
  BY DEF Report, OpenReport, LoadForReport, OpenAnalysis, LoadAnalysis,
         VerifySourceMetrics, Assemble, LinkAssets, ExportModel, ExportRankings,
         RenderReport, KillReport
<1>5. Labels => Quiet \/ l.pc # "idle"
  BY DEF Labels, OpenModel, ReadRankings, HashReport, ExportLabels, KillLabels
<1> QED BY <1>1, <1>2, <1>3, <1>4, <1>5

\* What a change of the dump does to a metrics store.
LEMMA DumpHashes ==
    ASSUME Whole, HashedOnce, Dump
    PROVE  /\ HashedOnce'
           /\ (told /\ Accepted)' => told /\ Accepted /\ UNCHANGED rows
<1>1. UNCHANGED mman
  BY DEF Dump, OpenRun, PublishRows, PublishCounts, CloseRun, KillWriter,
         StartRebuild, IndexOrphan, mstore
<1>2. CASE mman = None
  BY <1>1, <1>2 DEF HashedOnce, Accepted
<1>3. CASE mman # None
  <2>1. /\ mman.hash \in RunManifests /\ manifest \in RunManifests
        /\ manifest # None
    BY <1>3, MissingAssumption
       DEF Whole, MetricsPart, AMetricsStore, ADump, MetricsManifests
  <2>2. /\ mman.hash.session \in Nat /\ manifest.session \in Nat
        /\ mman.hash.session <= manifest.session
        /\ writer \in {"recording", "counting"} =>
             mman.hash.session < manifest.session
        /\ mman.hash # manifest /\ mman.hash.session = manifest.session =>
             orphans = 0 /\ manifest.tally = tally
    BY <1>3, <2>1 DEF HashedOnce, RunManifests
  <2>3. /\ DOMAIN manifest = {"session", "tally", "finished"}
        /\ manifest = [session |-> manifest.session, tally |-> manifest.tally,
                       finished |-> manifest.finished]
    BY <2>1 DEF RunManifests
  <2>4. CASE OpenRun
    <3>1. manifest'.session = manifest.session + 1
      BY <2>1, <2>4 DEF OpenRun, PublishManifest, Session
    <3>2. /\ mman.hash.session < manifest'.session /\ mman.hash # manifest'
          /\ mman.hash.session <= manifest'.session
          /\ mman.hash.session # manifest'.session
      BY <2>2, <3>1
    <3> QED BY <1>1, <2>2, <3>2 DEF HashedOnce, Accepted
  <2>5. CASE PublishRows
    <3>1. UNCHANGED manifest /\ told' = FALSE /\ writer = "recording"
      BY <2>5 DEF PublishRows, ChangeRows
    <3> QED BY <1>1, <2>2, <3>1 DEF HashedOnce
  <2>6. CASE PublishCounts
    <3>1. /\ manifest' = [manifest EXCEPT !.tally = tally]
          /\ told' = (told \/ manifest' # manifest) /\ UNCHANGED <<rows, orphans, tally>>
      BY <2>6 DEF PublishCounts, PublishManifest
    <3>2. /\ manifest'.session = manifest.session /\ manifest'.tally = tally
          /\ manifest.tally = tally => manifest' = manifest
      BY <2>1, <2>3, <3>1 DEF RunManifests
    <3>3. CASE writer = "counting"
      <4>1. /\ mman.hash.session < manifest'.session /\ mman.hash # manifest'
            /\ mman.hash.session <= manifest'.session
            /\ mman.hash.session # manifest'.session
        BY <2>2, <3>2, <3>3
      <4>2. writer' = "recording"
        BY <2>6, <3>3 DEF PublishCounts
      <4> QED BY <1>1, <2>2, <4>1, <4>2 DEF HashedOnce, Accepted
    <3>4. CASE writer = "indexing" /\ orphans = 0
      <4>1. writer' = "idle"
        BY <2>6, <3>4 DEF PublishCounts
      <4>2. HashedOnce'
        BY <1>1, <2>2, <3>1, <3>2, <3>4, <4>1 DEF HashedOnce
      <4>3. mman.hash = manifest' => UNCHANGED manifest
        BY <2>2, <3>2, <3>4
      <4> QED BY <1>1, <3>1, <4>2, <4>3 DEF Accepted
    <3> QED BY <2>6, <3>3, <3>4 DEF PublishCounts
  <2>7. CASE CloseRun
    <3>1. PICK s \in BOOLEAN : manifest' = [manifest EXCEPT !.finished = s]
      BY <2>7 DEF CloseRun, PublishManifest
    <3>2. manifest'.session = manifest.session
      BY <2>1, <2>3, <3>1
    <3>3. /\ mman.hash.session < manifest'.session /\ mman.hash # manifest'
          /\ mman.hash.session <= manifest'.session
          /\ mman.hash.session # manifest'.session
      BY <2>2, <2>7, <3>2 DEF CloseRun
    <3> QED BY <1>1, <2>2, <3>3 DEF HashedOnce, Accepted
  <2>8. CASE KillWriter
    <3>1. /\ UNCHANGED <<manifest, rows, told, tally>> /\ writer' = "idle"
          /\ writer = "recording" \/ UNCHANGED orphans
      BY <2>8 DEF KillWriter
    <3> QED BY <1>1, <2>2, <3>1 DEF HashedOnce, Accepted
  <2>9. CASE StartRebuild
    BY <1>1, <2>2, <2>9 DEF StartRebuild, HashedOnce, Accepted
  <2>10. CASE IndexOrphan
    <3>1. /\ UNCHANGED <<manifest, writer>> /\ orphans > 0
          /\ UNCHANGED <<rows, told>> \/ told' = FALSE
      BY <2>10 DEF IndexOrphan, ChangeRows
    <3>2. orphans # 0
      BY <3>1 DEF Whole, DumpPart
    <3> QED BY <1>1, <2>2, <3>1, <3>2 DEF HashedOnce, Accepted
  <2> QED BY <2>4, <2>5, <2>6, <2>7, <2>8, <2>9, <2>10 DEF Dump
<1> QED BY <1>2, <1>3

\* without overlap a step of a run or a rebuild keeps the invariant
LEMMA DumpHeld == ASSUME IInv, ~Overlap, Dump PROVE IInv'
<1>1. Whole'
  BY DumpWhole DEF IInv
<1>2. /\ m.pc = "idle" /\ a.pc = "idle" /\ r.pc = "idle" /\ l.pc = "idle"
      /\ UNCHANGED <<mstore, m, astore, a, page, r, labels, lman, l, stamps>>
  <2>1. UNCHANGED <<mstore, m, astore, a, page, r, labels, lman, l, stamps>>
    BY DEF Dump, OpenRun, PublishRows, PublishCounts, CloseRun, KillWriter,
           StartRebuild, IndexOrphan
  <2> QED BY <2>1, Alone DEF IInv
<1>3. HashedOnce' /\ ((told /\ Accepted)' => told /\ Accepted /\ UNCHANGED rows)
  BY DumpHashes DEF IInv
<1>4. OneAtATime' /\ Stamped' /\ WrittenInOrder'
  BY <1>2 DEF IInv, OneAtATime, Stamped, WrittenInOrder, mstore, astore, page
<1>5. Held'
  BY <1>2 DEF Held, MetricsHeld, AnalysisHeld, ReportHeld, PageHeld, LabelsHeld, Writing
<1>6. Joined'
  <2>1. AcceptedMetricsAreCurrent' /\ AcceptedAnalysisIsCurrent'
    BY <1>2, <1>3 DEF IInv, Joined, AcceptedMetricsAreCurrent, MetricsAreOf,
       AcceptedAnalysisIsCurrent, mstore, astore
  <2>2. AnalysisJoinsOneDump' /\ ReportIsOfOneDump'
        /\ LabelsAreNotOlderThanTheirReport'
    BY <1>2 DEF IInv, Joined, AnalysisJoinsOneDump, ReportIsOfOneDump,
       LabelsAreNotOlderThanTheirReport, astore, page
  <2> QED BY <2>1, <2>2 DEF Joined
<1> QED BY <1>1, <1>3, <1>4, <1>5, <1>6 DEF IInv

\* so does a step of metrics
LEMMA MetricsKeepHeld == ASSUME IInv, ~Overlap, Metrics PROVE IInv'
<1>1. Whole'
  BY MetricsWhole DEF IInv
<1>2. /\ writer = "idle" /\ a.pc = "idle" /\ r.pc = "idle" /\ l.pc = "idle"
      /\ UNCHANGED <<dump, astore, a, page, r, labels, lman, l>>
  <2>1. UNCHANGED <<dump, astore, a, page, r, labels, lman, l>>
    BY DEF Metrics, ReadDump, Summarise, SaveMetrics, KillMetrics
  <2> QED BY <2>1, Alone DEF IInv
<1>3. OneAtATime'
  BY <1>2 DEF OneAtATime, dump
<1>4. /\ AnalysisHeld' /\ ReportHeld' /\ PageHeld' /\ LabelsHeld'
      /\ WrittenInOrder'
  BY <1>2 DEF AnalysisHeld, ReportHeld, PageHeld, LabelsHeld, Writing, IInv,
     WrittenInOrder, page
<1>5. AnalysisJoinsOneDump' /\ ReportIsOfOneDump' /\ LabelsAreNotOlderThanTheirReport'
  BY <1>2 DEF IInv, Joined, AnalysisJoinsOneDump, ReportIsOfOneDump,
     LabelsAreNotOlderThanTheirReport, astore, page
<1>6. UNCHANGED <<mstore, stamps>> =>
        /\ HashedOnce' /\ Stamped'
        /\ AcceptedMetricsAreCurrent' /\ AcceptedAnalysisIsCurrent'
  BY <1>2 DEF IInv, HashedOnce, Stamped, Joined, AcceptedMetricsAreCurrent,
     MetricsAreOf, AcceptedAnalysisIsCurrent, Accepted, dump, mstore, astore, page
<1>7. HashedOnce' /\ Stamped' /\ AcceptedMetricsAreCurrent'
      /\ AcceptedAnalysisIsCurrent' /\ MetricsHeld'
  <2>1. MetricsHeld /\ MetricsCommand /\ UNCHANGED <<rows, manifest, told, writer>>
    BY <1>2 DEF IInv, Held, Whole, dump
  <2>2. MIdle.pc = "idle"
    BY DEF MIdle
  <2>3. CASE ReadDump
    <3>1. /\ UNCHANGED <<mstore, stamps>>
          /\ m'.pc = "summary" /\ m'.rows = rows
      BY <2>3 DEF ReadDump, MIdle
    <3> QED BY <1>6, <2>1, <3>1 DEF MetricsHeld
  <2>4. CASE Summarise
    <3>1. /\ UNCHANGED <<mstore, stamps>> /\ m.pc = "summary" /\ m \in MetricsStates
          /\ m' = [m EXCEPT !.pc = "save", !.excl = rows, !.at = 1]
      BY <2>1, <2>4 DEF Summarise, MetricsCommand
    <3>2. m'.pc = "save" /\ m'.rows = m.rows /\ m'.excl = rows /\ m'.at = 1
      BY <3>1 DEF MetricsStates
    <3>3. 1 # NMetrics + 2 /\ \A k \in MFiles : ~(k < 1)
      BY Bounds DEF MFiles
    <3> QED BY <1>6, <2>1, <3>1, <3>2, <3>3 DEF MetricsHeld
  <2>5. CASE SaveMetrics
    <3>1. /\ m.pc = "save" /\ m \in MetricsStates /\ m.rows = rows /\ m.excl = rows
          /\ m.at \in Nat /\ m.at >= 1
          /\ \A k \in MFiles : k < m.at => metrics[k] = rows
          /\ m.at = NMetrics + 2 => m.hash = manifest
          /\ metrics \in [MFiles -> Maybe(Versions)]
      BY <2>1, <2>5 DEF SaveMetrics, MetricsCommand, MetricsHeld, MetricsStates, IInv,
         Whole, MetricsPart
    <3>2. CASE m.at <= NMetrics
      <4>1. /\ m' = [m EXCEPT !.at = @ + 1] /\ UNCHANGED <<mman, stamps>>
            /\ metrics' = [metrics EXCEPT ![m.at] = rows] /\ m.at \in MFiles
        BY <2>5, <3>1, <3>2, Bounds DEF SaveMetrics, MFiles
      <4>2. /\ m'.pc = "save" /\ m'.rows = rows /\ m'.excl = rows
            /\ m'.at = m.at + 1 /\ m'.at # NMetrics + 2
        BY <3>1, <3>2, <4>1, Bounds DEF MetricsStates
      <4>3. \A k \in MFiles : k < m.at + 1 \/ metrics[k] = rows => metrics'[k] = rows
        BY <3>1, <4>1 DEF MFiles
      <4>4. MetricsHeld'
        BY <2>1, <4>2, <4>3 DEF MetricsHeld
      <4>5. HashedOnce' /\ Stamped' /\ AcceptedAnalysisIsCurrent'
        BY <1>2, <4>1 DEF IInv, HashedOnce, Stamped, Joined,
           AcceptedAnalysisIsCurrent, Accepted, dump, astore, page
      <4>6. AcceptedMetricsAreCurrent'
        BY <1>2, <4>1, <4>3 DEF IInv, Joined, AcceptedMetricsAreCurrent,
           MetricsAreOf, Accepted, dump
      <4> QED BY <4>4, <4>5, <4>6
    <3>3. CASE m.at = NMetrics + 1
      <4>1. /\ m' = [m EXCEPT !.at = @ + 1, !.hash = manifest]
            /\ UNCHANGED <<mstore, stamps>>
        BY <2>5, <3>3, Bounds DEF SaveMetrics, mstore
      <4>2. /\ m'.pc = "save" /\ m'.rows = rows /\ m'.excl = rows
            /\ m'.hash = manifest
        BY <3>1, <4>1 DEF MetricsStates
      <4>3. \A k \in MFiles : metrics'[k] = rows
        BY <3>1, <3>3, <4>1, Bounds DEF MFiles, mstore
      <4> QED BY <1>6, <2>1, <4>1, <4>2, <4>3 DEF MetricsHeld
    <3>4. CASE m.at = NMetrics + 2
      <4>1. /\ m' = MIdle /\ UNCHANGED metrics /\ stamps' = stamps + 1
            /\ mman' = [hash |-> manifest, excl |-> rows, stamp |-> stamps + 1]
        BY <2>5, <3>1, <3>4, Bounds DEF SaveMetrics
      <4>2. \A k \in MFiles : metrics[k] = rows
        BY <3>1, <3>4, Bounds DEF MFiles
      <4>3. manifest \in RunManifests /\ stamps \in Nat
        BY <2>1, <3>1 DEF MetricsCommand, ADump, IInv, Whole, DumpPart
      <4>4. HashedOnce' /\ AcceptedMetricsAreCurrent' /\ MetricsHeld'
        BY <1>2, <2>1, <2>2, <4>1, <4>2, <4>3 DEF HashedOnce,
           AcceptedMetricsAreCurrent, MetricsAreOf, MetricsHeld, RunManifests
      <4>5. Stamped'
        <5>1. /\ aman # None => aman.hash.stamp <= stamps + 1
              /\ model # None => model.stamp <= stamps + 1
              /\ rankings \notin {None, Torn} => rankings.stamp <= stamps + 1
          <6>1. /\ aman # None => aman.hash.stamp \in Nat
                /\ model # None => model.stamp \in Nat
                /\ rankings \notin {None, Torn} => rankings.stamp \in Nat
            BY DEF IInv, Whole, AnalysisPart, ReportPart, Maybe, Written,
               AnalysisManifests, MetricsManifests, Pages
          <6> QED BY <4>3, <6>1 DEF IInv, Stamped
        <5> QED BY <1>2, <4>1, <4>3, <5>1 DEF Stamped, astore, page
      <4>6. aman # None => aman.hash # mman'
        <5>1. aman # None => aman.hash.stamp \in Nat /\ aman.hash.stamp <= stamps
          BY DEF IInv, Whole, AnalysisPart, Maybe, AnalysisManifests,
             MetricsManifests, Stamped
        <5>2. mman'.stamp = stamps + 1
          BY <4>1
        <5> QED BY <4>3, <5>1, <5>2
      <4>7. AcceptedAnalysisIsCurrent'
        BY <1>2, <4>6 DEF AcceptedAnalysisIsCurrent, astore
      <4> QED BY <4>4, <4>5, <4>7
    <3> QED BY <2>5, <3>2, <3>3, <3>4 DEF SaveMetrics
  <2>6. CASE KillMetrics
    <3>1. m' = MIdle /\ UNCHANGED <<mstore, stamps>>
      BY <2>6 DEF KillMetrics
    <3> QED BY <1>6, <2>2, <3>1 DEF MetricsHeld
  <2> QED BY <2>3, <2>4, <2>5, <2>6 DEF Metrics
<1> QED BY <1>1, <1>3, <1>4, <1>5, <1>7 DEF IInv, Held, Joined

\* of analyze
LEMMA AnalysisKeepsHeld == ASSUME IInv, ~Overlap, Analysis PROVE IInv'
<1>1. Whole'
  BY AnalysisWhole DEF IInv
<1>2. /\ writer = "idle" /\ m.pc = "idle" /\ r.pc = "idle" /\ l.pc = "idle"
      /\ UNCHANGED <<dump, mstore, m, page, r, labels, lman, l>>
  <2>1. UNCHANGED <<dump, mstore, m, page, r, labels, lman, l>>
    BY DEF Analysis, OpenMetrics, LoadMetrics, VerifySourceDump, ReadItems,
           SaveAnalysis, KillAnalysis
  <2> QED BY <2>1, Alone DEF IInv
<1>3. OneAtATime'
  BY <1>2 DEF OneAtATime, dump
<1>4. /\ MetricsHeld' /\ ReportHeld' /\ PageHeld' /\ LabelsHeld'
      /\ HashedOnce' /\ WrittenInOrder'
  BY <1>2 DEF MetricsHeld, ReportHeld, PageHeld, LabelsHeld, Writing, IInv,
     HashedOnce, WrittenInOrder, dump, mstore, page
<1>5. /\ ReportIsOfOneDump' /\ LabelsAreNotOlderThanTheirReport'
      /\ AcceptedMetricsAreCurrent'
  BY <1>2 DEF IInv, Joined, ReportIsOfOneDump, LabelsAreNotOlderThanTheirReport,
     AcceptedMetricsAreCurrent, MetricsAreOf, Accepted, dump, mstore, page
<1>6. UNCHANGED <<astore, stamps>> =>
        Stamped' /\ AcceptedAnalysisIsCurrent' /\ AnalysisJoinsOneDump'
  BY <1>2 DEF IInv, Stamped, Joined, AnalysisJoinsOneDump, AcceptedAnalysisIsCurrent,
     Accepted, dump, mstore, astore, page
<1>7. Stamped' /\ AcceptedAnalysisIsCurrent' /\ AnalysisJoinsOneDump' /\ AnalysisHeld'
  <2>1. /\ AnalysisHeld /\ AnalysisCommand /\ a \in AnalysisStates
        /\ UNCHANGED <<rows, manifest, told, metrics, mman>>
    BY <1>2 DEF IInv, Held, Whole, AnalysisCommand, dump, mstore
  <2>2. /\ a.at \in Nat /\ a.read \in [MFiles -> Maybe(Versions)]
        /\ metrics \in [MFiles -> Maybe(Versions)]
    BY <2>1 DEF AnalysisStates, IInv, Whole, MetricsPart
  <2>3. a' = AIdle => AnalysisHeld'
    BY DEF AIdle, AnalysisHeld
  <2>4. CASE OpenMetrics
    <3>1. /\ UNCHANGED <<astore, stamps>> /\ a'.pc = "load" /\ a'.man = mman
          /\ a'.at = 1 /\ mman # None
      BY <2>4 DEF OpenMetrics, AIdle
    <3>2. \A k \in MFiles : ~(k < 1)
      BY DEF MFiles
    <3> QED BY <1>6, <2>1, <3>1, <3>2 DEF AnalysisHeld
  <2>5. CASE LoadMetrics
    <3>1. /\ UNCHANGED <<astore, stamps>> /\ a.pc = "load" /\ a.at <= NMetrics
          /\ a' = [a EXCEPT !.read[a.at] = metrics[a.at], !.at = @ + 1]
      BY <2>5 DEF LoadMetrics
    <3>2. /\ a'.pc = "load" /\ a'.man = a.man /\ a'.at = a.at + 1
          /\ a'.read = [a.read EXCEPT ![a.at] = metrics[a.at]]
      BY <2>1, <3>1 DEF AnalysisStates
    <3>3. \A k \in MFiles : k < a.at => a.read[k] = metrics[k]
      BY <2>1, <3>1 DEF AnalysisHeld
    <3>4. \A k \in MFiles : k < a.at + 1 => a'.read[k] = metrics[k]
      <4>1. \A k \in MFiles :
               a'.read[k] = IF k = a.at THEN metrics[a.at] ELSE a.read[k]
        BY <2>2, <3>2
      <4> QED BY <2>2, <3>3, <4>1 DEF MFiles
    <3> QED BY <1>6, <2>1, <3>1, <3>2, <3>4 DEF AnalysisHeld
  <2>6. CASE VerifySourceDump
    <3>1. /\ UNCHANGED <<astore, stamps>> /\ a.pc = "load" /\ a.at > NMetrics
      BY <2>6 DEF VerifySourceDump
    <3>2. CASE a.man.hash = manifest
      <4>1. a'.pc = "items" /\ a'.man = a.man /\ a'.read = a.read
        BY <2>1, <2>6, <3>2 DEF VerifySourceDump, AnalysisStates
      <4>2. \A k \in MFiles : a.read[k] = metrics[k]
        BY <2>1, <2>2, <3>1, Bounds DEF AnalysisHeld, MFiles
      <4>3. a.read = metrics
        BY <2>2, <4>2
      <4>4. Accepted'
        <5>1. a.man = mman /\ a.man \in MetricsManifests /\ AMetricsStore
          BY <2>1, <3>1 DEF AnalysisHeld, AnalysisCommand
        <5>2. manifest # None
          BY <5>1, MissingAssumption DEF AMetricsStore, ADump
        <5>3. mman # None
          BY <2>1, <3>1 DEF AnalysisHeld
        <5> QED BY <2>1, <3>2, <5>1, <5>3 DEF Accepted
      <4> QED BY <1>6, <2>1, <3>1, <4>1, <4>3, <4>4 DEF AnalysisHeld
    <3>3. CASE a.man.hash # manifest
      BY <1>6, <2>3, <2>6, <3>1, <3>3 DEF VerifySourceDump
    <3> QED BY <3>2, <3>3
  <2>7. CASE ReadItems
    <3>1. /\ UNCHANGED <<astore, stamps>> /\ a.pc = "items"
          /\ a' = [a EXCEPT !.pc = "save", !.ctx = rows, !.at = 1, !.told = told]
      BY <2>7 DEF ReadItems
    <3>2. /\ a'.pc = "save" /\ a'.man = a.man /\ a'.read = a.read /\ a'.ctx = rows
          /\ a'.told = told /\ a'.at = 1
      BY <2>1, <3>1 DEF AnalysisStates
    <3>3. 1 # NAnalysis + 2 /\ \A k \in AFiles : ~(k < 1)
      BY Bounds DEF AFiles
    <3>4. Accepted' = Accepted
      BY <2>1 DEF Accepted
    <3> QED BY <1>6, <2>1, <3>1, <3>2, <3>3, <3>4 DEF AnalysisHeld
  <2>8. CASE SaveAnalysis
    <3> DEFINE row == [items |-> a.read[1], ctx |-> rows, told |-> told]
    <3>1. /\ a.pc = "save" /\ a.at >= 1 /\ a.man = mman /\ a.ctx = rows
          /\ a.told = told /\ a.read = metrics /\ Accepted /\ Accepted'
          /\ \A k \in AFiles : k < a.at => analysis[k] = row
          /\ a.at = NAnalysis + 2 => a.hash = mman
          /\ analysis \in [AFiles -> Maybe(AnalysisRows)]
      BY <2>1, <2>8 DEF SaveAnalysis, AnalysisCommand, AnalysisHeld, IInv, Whole,
         AnalysisPart, Accepted
    <3>2. /\ row.items = metrics[1] /\ row.ctx = rows /\ row.told = told
          /\ told => metrics[1] = rows
      BY <3>1, Bounds DEF IInv, Joined, AcceptedMetricsAreCurrent, MetricsAreOf, MFiles
    <3> HIDE DEF row
    <3>3. CASE a.at <= NAnalysis
      <4>1. /\ a' = [a EXCEPT !.at = @ + 1] /\ UNCHANGED <<aman, stamps>>
            /\ analysis' = [analysis EXCEPT ![a.at] = row] /\ a.at \in AFiles
        BY <2>2, <2>8, <3>1, <3>3, Bounds DEF SaveAnalysis, AFiles, row
      <4>2. /\ a'.pc = "save" /\ a'.man = a.man /\ a'.read = a.read
            /\ a'.ctx = a.ctx /\ a'.told = a.told
            /\ a'.at = a.at + 1 /\ a'.at # NAnalysis + 2
        BY <2>1, <2>2, <3>1, <3>3, <4>1, Bounds DEF AnalysisStates
      <4>3. \A k \in AFiles : analysis'[k] = IF k = a.at THEN row ELSE analysis[k]
        BY <3>1, <4>1
      <4>4. \A k \in AFiles : k < a.at + 1 => analysis'[k] = row
        BY <2>2, <3>1, <4>3 DEF AFiles
      <4>5. AnalysisHeld'
        BY <2>1, <3>1, <4>2, <4>4 DEF AnalysisHeld, row
      <4>6. Stamped'
        BY <1>2, <4>1 DEF IInv, Stamped, mstore, page
      <4>7. AcceptedAnalysisIsCurrent'
        BY <2>1, <3>1, <3>2, <4>1, <4>3 DEF IInv, Joined, AcceptedAnalysisIsCurrent
      <4>8. AnalysisJoinsOneDump'
        BY <3>2, <4>3 DEF IInv, Joined, AnalysisJoinsOneDump
      <4> QED BY <4>5, <4>6, <4>7, <4>8
    <3>4. CASE a.at = NAnalysis + 1
      <4>1. a' = [a EXCEPT !.at = @ + 1, !.hash = mman] /\ UNCHANGED <<astore, stamps>>
        BY <2>8, <3>4, Bounds DEF SaveAnalysis, astore
      <4>2. /\ a'.pc = "save" /\ a'.man = a.man /\ a'.read = a.read
            /\ a'.ctx = a.ctx /\ a'.told = a.told /\ a'.hash = mman
        BY <2>1, <3>1, <4>1 DEF AnalysisStates
      <4>3. \A k \in AFiles : analysis'[k] = row
        BY <3>1, <3>4, <4>1, Bounds DEF AFiles, astore
      <4> QED BY <1>6, <2>1, <3>1, <4>1, <4>2, <4>3 DEF AnalysisHeld, row
    <3>5. CASE a.at = NAnalysis + 2
      <4>1. /\ a' = AIdle /\ UNCHANGED analysis /\ stamps' = stamps + 1
            /\ aman' = [hash |-> mman, stamp |-> stamps + 1]
        BY <2>8, <3>1, <3>5, Bounds DEF SaveAnalysis
      <4>2. \A k \in AFiles : analysis[k] = row
        BY <3>1, <3>5, Bounds DEF AFiles
      <4>3. AnalysisHeld' /\ AnalysisJoinsOneDump'
        BY <2>3, <4>1 DEF IInv, Joined, AnalysisJoinsOneDump
      <4>4. AcceptedAnalysisIsCurrent'
        BY <2>1, <3>2, <4>1, <4>2 DEF AcceptedAnalysisIsCurrent
      <4>5. Stamped'
        <5>1. /\ stamps \in Nat /\ mman # None /\ mman.stamp \in Nat
              /\ model # None => model.stamp \in Nat
              /\ rankings \notin {None, Torn} => rankings.stamp \in Nat
          BY <3>1 DEF IInv, Whole, DumpPart, MetricsPart, ReportPart, Maybe, Written,
             MetricsManifests, Pages, Accepted
        <5>2. /\ mman.stamp <= stamps
              /\ model # None => model.stamp <= stamps
              /\ rankings \notin {None, Torn} => rankings.stamp <= stamps
          BY <5>1 DEF IInv, Stamped
        <5>3. /\ mman.stamp <= stamps + 1
              /\ model # None => model.stamp <= stamps + 1
              /\ rankings \notin {None, Torn} => rankings.stamp <= stamps + 1
          BY <5>1, <5>2
        <5>4. aman'.hash.stamp = mman.stamp
          BY <4>1
        <5> QED BY <1>2, <2>1, <4>1, <5>3, <5>4 DEF Stamped, page
      <4> QED BY <4>3, <4>4, <4>5
    <3> QED BY <2>8, <3>3, <3>4, <3>5 DEF SaveAnalysis
  <2>9. CASE KillAnalysis
    <3>1. a' = AIdle /\ UNCHANGED <<astore, stamps>>
      BY <2>9 DEF KillAnalysis
    <3> QED BY <1>6, <2>3, <3>1
  <2> QED BY <2>4, <2>5, <2>6, <2>7, <2>8, <2>9 DEF Analysis
<1> QED BY <1>1, <1>3, <1>4, <1>5, <1>7 DEF IInv, Held, Joined

\* stamps are numbers
LEMMA StampTypes ==
    ASSUME Whole
    PROVE  /\ stamps \in Nat
           /\ mman # None => mman.stamp \in Nat
           /\ aman # None => aman.hash.stamp \in Nat
           /\ model # None => model.stamp \in Nat
           /\ rankings \notin {None, Torn} => rankings.stamp \in Nat
           /\ rman \notin {None, Torn} => rman.stamp \in Nat
           /\ r.pc \in Writing => r.page.stamp \in Nat
BY DEF Whole, DumpPart, MetricsPart, AnalysisPart, ReportPart, ReportCommand, Maybe,
   Written, MetricsManifests, AnalysisManifests, Pages

\* the first half of a report, up to the page
LEMMA ReadingHeld ==
    ASSUME IInv, UNCHANGED <<dump, mstore, astore>>,
           OpenReport \/ LoadForReport \/ OpenAnalysis \/ LoadAnalysis
           \/ VerifySourceMetrics
    PROVE  ReportHeld' /\ PageHeld'
<1>1. /\ ReportHeld /\ ReportCommand /\ r \in ReportStates
      /\ UNCHANGED <<metrics, mman, analysis, aman, rows, told, manifest>>
  BY DEF IInv, Held, Whole, ReportCommand, dump, mstore, astore
<1>2. /\ r.at \in Nat /\ r.read \in [MFiles -> Maybe(Versions)]
      /\ r.aread \in [AFiles -> Maybe(AnalysisRows)]
      /\ metrics \in [MFiles -> Maybe(Versions)]
      /\ analysis \in [AFiles -> Maybe(AnalysisRows)]
  BY <1>1 DEF ReportStates, IInv, Whole, MetricsPart, AnalysisPart
<1>3. r' = RIdle => ReportHeld' /\ PageHeld'
  BY DEF RIdle, ReportHeld, PageHeld, Writing
<1>4. r'.pc \in {"load", "analysis", "provenance"} => PageHeld'
  BY DEF PageHeld, Writing
<1>5. CASE OpenReport
  <2>1. /\ r'.pc = "load" /\ r'.man = mman /\ r'.at = 1 /\ r'.aman = None
        /\ mman # None
    BY <1>5 DEF OpenReport, RIdle
  <2>2. \A k \in MFiles : ~(k < 1)
    BY DEF MFiles
  <2> QED BY <1>1, <1>4, <2>1, <2>2 DEF ReportHeld
<1>6. CASE LoadForReport
  <2>1. /\ r.pc = "load" /\ r.at <= NMetrics
        /\ r' = [r EXCEPT !.read[r.at] = metrics[r.at], !.at = @ + 1]
    BY <1>6 DEF LoadForReport
  <2>2. /\ r'.pc = "load" /\ r'.man = r.man /\ r'.at = r.at + 1 /\ r'.aman = r.aman
        /\ r'.read = [r.read EXCEPT ![r.at] = metrics[r.at]]
    BY <1>1, <2>1 DEF ReportStates
  <2>3. \A k \in MFiles :
           r'.read[k] = IF k = r.at THEN metrics[r.at] ELSE r.read[k]
    BY <1>2, <2>2
  <2>4. \A k \in MFiles : k < r.at => r.read[k] = metrics[k]
    BY <1>1, <2>1 DEF ReportHeld
  <2>5. \A k \in MFiles : k < r.at + 1 => r'.read[k] = metrics[k]
    BY <1>2, <2>3, <2>4 DEF MFiles
  <2> QED BY <1>1, <1>4, <2>1, <2>2, <2>5 DEF ReportHeld
<1>7. CASE OpenAnalysis
  <2>1. r.pc = "load" /\ r.at > NMetrics
    BY <1>7 DEF OpenAnalysis
  <2>2. \A k \in MFiles : r.read[k] = metrics[k]
    BY <1>1, <1>2, <2>1, Bounds DEF ReportHeld, MFiles
  <2>3. r.read = metrics
    BY <1>2, <2>2
  <2>4. CASE aman # None
    <3>1. r' = [r EXCEPT !.pc = "analysis", !.aman = aman, !.at = 1]
      BY <1>7, <2>4 DEF OpenAnalysis
    <3>2. /\ r'.pc = "analysis" /\ r'.man = r.man /\ r'.read = r.read
          /\ r'.aman = aman /\ r'.at = 1
      BY <1>1, <3>1 DEF ReportStates
    <3>3. \A k \in AFiles : ~(k < 1)
      BY DEF AFiles
    <3> QED BY <1>1, <1>4, <2>1, <2>3, <3>2, <3>3 DEF ReportHeld
  <2>5. CASE r' = [r EXCEPT !.pc = "provenance"]
    <3>1. /\ r'.pc = "provenance" /\ r'.man = r.man /\ r'.read = r.read
          /\ r'.aman = r.aman
      BY <1>1, <2>5 DEF ReportStates
    <3>2. r.aman = None
      BY <1>1, <2>1 DEF ReportHeld
    <3> QED BY <1>1, <1>4, <2>1, <2>3, <3>1, <3>2 DEF ReportHeld
  <2> QED BY <1>3, <1>7, <2>4, <2>5 DEF OpenAnalysis
<1>8. CASE LoadAnalysis
  <2>1. /\ r.pc = "analysis" /\ r.at <= NAnalysis
        /\ r' = [r EXCEPT !.aread[r.at] = analysis[r.at], !.at = @ + 1]
    BY <1>8 DEF LoadAnalysis
  <2>2. /\ r'.pc = "analysis" /\ r'.man = r.man /\ r'.at = r.at + 1
        /\ r'.aman = r.aman /\ r'.read = r.read
        /\ r'.aread = [r.aread EXCEPT ![r.at] = analysis[r.at]]
    BY <1>1, <2>1 DEF ReportStates
  <2>3. \A k \in AFiles :
           r'.aread[k] = IF k = r.at THEN analysis[r.at] ELSE r.aread[k]
    BY <1>2, <2>2
  <2>4. \A k \in AFiles : k < r.at => r.aread[k] = analysis[k]
    BY <1>1, <2>1 DEF ReportHeld
  <2>5. \A k \in AFiles : k < r.at + 1 => r'.aread[k] = analysis[k]
    BY <1>2, <2>3, <2>4 DEF AFiles
  <2> QED BY <1>1, <1>4, <2>1, <2>2, <2>5 DEF ReportHeld
<1>9. CASE VerifySourceMetrics
  <2>1. r.pc = "analysis" /\ r.at > NAnalysis
    BY <1>9 DEF VerifySourceMetrics
  <2>2. CASE r.aman.hash = mman
    <3>1. /\ r'.pc = "provenance" /\ r'.man = r.man /\ r'.read = r.read
          /\ r'.aman = r.aman /\ r'.aread = r.aread
      BY <1>1, <1>9, <2>2 DEF VerifySourceMetrics, ReportStates
    <3>2. \A k \in AFiles : r.aread[k] = analysis[k]
      BY <1>1, <1>2, <2>1, Bounds DEF ReportHeld, AFiles
    <3>3. r.aread = analysis
      BY <1>2, <3>2
    <3> QED BY <1>1, <1>4, <2>1, <2>2, <3>1, <3>3 DEF ReportHeld
  <2>3. CASE r.aman.hash # mman
    BY <1>3, <1>9, <2>3 DEF VerifySourceMetrics
  <2> QED BY <2>2, <2>3
<1> QED BY <1>5, <1>6, <1>7, <1>8, <1>9

\* the link to the assets is what makes a page one of one dump
LEMMA LinkedPage ==
    ASSUME IInv, r.pc = "link", r.page.gallery => mman.hash = manifest
    PROVE  PageOfOneDump(r.page)
<1> SUFFICES ASSUME r.page.gallery, r.page.saw # None
             PROVE  /\ r.page.man = r.page.metrics /\ r.page.man.hash = r.page.run
                    /\ \A k \in MFiles : r.page.read[k] = r.page.saw
                    /\ r.page.aman # None =>
                         /\ r.page.aman.hash = r.page.metrics
                         /\ \A k \in AFiles : /\ r.page.aread[k].items = r.page.saw
                                             /\ r.page.aread[k].ctx = r.page.saw
  BY DEF PageOfOneDump
<1>1. /\ r.page.run = manifest /\ r.page.metrics = mman /\ r.page.saw = Seen
      /\ r.page.man = mman /\ r.page.read = metrics
      /\ r.page.aman # None =>
           r.page.aman = aman /\ aman.hash = mman /\ r.page.aread = analysis
      /\ mman # None
  BY DEF IInv, Held, PageHeld, ReportHeld
<1>2. told /\ r.page.saw = rows
  BY <1>1 DEF Seen
<1>3. Accepted
  BY <1>1 DEF Accepted
<1>4. \A k \in MFiles : metrics[k] = rows
  BY <1>2, <1>3 DEF IInv, Joined, AcceptedMetricsAreCurrent, MetricsAreOf
<1>5. r.page.aman # None =>
        \A k \in AFiles : analysis[k].items = rows /\ analysis[k].ctx = rows
  BY <1>1, <1>2, <1>3 DEF IInv, Joined, AcceptedAnalysisIsCurrent
<1> QED BY <1>1, <1>2, <1>3, <1>4, <1>5

\* of report
LEMMA ReportKeepsHeld == ASSUME IInv, ~Overlap, Report PROVE IInv'
<1>1. Whole'
  BY ReportWhole DEF IInv
<1>2. /\ writer = "idle" /\ m.pc = "idle" /\ a.pc = "idle" /\ l.pc = "idle"
      /\ UNCHANGED <<dump, mstore, m, astore, a, labels, lman, l>>
  <2>1. UNCHANGED <<dump, mstore, m, astore, a, labels, lman, l>>
    BY DEF Report, OpenReport, LoadForReport, OpenAnalysis, LoadAnalysis,
           VerifySourceMetrics, Assemble, LinkAssets, ExportModel, ExportRankings,
           RenderReport, KillReport
  <2> QED BY <2>1, Alone DEF IInv
<1>3. OneAtATime' /\ MetricsHeld' /\ AnalysisHeld' /\ LabelsHeld' /\ HashedOnce'
  BY <1>2 DEF OneAtATime, MetricsHeld, AnalysisHeld, LabelsHeld, IInv, HashedOnce,
     dump, mstore
<1>4. /\ AcceptedMetricsAreCurrent' /\ AcceptedAnalysisIsCurrent'
      /\ AnalysisJoinsOneDump' /\ LabelsAreNotOlderThanTheirReport'
  BY <1>2 DEF IInv, Joined, AcceptedMetricsAreCurrent, MetricsAreOf, Accepted,
     AcceptedAnalysisIsCurrent, AnalysisJoinsOneDump, LabelsAreNotOlderThanTheirReport,
     dump, mstore, astore
<1>5. UNCHANGED <<page, stamps>> => Stamped' /\ WrittenInOrder' /\ ReportIsOfOneDump'
  BY <1>2 DEF IInv, Stamped, WrittenInOrder, Joined, ReportIsOfOneDump, mstore,
     astore, page
<1>6. /\ ReportHeld' /\ PageHeld' /\ Stamped' /\ WrittenInOrder'
      /\ ReportIsOfOneDump'
  <2>1. /\ ReportHeld /\ PageHeld /\ ReportCommand /\ r \in ReportStates
        /\ Stamped /\ WrittenInOrder /\ ReportIsOfOneDump
        /\ UNCHANGED <<metrics, mman, analysis, aman, rows, told, manifest>>
    BY <1>2 DEF IInv, Held, Joined, Whole, ReportCommand, dump, mstore, astore
  <2>2. r' = RIdle => ReportHeld' /\ PageHeld'
    BY DEF RIdle, ReportHeld, PageHeld, Writing
  <2>3. /\ stamps \in Nat
        /\ mman # None => mman.stamp \in Nat
        /\ aman # None => aman.hash.stamp \in Nat
        /\ model # None => model.stamp \in Nat
        /\ rankings \notin {None, Torn} => rankings.stamp \in Nat
        /\ rman \notin {None, Torn} => rman.stamp \in Nat
        /\ r.pc \in Writing => r.page.stamp \in Nat /\ r.page \in Pages
    BY <2>1, StampTypes DEF IInv, ReportCommand
  <2>4. CASE OpenReport \/ LoadForReport \/ OpenAnalysis \/ LoadAnalysis
             \/ VerifySourceMetrics
    <3>1. UNCHANGED <<page, stamps>>
      BY <2>4 DEF OpenReport, LoadForReport, OpenAnalysis, LoadAnalysis,
         VerifySourceMetrics
    <3> QED BY <1>2, <1>5, <2>4, <3>1, ReadingHeld
  <2>5. CASE Assemble
    <3>1. /\ r.pc = "provenance" /\ UNCHANGED page /\ stamps' = stamps + 1
      BY <2>5 DEF Assemble
    <3>2. /\ r.man = mman /\ mman # None /\ r.read = metrics
          /\ r.aman # None => r.aman = aman /\ aman.hash = mman /\ r.aread = analysis
      BY <2>1, <3>1 DEF ReportHeld
    <3>3. PICK g \in BOOLEAN :
             r' = [r EXCEPT !.pc = "link", !.page =
                     [man |-> r.man, read |-> r.read, aman |-> r.aman,
                      aread |-> r.aread, run |-> manifest, metrics |-> mman,
                      gallery |-> g, saw |-> Seen, stamp |-> stamps + 1]]
      BY <2>5 DEF Assemble
    <3>4. /\ r'.pc = "link" /\ r'.man = r.man
          /\ r'.page = [man |-> r.man, read |-> r.read, aman |-> r.aman,
                        aread |-> r.aread, run |-> manifest, metrics |-> mman,
                        gallery |-> g, saw |-> Seen, stamp |-> stamps + 1]
      BY <2>1, <3>3 DEF ReportStates
    <3>5. Seen' = Seen
      BY <2>1 DEF Seen
    <3>6. ReportHeld'
      BY <2>1, <3>2, <3>4 DEF ReportHeld
    <3>7. PageHeld'
      BY <2>1, <3>1, <3>2, <3>4, <3>5 DEF PageHeld, Writing
    <3>8. Stamped'
      <4>1. /\ mman # None => mman.stamp <= stamps + 1
            /\ aman # None => aman.hash.stamp <= stamps + 1
            /\ model # None => model.stamp <= stamps + 1
            /\ rankings \notin {None, Torn} => rankings.stamp <= stamps + 1
        BY <2>1, <2>3 DEF Stamped
      <4> QED BY <2>1, <3>1, <4>1 DEF Stamped, page
    <3>9. WrittenInOrder' /\ ReportIsOfOneDump'
      BY <2>1, <3>1 DEF WrittenInOrder, ReportIsOfOneDump, page
    <3> QED BY <3>6, <3>7, <3>8, <3>9
  <2>6. ASSUME NEW to, r.pc \in Writing, r' = [r EXCEPT !.pc = to],
               to \in Writing \ {"link"}
        PROVE  /\ r'.pc = to /\ r'.page = r.page /\ ReportHeld'
    <3>1. r'.pc = to /\ r'.page = r.page /\ r'.man = r.man
      BY <2>1, <2>6 DEF ReportStates
    <3> QED BY <2>1, <2>6, <3>1 DEF ReportHeld, Writing
  <2>7. CASE LinkAssets
    <3>1. r.pc = "link" /\ UNCHANGED <<page, stamps>>
      BY <2>7 DEF LinkAssets
    <3>2. CASE r.page.gallery => mman.hash = manifest
      <4>1. r'.pc = "model" /\ r'.page = r.page /\ ReportHeld'
        BY <2>6, <2>7, <3>1, <3>2 DEF LinkAssets, Writing
      <4>2. PageOfOneDump(r.page) /\ r.page.stamp = stamps
        BY <2>1, <3>1, <3>2, LinkedPage DEF PageHeld, Writing
      <4>3. PageOfOneDump(r.page)' = PageOfOneDump(r.page)
        BY <4>1 DEF PageOfOneDump
      <4> QED BY <1>5, <3>1, <4>1, <4>2, <4>3 DEF PageHeld, Writing
    <3>3. CASE ~(r.page.gallery => mman.hash = manifest)
      BY <1>5, <2>2, <2>7, <3>1, <3>3 DEF LinkAssets
    <3> QED BY <3>2, <3>3
  <2>8. ASSUME r.pc \in Writing \ {"link"}, r'.page = r.page
        PROVE  PageOfOneDump(r.page)' /\ PageOfOneDump(r.page)
    BY <2>1, <2>8 DEF PageHeld, PageOfOneDump
  <2>9. CASE ExportModel
    <3>1. /\ r.pc = "model" /\ model' = r.page /\ UNCHANGED <<rankings, rman, stamps>>
          /\ r'.pc = "open_rankings" /\ r'.page = r.page /\ ReportHeld'
      BY <2>6, <2>9 DEF ExportModel, Writing
    <3>2. PageOfOneDump(r.page)' /\ PageOfOneDump(r.page) /\ r.page.stamp = stamps
      BY <2>1, <2>8, <3>1 DEF PageHeld, Writing
    <3>3. PageHeld'
      BY <3>1, <3>2 DEF PageHeld, Writing
    <3>4. ReportIsOfOneDump'
      BY <3>1, <3>2 DEF ReportIsOfOneDump, PageOfOneDump
    <3>5. Stamped'
      BY <2>1, <2>3, <3>1, <3>2 DEF Stamped
    <3>6. WrittenInOrder'
      <4>1. rman \notin {None, Torn} =>
              /\ rman.stamp <= stamps
              /\ rankings # Torn => rankings \in Pages /\ rman.stamp <= rankings.stamp
        <5>1. model \in Maybe(Pages) /\ (model \in Pages => model.stamp \in Nat)
          BY DEF IInv, Whole, ReportPart, Pages
        <5>2. rman \notin {None, Torn} => model # None
          BY <2>1, MissingAssumption DEF WrittenInOrder
        <5> QED BY <2>1, <2>3, <5>1, <5>2 DEF WrittenInOrder, Stamped
      <4> QED BY <2>3, <3>1, <3>2, <4>1 DEF WrittenInOrder, Writing
    <3> QED BY <3>1, <3>3, <3>4, <3>5, <3>6
  <2>10. CASE ExportRankings
    <3>1. /\ r.pc \in {"open_rankings", "write_rankings"}
          /\ UNCHANGED <<model, rman, stamps>> /\ r'.page = r.page /\ ReportHeld'
          /\ r'.pc \in {"write_rankings", "open_manifest"}
          /\ \/ rankings' = Torn /\ r'.pc = "write_rankings"
             \/ rankings' = r.page /\ r'.pc = "open_manifest"
      BY <2>6, <2>10 DEF ExportRankings, Writing
    <3>2. /\ PageOfOneDump(r.page)' /\ r.page.stamp = stamps /\ model = r.page
          /\ r.page \in Pages
      BY <2>1, <2>3, <2>8, <3>1 DEF PageHeld, Writing
    <3>3. PageHeld'
      BY <3>1, <3>2 DEF PageHeld, Writing
    <3>4. ReportIsOfOneDump' /\ Stamped'
      BY <2>1, <2>3, <3>1, <3>2 DEF ReportIsOfOneDump, Stamped
    <3>5. WrittenInOrder'
      BY <2>1, <3>1, <3>2 DEF WrittenInOrder
    <3> QED BY <3>1, <3>3, <3>4, <3>5
  <2>11. CASE RenderReport
    <3>1. /\ r.pc \in {"open_manifest", "write_manifest"}
          /\ UNCHANGED <<model, rankings, stamps>>
      BY <2>11 DEF RenderReport
    <3>2. /\ r.page.stamp = stamps /\ model = r.page /\ rankings = r.page
          /\ r.page \in Pages /\ r.page.stamp \in Nat
      BY <2>1, <2>3, <3>1 DEF PageHeld, Writing
    <3>3. CASE r.pc = "open_manifest"
      <4>1. /\ rman' = Torn /\ r'.pc = "write_manifest" /\ r'.page = r.page
            /\ ReportHeld'
        BY <2>6, <2>11, <3>3 DEF RenderReport, Writing
      <4>2. PageOfOneDump(r.page)'
        BY <2>8, <3>3, <4>1 DEF Writing
      <4>3. PageHeld'
        BY <3>1, <3>2, <4>1, <4>2 DEF PageHeld, Writing
      <4> QED BY <2>1, <3>1, <4>1, <4>3 DEF ReportIsOfOneDump, Stamped, WrittenInOrder
    <3>4. CASE r.pc = "write_manifest"
      <4>1. rman' = r.page /\ r' = RIdle
        BY <2>11, <3>4 DEF RenderReport
      <4> QED BY <2>1, <2>2, <3>1, <3>2, <4>1 DEF ReportIsOfOneDump, Stamped, WrittenInOrder
    <3> QED BY <3>1, <3>3, <3>4
  <2>12. CASE KillReport
    BY <1>5, <2>2, <2>12 DEF KillReport
  <2> QED BY <2>4, <2>5, <2>7, <2>9, <2>10, <2>11, <2>12 DEF Report
<1> QED BY <1>1, <1>3, <1>4, <1>6 DEF IInv, Held, Joined

\* of export-labels
LEMMA LabelsKeepHeld == ASSUME IInv, ~Overlap, Labels PROVE IInv'
<1>1. Whole'
  BY LabelsWhole DEF IInv
<1>2. /\ writer = "idle" /\ m.pc = "idle" /\ a.pc = "idle" /\ r.pc = "idle"
      /\ UNCHANGED <<dump, mstore, m, astore, a, page, r>>
  <2>1. UNCHANGED <<dump, mstore, m, astore, a, page, r>>
    BY DEF Labels, OpenModel, ReadRankings, HashReport, ExportLabels, KillLabels
  <2> QED BY <2>1, Alone DEF IInv
<1>3. OneAtATime' /\ MetricsHeld' /\ AnalysisHeld' /\ ReportHeld' /\ PageHeld'
      /\ HashedOnce' /\ WrittenInOrder'
  BY <1>2 DEF OneAtATime, MetricsHeld, AnalysisHeld, ReportHeld, PageHeld, Writing,
     IInv, HashedOnce, WrittenInOrder, dump, mstore, page
<1>4. /\ AcceptedMetricsAreCurrent' /\ AcceptedAnalysisIsCurrent'
      /\ AnalysisJoinsOneDump' /\ ReportIsOfOneDump'
  BY <1>2 DEF IInv, Joined, AcceptedMetricsAreCurrent, MetricsAreOf, Accepted,
     AcceptedAnalysisIsCurrent, AnalysisJoinsOneDump, ReportIsOfOneDump,
     dump, mstore, astore, page
<1>5. stamps' \in {stamps, stamps + 1} => Stamped'
  <2>1. /\ mman # None => mman.stamp <= stamps + 1
        /\ aman # None => aman.hash.stamp <= stamps + 1
        /\ model # None => model.stamp <= stamps + 1
        /\ rankings \notin {None, Torn} => rankings.stamp <= stamps + 1
    BY StampTypes DEF IInv, Stamped
  <2> QED BY <1>2, <2>1 DEF IInv, Stamped, mstore, astore, page
<1>6. LabelsHeld' /\ Stamped' /\ LabelsAreNotOlderThanTheirReport'
  <2>1. /\ LabelsHeld /\ LabelsAreNotOlderThanTheirReport /\ l \in LabelsStates
        /\ UNCHANGED <<model, rankings, rman>>
    BY <1>2 DEF IInv, Held, Joined, Whole, LabelsPart, page
  <2>2. LIdle.pc = "idle"
    BY DEF LIdle
  <2>3. UNCHANGED lman => LabelsAreNotOlderThanTheirReport'
    BY <2>1 DEF LabelsAreNotOlderThanTheirReport
  <2>4. CASE OpenModel
    <3>1. /\ l'.pc = "rankings" /\ l'.model = model /\ rankings # None
          /\ UNCHANGED <<lman, stamps>>
      BY <2>4 DEF OpenModel, LIdle
    <3> QED BY <1>5, <2>1, <2>3, <3>1 DEF LabelsHeld
  <2>5. CASE ReadRankings
    <3>1. /\ l.pc = "rankings" /\ l'.pc = "hash" /\ l'.model = l.model
          /\ l'.rankings = rankings /\ UNCHANGED <<lman, stamps>>
      BY <2>1, <2>5 DEF ReadRankings, LabelsStates
    <3> QED BY <1>5, <2>1, <2>3, <3>1 DEF LabelsHeld
  <2>6. CASE HashReport
    <3>1. /\ l.pc = "hash" /\ l'.pc = "save" /\ l'.model = l.model
          /\ l'.rankings = l.rankings /\ l'.from = rman /\ UNCHANGED <<lman, stamps>>
      BY <2>1, <2>6 DEF HashReport, LabelsStates
    <3> QED BY <1>5, <2>1, <2>3, <3>1 DEF LabelsHeld
  <2>7. CASE ExportLabels
    <3>1. CASE l.pc \in {"save", "write"}
      <4>1. /\ l'.pc \in {"write", "manifest"} /\ l'.model = l.model
            /\ l'.rankings = l.rankings /\ l'.from = l.from /\ UNCHANGED <<lman, stamps>>
        BY <2>1, <2>7, <3>1 DEF ExportLabels, LabelsStates
      <4> QED BY <1>5, <2>1, <2>3, <3>1, <4>1 DEF LabelsHeld
    <3>2. CASE l.pc = "manifest"
      <4>1. /\ l' = LIdle /\ stamps' = stamps + 1
            /\ lman' = [model |-> l.model, rankings |-> l.rankings,
                        from |-> l.from, stamp |-> stamps + 1]
        BY <2>7, <3>2 DEF ExportLabels
      <4>2. /\ l.model = model /\ l.rankings = rankings /\ l.from = rman
        BY <2>1, <3>2 DEF LabelsHeld
      <4>3. LabelsAreNotOlderThanTheirReport'
        BY <4>1, <4>2 DEF IInv, WrittenInOrder, LabelsAreNotOlderThanTheirReport
      <4> QED BY <1>5, <2>2, <4>1, <4>3 DEF LabelsHeld
    <3> QED BY <2>7, <3>1, <3>2 DEF ExportLabels
  <2>8. CASE KillLabels
    BY <1>5, <2>2, <2>3, <2>8 DEF KillLabels, LabelsHeld
  <2> QED BY <2>4, <2>5, <2>6, <2>7, <2>8 DEF Labels
<1> QED BY <1>1, <1>3, <1>4, <1>6 DEF IInv, Held, Joined

\* and so does every step
LEMMA NextHeld == ASSUME IInv, ~Overlap, [Next]_vars PROVE IInv'
<1>1. CASE UNCHANGED vars
  <2>1. Whole'
    BY <1>1, NextWhole DEF IInv
  <2>2. OneAtATime' /\ HashedOnce' /\ Stamped' /\ WrittenInOrder'
    BY <1>1 DEF vars, IInv, OneAtATime, HashedOnce, Stamped, WrittenInOrder
  <2>3. MetricsHeld' /\ AnalysisHeld' /\ ReportHeld' /\ LabelsHeld'
    BY <1>1 DEF vars, IInv, Held, MetricsHeld, AnalysisHeld, Accepted, ReportHeld,
       LabelsHeld
  <2>4. PageHeld'
    BY <1>1 DEF vars, IInv, Held, PageHeld, PageOfOneDump, Seen
  <2>5. Joined'
    BY <1>1 DEF vars, IInv, Joined, AcceptedMetricsAreCurrent, MetricsAreOf, Accepted,
       AcceptedAnalysisIsCurrent, AnalysisJoinsOneDump, ReportIsOfOneDump,
       LabelsAreNotOlderThanTheirReport
  <2> QED BY <2>1, <2>2, <2>3, <2>4, <2>5 DEF IInv, Held
<1> QED BY <1>1, DumpHeld, MetricsKeepHeld, AnalysisKeepsHeld, ReportKeepsHeld,
        LabelsKeepHeld DEF Next

\* commands that do not overlap keep the invariant
LEMMA Sequential == ASSUME ~Overlap PROVE Spec => []IInv
<1> HIDE DEF IInv
<1>1. IInv /\ [Next]_vars => IInv'
  BY NextHeld
<1> QED BY <1>1, InitHeld, PTL DEF Spec

-----------------------------------------------------------------------------
(* The theorems about commands that run one after the other.               *)

\* What verify_source_dump and load_analysis accept is whole and current: the
\* metrics are those of the rows of today, and the analysis joined the items of
\* today with them, whatever was killed before.
THEOREM AcceptedIsCurrent == ASSUME ~Overlap PROVE Spec => []AcceptedStoresAreCurrent
<1>1. IInv => AcceptedStoresAreCurrent
  BY WholeIsTyped DEF IInv, Joined, AcceptedStoresAreCurrent
<1> HIDE DEF IInv
<1> QED BY <1>1, Sequential, PTL

\* An analysis fragment and a report with a gallery join stores of one dump.
THEOREM OneDumpJoins == ASSUME ~Overlap PROVE Spec => []JoinsAreOfOneDump
<1>1. IInv => JoinsAreOfOneDump
  BY DEF IInv, Joined, JoinsAreOfOneDump
<1> HIDE DEF IInv
<1> QED BY <1>1, Sequential, PTL

\* Labels are made of files at least as new as the report that they name.
THEOREM LabelsFollowReport ==
    ASSUME ~Overlap PROVE Spec => []LabelsAreNotOlderThanTheirReport
<1>1. IInv => LabelsAreNotOlderThanTheirReport
  BY DEF IInv, Joined
<1> HIDE DEF IInv
<1> QED BY <1>1, Sequential, PTL

-----------------------------------------------------------------------------
(* The refinement.  A step changes what a loader can get to nothing, to    *)
(* the rows of today, or not at all.                                       *)

Copy == IF told /\ Accepted THEN mman.excl ELSE None

\* a change of the rows takes the copy out of use, whoever makes it
LEMMA CopyStep ==
    ASSUME IInv, IInv', ~Overlap, [Next]_vars
    PROVE  [SnapshotOfRows!Next]_<<rows, Copy>>
<1>1. rows \in Versions /\ rows' \in Versions /\ None \notin Versions
  BY NothingAssumption DEF IInv, Whole, DumpPart, Versions
<1>2. (told /\ Accepted)' => Copy' = rows'
  BY DEF IInv, Joined, AcceptedMetricsAreCurrent, MetricsAreOf, Copy
<1>3. told /\ Accepted => Copy = rows
  BY DEF IInv, Joined, AcceptedMetricsAreCurrent, MetricsAreOf, Copy
<1>4. CASE rows' # rows
  <2>1. Dump
    BY <1>4 DEF Next, Metrics, ReadDump, Summarise, SaveMetrics, KillMetrics,
       Analysis, OpenMetrics, LoadMetrics, VerifySourceDump, ReadItems,
       SaveAnalysis, KillAnalysis, Report, OpenReport, LoadForReport,
       OpenAnalysis, LoadAnalysis, VerifySourceMetrics, Assemble, LinkAssets,
       ExportModel, ExportRankings, RenderReport, KillReport, Labels, OpenModel,
       ReadRankings, HashReport, ExportLabels, KillLabels, dump, vars
  <2>2. ~(told /\ Accepted)'
    BY <1>4, <2>1, DumpHashes DEF IInv
  <2>3. Copy' = None
    BY <2>2 DEF Copy
  <2> QED BY <1>1, <1>4, <2>3
          DEF SnapshotOfRows!Next, SnapshotOfRows!Change, Copy
<1>5. CASE rows' = rows
  <2>1. CASE (told /\ Accepted)'
    BY <1>2, <1>5, <2>1 DEF SnapshotOfRows!Next, SnapshotOfRows!Refresh, Copy
  <2>2. CASE ~(told /\ Accepted)'
    BY <1>5, <2>2 DEF SnapshotOfRows!Next, SnapshotOfRows!Drop, Copy
  <2> QED BY <2>1, <2>2
<1> QED BY <1>4, <1>5

\* What a loader gets out of the metrics store is what Snapshot promises:
\* nothing, or what was computed from the rows as they are now.
THEOREM MetricsImplementSnapshot == ASSUME ~Overlap PROVE Spec => ImplementsSnapshot
<1>1. Init => SnapshotOfRows!Init
  BY Bounds DEF Init, SnapshotOfRows!Init, Accepted, Versions
<1>2. IInv /\ IInv' /\ [Next]_vars => [SnapshotOfRows!Next]_SnapshotOfRows!vars
  BY CopyStep DEF Copy, SnapshotOfRows!vars
<1> HIDE DEF IInv
<1> QED BY <1>1, <1>2, Sequential, PTL
        DEF ImplementsSnapshot, SnapshotOfRows!Spec, Spec
=============================================================================
