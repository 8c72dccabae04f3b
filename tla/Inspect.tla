------------------------------ MODULE Inspect ------------------------------
(***************************************************************************)
(* The readers that take no lock.  DumpReader (ssat/core/dump/reader.py),  *)
(* as inspect and the tail of rebuild_index call it                        *)
(* (ssat/application/_dump_service.py), and ResumeIndex.open, as the       *)
(* estimate of prepare_run calls it (ssat/application/_run_service.py),    *)
(* run here beside everything AuditDump lets a writer, a rebuild, a kill,  *)
(* an I/O error or a removed fragment do.                                  *)
(*                                                                         *)
(* A reader makes several passes.  Each pass lists one directory once and  *)
(* then opens the listed files one by one, in ordinal order.               *)
(***************************************************************************)
EXTENDS AuditDump, Sequences

VARIABLES
    kind,       \* "inspect" or "estimate"
    passes,     \* the passes still to make, the current one first
    left,       \* files of the current pass still to open, or Unlisted
    told,       \* "idle", "missing", "reading", "ok", "error" or "estimated"
    cloc, iloc, \* load_clean_locations, load_index_locations
    crow, irow, \* the selected rows: identifier to status
    counts,     \* counts_by_status of the manifest inspect read first
    pending,    \* the pending items and samples of the estimate
    snapC, snapI,   \* history: what was on disk when the pass was listed
    alone,      \* history: no command was running at any listing
    meanwhile   \* history: "quiet", "written" or "removed" since the start

registers == <<cloc, iloc, crow, irow, counts, snapC, snapI>>
reader == <<kind, passes, left, told, pending, registers, alone>>
allVars == <<vars, reader, meanwhile>>

Unlisted == {-1}
Nowhere == [ord |-> -1, status |-> Absent]
Located == [ord: Ordinals, status: Statuses] \cup {Nowhere}
Kinds == {"inspect", "estimate"}
Script(k) == IF k = "inspect"
             THEN <<"clean_loc", "clean_rows", "index_loc", "data_rows">>
             ELSE <<"index_loc", "clean_loc">>

Empty == [cloc |-> [s \in Samples |-> Nowhere], crow |-> NoSamples,
          iloc |-> [i \in Items |-> Nowhere], irow |-> NoItems]
InitInspect ==
    /\ Init
    /\ kind = "inspect" /\ passes = << >> /\ left = Unlisted /\ told = "idle"
    /\ cloc = Empty.cloc /\ iloc = Empty.iloc
    /\ crow = Empty.crow /\ irow = Empty.irow
    /\ counts = NoManifest.counts /\ pending = [items |-> {}, samples |-> {}]
    /\ snapC = NoSamples /\ snapI = NoItems
    /\ alone = TRUE /\ meanwhile = "quiet"

-----------------------------------------------------------------------------
\* load_manifest: without a manifest there is nothing to read
OpenReader(k) ==
    /\ told = "idle"
    /\ kind' = k /\ passes' = Script(k)
    /\ told' = IF manifest.exists THEN "reading" ELSE "missing"
    /\ counts' = IF k = "inspect" THEN manifest.counts ELSE NoManifest.counts
    /\ meanwhile' = IF pc = "down" /\ exit \in {"closed", "rebuilt"} /\ ~damaged
                    THEN "quiet" ELSE "written"
    /\ UNCHANGED <<vars, left, pending, cloc, iloc, crow, irow, snapC, snapI,
                   alone>>

Directory(pass) ==
    CASE pass \in {"clean_loc", "clean_rows"} -> Published(clean)
      [] pass = "index_loc" -> Published(index)
      [] pass = "data_rows" -> Published(chunk)

\* fragment_files
ListFiles ==
    /\ told = "reading" /\ left = Unlisted
    /\ left' = Directory(Head(passes))
    /\ snapC' = IF Head(passes) = "clean_loc" THEN CleanLocations ELSE snapC
    /\ snapI' = IF Head(passes) = "index_loc" THEN IndexLocations ELSE snapI
    /\ alone' = (alone /\ (kind = "inspect" \/ pc = "down"))
    /\ UNCHANGED <<vars, kind, passes, told, pending, cloc, iloc, crow, irow,
                   counts, meanwhile>>

Overlay(loc, rows, n) ==
    [i \in DOMAIN loc |-> IF rows[i] # Absent
                          THEN [ord |-> n, status |-> rows[i]] ELSE loc[i]]
\* faulty: the last row of an identifier is taken, indexed or not
SelectAny(got, rows, loc, n) ==
    [i \in DOMAIN got |-> IF rows[i] # Absent THEN rows[i] ELSE got[i]]
\* a row is selected from the fragment its location names
Select(got, rows, loc, n) ==
    [i \in DOMAIN got |-> IF loc[i].ord = n THEN rows[i] ELSE got[i]]

ReadClean(n) ==
    /\ IF Head(passes) = "clean_loc"
       THEN cloc' = Overlay(cloc, clean[n], n) /\ crow' = crow
       ELSE crow' = Select(crow, clean[n], cloc, n) /\ cloc' = cloc
    /\ UNCHANGED <<told, iloc, irow>>

\* the part may have been unlinked since it was listed, its data be gone
ReadIndexPart(n) ==
    /\ Head(passes) = "index_loc"
    /\ IF index[n] = NoItems \/ chunk[n] = NoItems
       THEN told' = "error" /\ iloc' = iloc
       ELSE iloc' = Overlay(iloc, index[n], n) /\ told' = told
    /\ UNCHANGED <<cloc, crow, irow>>

Disagrees(n) == \E i \in Items : /\ chunk[n][i] # Absent /\ iloc[i].ord = n
                                 /\ iloc[i].status # chunk[n][i]
ReadData(n) ==
    /\ Head(passes) = "data_rows"
    /\ IF chunk[n] = NoItems \/ Disagrees(n)
       THEN told' = "error" /\ irow' = irow
       ELSE irow' = Select(irow, chunk[n], iloc, n) /\ told' = told
    /\ UNCHANGED <<cloc, crow, iloc>>

ReadFile ==
    /\ told = "reading" /\ left # Unlisted
    /\ \E n \in left :
          /\ \A m \in left : n <= m
          /\ left' = left \ {n}
          /\ \/ Head(passes) \in {"clean_loc", "clean_rows"} /\ ReadClean(n)
             \/ ReadIndexPart(n)
             \/ ReadData(n)
    /\ UNCHANGED <<vars, kind, passes, pending, counts, snapC, snapI, alone,
                   meanwhile>>

\* a located row that no fragment yielded is an inconsistency
Unseen == \/ /\ Head(passes) = "clean_rows"
             /\ \E s \in Samples : cloc[s] # Nowhere /\ crow[s] = Absent
          \/ /\ Head(passes) = "data_rows"
             /\ \E i \in Items : iloc[i] # Nowhere /\ irow[i] = Absent
EndPass ==
    /\ told = "reading" /\ left = {}
    /\ left' = Unlisted /\ passes' = Tail(passes)
    /\ told' = IF Unseen THEN "error"
               ELSE IF Len(passes) = 1 THEN "ok" ELSE "reading"
    /\ UNCHANGED <<vars, kind, pending, registers, alone, meanwhile>>

\* what inspect reports
ManifestCountsMatch == counts = AuthoritativeCounts(crow, irow)

\* CostEstimator keeps the pending work, the resume index is dropped
Status(loc) == [i \in DOMAIN loc |-> loc[i].status]
Estimate ==
    /\ told = "ok" /\ kind = "estimate"
    /\ told' = "estimated"
    /\ pending' = [items |-> UNION PendingChunks(Status(iloc)),
                   samples |-> PendingSamples(Status(cloc))]
    /\ cloc' = Empty.cloc /\ crow' = Empty.crow
    /\ iloc' = Empty.iloc /\ irow' = Empty.irow
    /\ counts' = NoManifest.counts /\ snapC' = NoSamples /\ snapI' = NoItems
    /\ UNCHANGED <<vars, kind, passes, left, alone, meanwhile>>

-----------------------------------------------------------------------------
Reading == (\E k \in Kinds : OpenReader(k)) \/ ListFiles \/ ReadFile \/ EndPass
           \/ Estimate

\* BOUND: what a dump does after an inspection ended is AuditDump's matter
Ended == told \in {"missing", "error", "ok"}
Rest == Ended /\ UNCHANGED allVars

DumpStep ==
    /\ Next /\ ~Ended
    /\ meanwhile' = IF told = "idle" THEN "quiet"
                    ELSE IF told = "estimated" THEN "written"
                    ELSE IF Published(chunk) \ Published(chunk') # {}
                    THEN "removed"
                    ELSE IF meanwhile = "quiet" /\ disk' # disk
                    THEN "written" ELSE meanwhile
    /\ UNCHANGED reader

InspectSpec == InitInspect /\ [][DumpStep \/ Reading \/ Rest]_allVars

-----------------------------------------------------------------------------
\* Every variable of the reader holds a value of its type, and a reader that
\* listed a directory never waits for a file the directory cannot hold.
ReaderTypeOK ==
    /\ kind \in Kinds /\ told \in {"idle", "missing", "reading", "ok", "error", "estimated"}
    /\ \E k \in Kinds, n \in 1..5 : passes = SubSeq(Script(k), n, Len(Script(k)))
    /\ left = Unlisted \/ left \subseteq Ordinals
    /\ cloc \in [Samples -> Located] /\ iloc \in [Items -> Located]
    /\ crow \in CleanRows /\ irow \in ItemRows
    /\ counts \in [Statuses -> Nat]
    /\ pending.items \subseteq Items /\ pending.samples \subseteq Samples
    /\ snapC \in CleanRows /\ snapI \in ItemRows
    /\ alone \in BOOLEAN /\ meanwhile \in {"quiet", "written", "removed"}

\* A reader that ends without an error returns, for each of the two sections,
\* the latest rows of one moment (the listing of its locations), however many
\* flushes, orphans, kills and rebuilds happen between the opening of two
\* files: never a superseded row, a row without an index entry, or a
\* mixture of a dump before and after a flush.  (Where a fragment was removed
\* from outside, its ordinal may be unlinked by a rebuild and used again
\* between the listing and the opening of one file.)
RowsAreASnapshot ==
    told = "ok" /\ ~damaged
    => /\ Status(cloc) = snapC /\ Status(iloc) = snapI
       /\ kind = "inspect" => crow = snapC /\ irow = snapI

\* No reader reports a corrupt dump only because a run or a rebuild works on
\* it: data is published before its index part, a rebuild recreates parts in
\* place and unlinks none that has its data.
UndamagedReadsSucceed ==
    told = "error" => damaged \/ meanwhile = "removed"

\* manifest_counts_match is true of a dump at rest: its last command ended,
\* nothing was removed, and no command published anything while inspect read.
CountsOfADumpAtRestMatch ==
    told = "ok" /\ kind = "inspect" /\ meanwhile = "quiet" => ManifestCountsMatch

\* What the estimate found pending before the fingerprint was taken covers
\* what any later run finds pending: without retry_failed, a result that was
\* read never becomes pending again, so a run is never larger than the
\* estimate its user confirmed.
EstimateCoversTheRun ==
    told = "estimated" /\ ~RetryFailed
    => /\ PendingSamples(CleanLocations) \subseteq pending.samples
       /\ ~damaged => UNION PendingChunks(IndexLocations) \subseteq pending.items

\* Repeating the command on a complete dump does not repeat the work
\* (docs/TUTORIAL.md): where the estimate found nothing pending in directories
\* it listed while no command was running, no run that follows publishes another fragment.
EmptyEstimateIsFinal ==
    [][told = "estimated" /\ alone /\ ~RetryFailed /\ ~damaged'
         /\ pending.items = {} /\ pending.samples = {}
       => Published(chunk') \subseteq Published(chunk) /\ clean' = clean]_allVars

\* What a reader returns is one moment of the dump (inspect_dump, DumpReader):
\* its rows are a snapshot, its counts match a dump at rest, and nothing that
\* runs beside it makes it refuse an undamaged dump.
ReadsAreOfOneMoment ==
    /\ ReaderTypeOK /\ RowsAreASnapshot
    /\ UndamagedReadsSucceed /\ CountsOfADumpAtRestMatch
=============================================================================
