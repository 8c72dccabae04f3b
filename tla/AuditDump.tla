----------------------------- MODULE AuditDump -----------------------------
(***************************************************************************)
(* The raw audit dump: DumpWriter (ssat/core/dump/writer.py), the index    *)
(* and storage helpers it shares with its readers, the resume filter and   *)
(* rebuild of ssat/core/resume/index.py, and the part of run_audit and     *)
(* execute_run that decides what is written and how the writer is closed.  *)
(*                                                                         *)
(* Every durable publication (os.replace of one file) is a step of its     *)
(* own; between two of them the process may be killed, and each of them    *)
(* may raise with the file in place or not.  The output lock admits one    *)
(* writer or rebuilder at a time, so one program counter serves both.      *)
(*                                                                         *)
(* A fragment file is a function from identifiers to statuses, Absent for  *)
(* an identifier without a row.  No file is ever written without rows, so  *)
(* the function that is Absent everywhere stands for a missing file.       *)
(***************************************************************************)
EXTENDS Integers, FiniteSets

CONSTANTS
    Items,        \* item_id of every perturbed work item of the plan
    Samples,      \* sample_id of every clean sample of the plan
    Chunks,       \* the work chunks: a set of sets of Items
    Statuses,     \* ItemStatus
    OK,           \* ItemStatus.OK
    Absent,       \* no row for this identifier
    FlushEvery,   \* config.dump.flush_every
    RetryFailed,  \* config.runtime.retry_failed
    MaxOrd,       \* bound: the highest fragment ordinal
    MaxFaults     \* bound: crashes, I/O errors, lost files and early stops

ASSUME PlanAssumption ==
    /\ IsFiniteSet(Items) /\ IsFiniteSet(Samples) /\ Items \cap Samples = {}
    /\ Chunks \subseteq SUBSET Items
    /\ UNION Chunks = Items
ASSUME StatusAssumption == OK \in Statuses /\ Absent \notin Statuses
ASSUME ConfigAssumption == FlushEvery \in Nat \ {0} /\ RetryFailed \in BOOLEAN
ASSUME BoundAssumption == MaxOrd \in Nat /\ MaxFaults \in Nat

VARIABLES
    made,       \* the dump root exists and is not empty
    manifest,   \* run_manifest.json
    clean,      \* clean/part_N.parquet
    chunk,      \* perturbed/chunk_N.parquet
    index,      \* index/part_N.parquet
    pc,         \* where the holder of the output lock is
    after,      \* what the running flush returns to
    cbuf, pbuf,     \* DumpWriter._clean_buffer, _perturbed_buffer
    cstat, istat,   \* DumpWriter._clean_statuses, _item_statuses
    cord, pord,     \* DumpWriter._clean_ordinal, _perturbed_ordinal
    todoC, todoP,   \* pending samples and items this run has still to record
    scan,       \* ordinals the rebuild has still to visit
    exit,       \* how the last lock holder ended
    damaged,    \* an indexed data fragment was once removed from outside
    faults      \* faults so far (bounded by MaxFaults)

disk == <<made, manifest, clean, chunk, index>>
writer == <<cbuf, pbuf, cstat, istat, cord, pord>>
work == <<todoC, todoP>>
vars == <<made, manifest, clean, chunk, index, pc, after, cbuf, pbuf, cstat,
          istat, cord, pord, todoC, todoP, scan, exit, damaged, faults>>

-----------------------------------------------------------------------------
(* Files, fragments and the latest-row maps built from them.               *)

Ordinals == 0..MaxOrd
Recorded == Statuses \cup {Absent}
NoRows(ids) == [i \in ids |-> Absent]
NoItems == NoRows(Items)
NoSamples == NoRows(Samples)
Rows(f) == {i \in DOMAIN f : f[i] # Absent}
Published(files) == {n \in Ordinals : Rows(files[n]) # {}}

\* dict.update: the rows of g replace those of f
Merge(f, g) == [i \in DOMAIN f |-> IF g[i] # Absent THEN g[i] ELSE f[i]]

Holding(files, i) == {n \in Ordinals : files[n][i] # Absent}
LatestOrd(files, i) == CHOOSE n \in Holding(files, i) :
                          \A m \in Holding(files, i) : m <= n
\* fragments are read in ordinal order, later rows overwrite earlier ones
Latest(files, ids) ==
    [i \in ids |-> IF Holding(files, i) = {} THEN Absent
                   ELSE files[LatestOrd(files, i)][i]]
CleanLocations == Latest(clean, Samples)
IndexLocations == Latest(index, Items)

\* every index part must reference an existing data fragment
Loadable == Published(index) \subseteq Published(chunk)

IsNextOrdinal(files, n) ==
    /\ \A m \in Published(files) : m < n
    /\ n = 0 \/ n - 1 \in Published(files)

AuthoritativeCounts(c, p) ==
    [s \in Statuses |-> Cardinality({i \in Samples : c[i] = s})
                          + Cardinality({i \in Items : p[i] = s})]
NoManifest == [exists |-> FALSE, finished |-> FALSE,
               counts |-> [s \in Statuses |-> 0]]
NewManifest == [NoManifest EXCEPT !.exists = TRUE]
SessionManifest(c, p) == [exists |-> TRUE, finished |-> FALSE,
                          counts |-> AuthoritativeCounts(c, p)]

-----------------------------------------------------------------------------
(* The resume filter.                                                      *)

\* faulty: a partly recorded chunk counts as done
UntouchedChunks(p) == {c \in Chunks : \A i \in c : p[i] = Absent}

PendingChunks(p) ==
    {c \in Chunks : \/ \E i \in c : p[i] = Absent
                    \/ RetryFailed /\ \E i \in c : p[i] # OK}
PendingSamples(c) ==
    {s \in Samples : c[s] = Absent \/ (RetryFailed /\ c[s] # OK)}

-----------------------------------------------------------------------------
(* Control flow of a flush and of the close that follows it.               *)

FilePcs == {"create_manifest", "resume_manifest", "clean_file", "clean_counts",
            "data_file", "index_file", "item_counts", "close_ok", "close_bad",
            "rebuild_index", "rebuild_unlink", "rebuild_manifest"}
Pcs == FilePcs \cup {"down", "select", "running"}
Afters == {"running", "finish", "stop", "abort"}

ClosePc(a) == CASE a = "running" -> "running"
                [] a = "finish" -> "close_ok"
                [] OTHER -> "close_bad"
\* faulty: a buffer is flushed only when it is full
FullBufferPc(pb, a) == IF Cardinality(Rows(pb)) >= FlushEvery
                       THEN "data_file" ELSE ClosePc(a)
PerturbedPc(pb, a) == IF Rows(pb) # {} THEN "data_file" ELSE ClosePc(a)
FlushPc(cb, pb, a) == IF Rows(cb) # {} THEN "clean_file" ELSE PerturbedPc(pb, a)

Cleared ==
    /\ cbuf' = NoSamples /\ pbuf' = NoItems
    /\ cstat' = NoSamples /\ istat' = NoItems
    /\ cord' = 0 /\ pord' = 0
    /\ todoC' = {} /\ todoP' = {}
    /\ scan' = {} /\ after' = "running"
Release(how) == pc' = "down" /\ exit' = how /\ Cleared
MayFault == faults < MaxFaults /\ faults' = faults + 1

Init ==
    /\ made = FALSE /\ manifest = NoManifest
    /\ clean = [n \in Ordinals |-> NoSamples]
    /\ chunk = [n \in Ordinals |-> NoItems]
    /\ index = [n \in Ordinals |-> NoItems]
    /\ pc = "down" /\ after = "running"
    /\ cbuf = NoSamples /\ pbuf = NoItems
    /\ cstat = NoSamples /\ istat = NoItems
    /\ cord = 0 /\ pord = 0
    /\ todoC = {} /\ todoP = {}
    /\ scan = {} /\ exit = "none" /\ damaged = FALSE /\ faults = 0

-----------------------------------------------------------------------------
(* Opening the writer and selecting the work.                              *)

StartCreate ==
    /\ pc = "down" /\ ~made
    /\ made' = TRUE /\ pc' = "create_manifest"
    /\ UNCHANGED <<manifest, clean, chunk, index, after, writer, work, scan,
                   exit, damaged, faults>>

CreateManifest ==
    /\ pc = "create_manifest"
    /\ manifest' = NewManifest /\ pc' = "select"
    /\ UNCHANGED <<made, clean, chunk, index, after, writer, work, scan, exit,
                   damaged, faults>>

\* BOUND: a run is started only where its fragments fit below MaxOrd
HasRoom(c, p) == /\ c + Cardinality(Samples) <= MaxOrd + 1
                 /\ p + Cardinality(Items) <= MaxOrd

\* faulty: the next ordinal is looked up among the index parts
ResumeByIndex ==
    /\ pc = "down" /\ manifest.exists /\ Loadable
    /\ \E c, p \in 0..MaxOrd + 1 :
          /\ IsNextOrdinal(clean, c) /\ IsNextOrdinal(index, p)
          /\ HasRoom(c, p)
          /\ cord' = c /\ pord' = p
    /\ cstat' = CleanLocations /\ istat' = IndexLocations
    /\ pc' = "resume_manifest"
    /\ UNCHANGED <<disk, after, cbuf, pbuf, work, scan, exit, damaged, faults>>

StartResume ==
    /\ pc = "down" /\ manifest.exists /\ Loadable
    /\ \E c, p \in 0..MaxOrd + 1 :
          /\ IsNextOrdinal(clean, c) /\ IsNextOrdinal(chunk, p)
          /\ HasRoom(c, p)
          /\ cord' = c /\ pord' = p
    /\ cstat' = CleanLocations /\ istat' = IndexLocations
    /\ pc' = "resume_manifest"
    /\ UNCHANGED <<disk, after, cbuf, pbuf, work, scan, exit, damaged, faults>>

ResumeManifest ==
    /\ pc = "resume_manifest"
    /\ manifest' = SessionManifest(cstat, istat) /\ pc' = "select"
    /\ UNCHANGED <<made, clean, chunk, index, after, writer, work, scan, exit,
                   damaged, faults>>

\* faulty: failures are retried whether or not retry_failed is set
SelectFailed ==
    /\ pc = "select"
    /\ todoC' = {s \in Samples : CleanLocations[s] # OK}
    /\ todoP' = {i \in Items : IndexLocations[i] # OK}
    /\ pc' = "running"
    /\ UNCHANGED <<disk, after, writer, scan, exit, damaged, faults>>

\* ResumeIndex.open reads the same files the writer has just read
SelectWork ==
    /\ pc = "select"
    /\ todoC' = PendingSamples(CleanLocations)
    /\ todoP' = UNION PendingChunks(IndexLocations)
    /\ pc' = "running"
    /\ UNCHANGED <<disk, after, writer, scan, exit, damaged, faults>>

-----------------------------------------------------------------------------
(* The run: every pending result is recorded once, clean results first.    *)

WriteClean(s, st) ==
    /\ pc = "running" /\ s \in todoC
    /\ cbuf' = [cbuf EXCEPT ![s] = st]
    /\ todoC' = todoC \ {s}
    /\ pc' = IF Cardinality(Rows(cbuf')) >= FlushEvery
             THEN "clean_file" ELSE "running"
    /\ UNCHANGED <<disk, after, pbuf, cstat, istat, cord, pord, todoP, scan,
                   exit, damaged, faults>>

WritePerturbed(i, st) ==
    /\ pc = "running" /\ todoC = {} /\ i \in todoP
    /\ pbuf' = [pbuf EXCEPT ![i] = st]
    /\ todoP' = todoP \ {i}
    /\ pc' = IF Cardinality(Rows(pbuf')) >= FlushEvery
             THEN "data_file" ELSE "running"
    /\ UNCHANGED <<disk, after, cbuf, cstat, istat, cord, pord, todoC, scan,
                   exit, damaged, faults>>

\* all pending work is recorded: the final flush of run_audit
EndOfWork ==
    /\ pc = "running" /\ todoC = {} /\ todoP = {}
    /\ after' = "finish" /\ pc' = FlushPc(cbuf, pbuf, "finish")
    /\ UNCHANGED <<disk, writer, work, scan, exit, damaged, faults>>

\* cancellation or fail-fast flushes, then raises ("stop"); any other
\* exception goes straight to close(success=False) ("abort"), one raised
\* while the resume index is opened included
Stop(a) ==
    /\ \/ pc = "running" /\ a \in {"stop", "abort"}
       \/ pc = "select" /\ a = "abort"
    /\ MayFault
    /\ after' = a /\ pc' = FlushPc(cbuf, pbuf, a)
    /\ UNCHANGED <<disk, writer, work, scan, exit, damaged>>

-----------------------------------------------------------------------------
(* Flushing, one durable publication per step, and closing.                *)

\* faulty: the flush of the clean buffer clears both
PublishCleanClearingBoth ==
    /\ pc = "clean_file" /\ cord \in Ordinals
    /\ clean' = [clean EXCEPT ![cord] = cbuf]
    /\ cord' = cord + 1
    /\ cbuf' = NoSamples /\ pbuf' = NoItems
    /\ cstat' = Merge(cstat, cbuf)
    /\ pc' = "clean_counts"
    /\ UNCHANGED <<made, manifest, chunk, index, after, istat, pord, work, scan,
                   exit, damaged, faults>>

PublishClean ==
    /\ pc = "clean_file" /\ cord \in Ordinals
    /\ clean' = [clean EXCEPT ![cord] = cbuf]
    /\ cord' = cord + 1
    /\ cbuf' = NoSamples
    /\ cstat' = Merge(cstat, cbuf)
    /\ pc' = "clean_counts"
    /\ UNCHANGED <<made, manifest, chunk, index, after, pbuf, istat, pord, work,
                   scan, exit, damaged, faults>>

CleanCounts ==
    /\ pc = "clean_counts"
    /\ manifest' = SessionManifest(cstat, istat)
    /\ pc' = IF after = "running" THEN "running" ELSE PerturbedPc(pbuf, after)
    /\ UNCHANGED <<made, clean, chunk, index, after, writer, work, scan, exit,
                   damaged, faults>>

PublishData ==
    /\ pc = "data_file" /\ pord \in Ordinals
    /\ chunk' = [chunk EXCEPT ![pord] = pbuf]
    /\ pord' = pord + 1
    /\ pc' = "index_file"
    /\ UNCHANGED <<made, manifest, clean, index, after, cbuf, pbuf, cstat, istat,
                   cord, work, scan, exit, damaged, faults>>

\* faulty: the index part repeats the rows of earlier fragments
PublishIndexOfAll ==
    /\ pc = "index_file"
    /\ index' = [index EXCEPT ![pord - 1] = Merge(istat, pbuf)]
    /\ pbuf' = NoItems
    /\ istat' = Merge(istat, pbuf)
    /\ pc' = "item_counts"
    /\ UNCHANGED <<made, manifest, clean, chunk, after, cbuf, cstat, cord, pord,
                   work, scan, exit, damaged, faults>>
\* faulty: an item keeps its first status in memory
PublishIndexKeepingFirst ==
    /\ pc = "index_file"
    /\ index' = [index EXCEPT ![pord - 1] = pbuf]
    /\ pbuf' = NoItems
    /\ istat' = Merge(pbuf, istat)
    /\ pc' = "item_counts"
    /\ UNCHANGED <<made, manifest, clean, chunk, after, cbuf, cstat, cord, pord,
                   work, scan, exit, damaged, faults>>

PublishIndex ==
    /\ pc = "index_file"
    /\ index' = [index EXCEPT ![pord - 1] = pbuf]
    /\ pbuf' = NoItems
    /\ istat' = Merge(istat, pbuf)
    /\ pc' = "item_counts"
    /\ UNCHANGED <<made, manifest, clean, chunk, after, cbuf, cstat, cord, pord,
                   work, scan, exit, damaged, faults>>

ItemCounts ==
    /\ pc = "item_counts"
    /\ manifest' = SessionManifest(cstat, istat)
    /\ pc' = ClosePc(after)
    /\ UNCHANGED <<made, clean, chunk, index, after, writer, work, scan, exit,
                   damaged, faults>>

Close(success) ==
    /\ pc = IF success THEN "close_ok" ELSE "close_bad"
    /\ manifest' = [SessionManifest(cstat, istat) EXCEPT !.finished = success]
    /\ Release("closed")
    /\ UNCHANGED <<made, clean, chunk, index, damaged, faults>>

-----------------------------------------------------------------------------
(* rebuild_index: recreate the index parts from the data fragments.        *)

\* faulty: the index is removed before it is rebuilt
RebuildFromNothing ==
    /\ pc = "down" /\ manifest.exists
    /\ pc' = "rebuild_index" /\ scan' = Published(chunk)
    /\ index' = [n \in Ordinals |-> NoItems]
    /\ UNCHANGED <<made, manifest, clean, chunk, after, writer, work, exit,
                   damaged, faults>>

StartRebuild ==
    /\ pc = "down" /\ manifest.exists
    /\ pc' = "rebuild_index" /\ scan' = Published(chunk)
    /\ UNCHANGED <<disk, after, writer, work, exit, damaged, faults>>

RebuildPart ==
    /\ pc = "rebuild_index"
    /\ \E n \in scan : /\ \A m \in scan : n <= m
                       /\ index' = [index EXCEPT ![n] = chunk[n]]
                       /\ scan' = scan \ {n}
    /\ UNCHANGED <<made, manifest, clean, chunk, pc, after, writer, work, exit,
                   damaged, faults>>

\* faulty: every index part is taken for a stale one
RebuildAllStale ==
    /\ pc = "rebuild_index" /\ scan = {}
    /\ pc' = "rebuild_unlink" /\ scan' = Published(index)
    /\ UNCHANGED <<disk, after, writer, work, exit, damaged, faults>>

RebuildParted ==
    /\ pc = "rebuild_index" /\ scan = {}
    /\ pc' = "rebuild_unlink" /\ scan' = Published(index) \ Published(chunk)
    /\ UNCHANGED <<disk, after, writer, work, exit, damaged, faults>>

RebuildUnlink ==
    /\ pc = "rebuild_unlink"
    /\ \E n \in scan : /\ \A m \in scan : n <= m
                       /\ index' = [index EXCEPT ![n] = NoItems]
                       /\ scan' = scan \ {n}
    /\ UNCHANGED <<made, manifest, clean, chunk, pc, after, writer, work, exit,
                   damaged, faults>>

RebuildUnlinked ==
    /\ pc = "rebuild_unlink" /\ scan = {}
    /\ pc' = "rebuild_manifest"
    /\ UNCHANGED <<disk, after, writer, work, scan, exit, damaged, faults>>

RebuildManifest ==
    /\ pc = "rebuild_manifest"
    /\ manifest' = [manifest EXCEPT
          !.counts = AuthoritativeCounts(CleanLocations, IndexLocations)]
    /\ Release("rebuilt")
    /\ UNCHANGED <<made, clean, chunk, index, damaged, faults>>

-----------------------------------------------------------------------------
(* Faults.                                                                 *)

\* The process is killed; what it had published stays.
Crash ==
    /\ pc # "down" /\ MayFault
    /\ Release("killed")
    /\ UNCHANGED <<disk, damaged>>

\* A publication raises: before os.replace (the file is not there) or in
\* the directory fsync after it (the file is there); memory is not updated.
FailedWrite(there) ==
    /\ clean' = IF pc = "clean_file" /\ there
                THEN [clean EXCEPT ![cord] = cbuf] ELSE clean
    /\ chunk' = IF pc = "data_file" /\ there
                THEN [chunk EXCEPT ![pord] = pbuf] ELSE chunk
    /\ index' = IF pc = "index_file" /\ there
                THEN [index EXCEPT ![pord - 1] = pbuf] ELSE index
    /\ manifest' = IF pc \in {"clean_counts", "item_counts"} /\ there
                   THEN SessionManifest(cstat, istat) ELSE manifest
    /\ UNCHANGED made

FlushPcs == {"clean_file", "clean_counts", "data_file", "index_file",
             "item_counts"}

\* raised in run_audit: execute_run still closes the writer
FlushError(there) ==
    /\ pc \in FlushPcs /\ after # "abort" /\ MayFault
    /\ pc = "clean_file" => cord \in Ordinals
    /\ pc = "data_file" => pord \in Ordinals
    /\ FailedWrite(there)
    /\ after' = "abort" /\ pc' = FlushPc(cbuf, pbuf, "abort")
    /\ UNCHANGED <<writer, work, scan, exit, damaged>>

\* raised in close(success=False): nothing is left to close the writer
CloseFlushError(there) ==
    /\ pc \in FlushPcs /\ after = "abort" /\ MayFault
    /\ pc = "clean_file" => cord \in Ordinals
    /\ pc = "data_file" => pord \in Ordinals
    /\ FailedWrite(there)
    /\ Release("failed")
    /\ UNCHANGED damaged

\* raised while publishing the manifest outside a flush, or by a rebuild
ManifestError(there) ==
    /\ pc \in {"create_manifest", "resume_manifest", "close_ok", "close_bad",
               "rebuild_index", "rebuild_unlink", "rebuild_manifest"}
    /\ MayFault
    /\ manifest' =
         IF ~there THEN manifest
         ELSE CASE pc = "create_manifest" -> NewManifest
                [] pc \in {"resume_manifest", "close_bad"} ->
                     SessionManifest(cstat, istat)
                [] pc = "close_ok" ->
                     [SessionManifest(cstat, istat) EXCEPT !.finished = TRUE]
                [] pc = "rebuild_manifest" ->
                     [manifest EXCEPT !.counts =
                        AuthoritativeCounts(CleanLocations, IndexLocations)]
                [] OTHER -> manifest
    /\ Release("failed")
    /\ UNCHANGED <<made, clean, chunk, index, damaged>>

\* A data fragment is removed from outside while no command runs.
LoseChunk(n) ==
    /\ pc = "down" /\ n \in Published(chunk) /\ MayFault
    /\ chunk' = [chunk EXCEPT ![n] = NoItems]
    /\ damaged' = (damaged \/ n \in Published(index))
    /\ UNCHANGED <<made, manifest, clean, index, pc, after, writer, work, scan,
                   exit>>

-----------------------------------------------------------------------------
\* no command is running, and none is started
Idle == pc = "down" /\ UNCHANGED vars

Session == StartCreate \/ CreateManifest \/ StartResume \/ ResumeManifest
           \/ SelectWork
Recording == \/ \E s \in Samples, st \in Statuses : WriteClean(s, st)
             \/ \E i \in Items, st \in Statuses : WritePerturbed(i, st)
             \/ EndOfWork
Flushing == PublishClean \/ CleanCounts \/ PublishData \/ PublishIndex
            \/ ItemCounts \/ \E success \in BOOLEAN : Close(success)
Rebuilding == StartRebuild \/ RebuildPart \/ RebuildParted \/ RebuildUnlink
              \/ RebuildUnlinked \/ RebuildManifest
Faults == \/ \E a \in {"stop", "abort"} : Stop(a)
          \/ Crash
          \/ \E there \in BOOLEAN : \/ FlushError(there)
                                    \/ CloseFlushError(there)
                                    \/ ManifestError(there)
          \/ \E n \in Ordinals : LoseChunk(n)

Next == Session \/ Recording \/ Flushing \/ Rebuilding \/ Faults \/ Idle

Spec == Init /\ [][Next]_vars

\* A command that runs takes its next step, the operator keeps repeating the
\* run, and rebuilds the index when resuming reports a missing fragment.
Running == \/ CreateManifest \/ ResumeManifest \/ SelectWork
           \/ Recording \/ Flushing
           \/ RebuildPart \/ RebuildParted \/ RebuildUnlink
           \/ RebuildUnlinked \/ RebuildManifest
RepairIndex == ~Loadable /\ StartRebuild
FairSpec == /\ Spec
            /\ WF_vars(Running)
            /\ SF_vars(StartResume)
            /\ SF_vars(RepairIndex)

-----------------------------------------------------------------------------
(* Properties.                                                             *)

Files(rows) == [Ordinals -> rows]
CleanRows == [Samples -> Recorded]
ItemRows == [Items -> Recorded]

\* Every variable holds a value of its type: files and buffers are partial
\* maps to ItemStatus, ordinals and counters stay within their bounds.
TypeOK ==
    /\ made \in BOOLEAN /\ damaged \in BOOLEAN
    /\ manifest \in [exists: BOOLEAN, finished: BOOLEAN,
                     counts: [Statuses -> Nat]]
    /\ clean \in Files(CleanRows)
    /\ chunk \in Files(ItemRows) /\ index \in Files(ItemRows)
    /\ pc \in Pcs /\ after \in Afters
    /\ cbuf \in CleanRows /\ cstat \in CleanRows
    /\ pbuf \in ItemRows /\ istat \in ItemRows
    /\ cord \in 0..MaxOrd + 1 /\ pord \in 0..MaxOrd + 1
    /\ todoC \subseteq Samples /\ todoP \subseteq Items
    /\ scan \subseteq Ordinals
    /\ exit \in {"none", "closed", "killed", "failed", "rebuilt"}
    /\ faults \in 0..MaxFaults

\* The data-before-index commit order of _flush_perturbed: an index part
\* always describes a data fragment that is there with the same rows, whatever
\* was killed or failed in between; only a fragment removed from outside
\* can leave an index part without its data.
IndexBacked ==
    \A n \in Published(index) :
        \/ chunk[n] = index[n]
        \/ damaged /\ chunk[n] = NoItems

AllRecorded == /\ \A s \in Samples : Holding(clean, s) # {}
               /\ \A i \in Items : Holding(index, i) # {}

\* DumpWriter.close(success=True) sets finished_at only when every sample and
\* every item of the plan has a row that a reader finds: no buffered row and
\* no row without an index entry is left behind by an early flush, a resumed
\* session or a retried chunk.
FinishedIsComplete == manifest.finished /\ ~damaged => AllRecorded

\* counts_by_status is what a reader counts on disk, both while a session
\* records results and after it was closed or the index was rebuilt; the
\* statuses the writer keeps in memory never drift from the fragments, not
\* even after a failed publication whose file is nevertheless in place.
CountsMatchDisk ==
    pc = "running" \/ (pc = "down" /\ exit \in {"closed", "rebuilt"} /\ ~damaged)
    => manifest.counts = AuthoritativeCounts(CleanLocations, IndexLocations)

\* No step rewrites a published fragment: next_fragment_ordinal and the
\* reserved ordinal give every flush a fresh file even after orphans and
\* lost fragments.  Data goes only by removal from outside, an index part
\* only when its data is gone (rebuild).
PublishedIsImmutable ==
    [][/\ \A n \in Published(clean) : clean'[n] = clean[n]
       /\ \A n \in Published(chunk) :
             chunk'[n] = chunk[n] \/ (pc = "down" /\ chunk'[n] = NoItems)
       /\ \A n \in Published(index) :
             \/ index'[n] = index[n]
             \/ pc = "rebuild_unlink" /\ damaged /\ index'[n] = NoItems]_vars

\* What a reader finds for an item is only ever superseded by a row of a
\* later fragment: no resume, failed flush, crash or interrupted rebuild
\* makes a recorded result vanish or brings an older one back.
LatestOnlyAdvances ==
    [][\A i \in Items :
         Holding(index, i) # {} /\ ~damaged'
         => /\ Holding(index', i) # {}
            /\ \A n \in Holding(index, i) :
                  \E m \in Holding(index', i) : n <= m]_vars

\* The dump keeps the promises of ResultLog: a reader's latest rows are the
\* durable results, the two buffers of the open writer the held ones.
Idlers == {"down", "rebuild_index", "rebuild_unlink", "rebuild_manifest"}
Both(c, p) == [k \in Samples \cup Items |-> IF k \in Samples THEN c[k] ELSE p[k]]
Log == INSTANCE ResultLog WITH
          Keys <- Samples \cup Items, Values <- Statuses, None <- Absent,
          results <- Both(CleanLocations, IndexLocations),
          held <- Both(cbuf, pbuf), open <- pc \notin Idlers,
          finished <- manifest.finished
ImplementsResultLog == Log!Spec

\* A run that is repeated after every kill, failure and cancellation, and an
\* index that is rebuilt when a fragment is missing, end with every sample
\* and item recorded: nothing in the resume filter, the ordinals or the
\* commit order can keep a result from being written for ever.
RepeatedRunsComplete == ~RetryFailed /\ manifest.exists ~> []AllRecorded
=============================================================================
