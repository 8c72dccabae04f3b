----------------------------- MODULE Dump_proofs -----------------------------
(***************************************************************************)
(* Theorems about the dump, for every plan, flush threshold, retry policy  *)
(* and bound. First AuditDump: what is on disk, in memory and published,   *)
(* and the log that it implements. Then Inspect, which puts a reader       *)
(* beside it: what a reader without the lock returns is one moment of the  *)
(* dump, an estimate covers the run it announces, and an empty one stays   *)
(* empty.                                                                  *)
(***************************************************************************)
EXTENDS Inspect, SequenceTheorems, FiniteSetTheorems, TLAPS

-----------------------------------------------------------------------------
(* Latest rows.                                                            *)

\* a set of numbers that is not empty has a least member
LEMMA LeastExists ==
    ASSUME NEW S \in SUBSET Nat, S # {}
    PROVE  \E m \in S : \A n \in S : m <= n
<1> DEFINE R == OpToRel(<, Nat)
<1>1. IsWellFoundedOn(R, Nat)
  BY NatLessThanWellFounded
<1>2. PICK x \in S : \A y \in S : ~(<<y, x>> \in R)
  <2> HIDE DEF R
  <2> QED BY <1>1, WFMin
<1>3. \A y \in S : ~(y < x)
  BY <1>2 DEF OpToRel
<1> QED BY <1>3

\* and a bounded one a greatest
LEMMA GreatestExists ==
    ASSUME NEW N \in Nat, NEW S \in SUBSET (0..N), S # {}
    PROVE  \E m \in S : \A n \in S : n <= m
<1> DEFINE T == {n \in 0..N : N - n \in S}
<1>1. T \in SUBSET Nat /\ T # {}
  <2>1. PICK k \in S : TRUE
    OBVIOUS
  <2>2. N - (N - k) = k /\ N - k \in 0..N
    BY <2>1
  <2> QED BY <2>1, <2>2
<1>2. PICK x \in T : \A y \in T : x <= y
  <2> HIDE DEF T
  <2> QED BY <1>1, LeastExists
<1>3. N - x \in S /\ x \in 0..N
  BY <1>2
<1>4. ASSUME NEW n \in S PROVE n <= N - x
  <2>1. N - n \in 0..N /\ N - (N - n) = n
    OBVIOUS
  <2>2. x <= N - n
    BY <1>2, <2>1
  <2> QED BY <2>1, <2>2, <1>3
<1> QED BY <1>3, <1>4

\* LatestOrd is the greatest ordinal whose fragment holds a row for i.
LEMMA LatestOrdIsGreatest ==
    ASSUME NEW files, NEW i, Holding(files, i) # {}
    PROVE  /\ LatestOrd(files, i) \in Holding(files, i)
           /\ \A m \in Holding(files, i) : m <= LatestOrd(files, i)
<1>1. Holding(files, i) \in SUBSET (0..MaxOrd) /\ MaxOrd \in Nat
  BY BoundAssumption DEF Holding, Ordinals
<1>2. \E n \in Holding(files, i) : \A m \in Holding(files, i) : m <= n
  BY <1>1, GreatestExists
<1> QED BY <1>2 DEF LatestOrd

\* and it is the only such ordinal
LEMMA LatestOrdUnique ==
    ASSUME NEW files, NEW i, NEW n \in Holding(files, i),
           \A m \in Holding(files, i) : m <= n
    PROVE  LatestOrd(files, i) = n
<1>1. LatestOrd(files, i) <= n /\ n <= LatestOrd(files, i)
  BY LatestOrdIsGreatest
<1>2. LatestOrd(files, i) \in Int /\ n \in Int
  BY LatestOrdIsGreatest, BoundAssumption DEF Holding, Ordinals
<1> QED BY <1>1, <1>2

\* the newest rows are rows
LEMMA LatestType ==
    ASSUME NEW ids, NEW files \in Files([ids -> Recorded])
    PROVE  Latest(files, ids) \in [ids -> Recorded]
<1> SUFFICES ASSUME NEW i \in ids, Holding(files, i) # {}
             PROVE  files[LatestOrd(files, i)][i] \in Recorded
  BY DEF Latest, Recorded
<1>1. LatestOrd(files, i) \in Ordinals
  BY LatestOrdIsGreatest DEF Holding
<1> QED BY <1>1 DEF Files

\* counts are numbers
LEMMA CountsType ==
    ASSUME NEW c \in CleanRows, NEW p \in ItemRows
    PROVE  AuthoritativeCounts(c, p) \in [Statuses -> Nat]
<1> SUFFICES ASSUME NEW s \in Statuses
             PROVE  Cardinality({i \in Samples : c[i] = s})
                      + Cardinality({i \in Items : p[i] = s}) \in Nat
  BY DEF AuthoritativeCounts
<1>1. IsFiniteSet({i \in Samples : c[i] = s}) /\ IsFiniteSet({i \in Items : p[i] = s})
  BY PlanAssumption, FS_Subset
<1>2. /\ Cardinality({i \in Samples : c[i] = s}) \in Nat
      /\ Cardinality({i \in Items : p[i] = s}) \in Nat
  BY <1>1, FS_CardinalityType
<1> QED BY <1>2

Manifests == [exists: BOOLEAN, finished: BOOLEAN, counts: [Statuses -> Nat]]

\* the manifests that are written are manifests
LEMMA ManifestTypes ==
    /\ NoManifest \in Manifests /\ NewManifest \in Manifests
    /\ \A c \in CleanRows, p \in ItemRows :
          /\ SessionManifest(c, p) \in Manifests
          /\ [SessionManifest(c, p) EXCEPT !.finished = TRUE] \in Manifests
          /\ [SessionManifest(c, p) EXCEPT !.finished = FALSE] \in Manifests
<1>1. NoManifest \in Manifests /\ NewManifest \in Manifests
  BY DEF NoManifest, NewManifest, Manifests
<1>2. ASSUME NEW c \in CleanRows, NEW p \in ItemRows
      PROVE  /\ SessionManifest(c, p) \in Manifests
             /\ [SessionManifest(c, p) EXCEPT !.finished = TRUE] \in Manifests
             /\ [SessionManifest(c, p) EXCEPT !.finished = FALSE] \in Manifests
  BY CountsType DEF SessionManifest, Manifests
<1> QED BY <1>1, <1>2

\* files without rows are files
LEMMA EmptyTypes ==
    /\ NoItems \in ItemRows /\ NoSamples \in CleanRows
BY DEF NoItems, NoSamples, NoRows, ItemRows, CleanRows, Recorded

\* merging locations gives locations
LEMMA MergeType ==
    ASSUME NEW ids, NEW f \in [ids -> Recorded], NEW g \in [ids -> Recorded]
    PROVE  Merge(f, g) \in [ids -> Recorded]
BY DEF Merge

\* what a flush, a close or a failure returns to
LEMMA PcTypes ==
    ASSUME NEW a \in Afters, NEW cb, NEW pb
    PROVE  /\ ClosePc(a) \in {"running", "close_ok", "close_bad"}
           /\ PerturbedPc(pb, a) \in {"data_file", "running", "close_ok", "close_bad"}
           /\ FlushPc(cb, pb, a) \in Pcs
           /\ PerturbedPc(pb, a) \in Pcs /\ ClosePc(a) \in Pcs
BY DEF ClosePc, PerturbedPc, FlushPc, Pcs, FilePcs

\* the types hold at the start
LEMMA TypeInit == Init => TypeOK
<1> SUFFICES ASSUME Init PROVE TypeOK
  OBVIOUS
<1>1. /\ clean \in Files(CleanRows)
      /\ chunk \in Files(ItemRows) /\ index \in Files(ItemRows)
  BY EmptyTypes DEF Init, Files
<1>2. manifest \in Manifests
  BY ManifestTypes DEF Init
<1>3. made \in BOOLEAN /\ damaged \in BOOLEAN
  BY DEF Init
<1> QED BY <1>1, <1>2, <1>3, EmptyTypes, BoundAssumption
        DEF Init, TypeOK, Manifests, Pcs, Afters, Ordinals

\* every step keeps the types
LEMMA TypeStep == TypeOK /\ [Next]_vars => TypeOK'
<1> SUFFICES ASSUME TypeOK, [Next]_vars PROVE TypeOK'
  OBVIOUS
<1> USE DEF Files
<1>a. CleanLocations \in CleanRows /\ IndexLocations \in ItemRows
  BY LatestType DEF TypeOK, CleanLocations, IndexLocations, CleanRows, ItemRows
<1>b. ASSUME NEW how \in {"closed", "killed", "failed", "rebuilt"}, Release(how)
      PROVE  /\ pc' \in Pcs /\ after' \in Afters
             /\ cbuf' \in CleanRows /\ cstat' \in CleanRows
             /\ pbuf' \in ItemRows /\ istat' \in ItemRows
             /\ cord' \in 0..MaxOrd + 1 /\ pord' \in 0..MaxOrd + 1
             /\ todoC' \subseteq Samples /\ todoP' \subseteq Items
             /\ scan' \subseteq Ordinals
             /\ exit' \in {"none", "closed", "killed", "failed", "rebuilt"}
  BY <1>b, EmptyTypes, BoundAssumption DEF Release, Cleared, Pcs, Afters
<1>c. ASSUME MayFault PROVE faults' \in 0..MaxFaults
  BY <1>c, BoundAssumption DEF MayFault, TypeOK
<1>1. CASE StartCreate
  BY <1>1 DEF StartCreate, TypeOK, writer, work, Pcs, FilePcs
<1>2. CASE CreateManifest
  BY <1>2, ManifestTypes DEF CreateManifest, TypeOK, Manifests, writer, work, Pcs
<1>3. CASE StartResume
  BY <1>3, <1>a DEF StartResume, TypeOK, disk, work, Pcs, FilePcs
<1>4. CASE ResumeManifest
  BY <1>4, ManifestTypes DEF ResumeManifest, TypeOK, Manifests, writer, work, Pcs
<1>5. CASE SelectWork
  BY <1>5, PlanAssumption
     DEF SelectWork, TypeOK, disk, writer, Pcs, PendingSamples, PendingChunks
<1>6. ASSUME NEW s \in Samples, NEW st \in Statuses, WriteClean(s, st)
      PROVE  TypeOK'
  BY <1>6 DEF WriteClean, TypeOK, disk, Pcs, FilePcs, CleanRows, Recorded
<1>7. ASSUME NEW i \in Items, NEW st \in Statuses, WritePerturbed(i, st)
      PROVE  TypeOK'
  BY <1>7 DEF WritePerturbed, TypeOK, disk, Pcs, FilePcs, ItemRows, Recorded
<1>8. CASE EndOfWork
  BY <1>8, PcTypes DEF EndOfWork, TypeOK, disk, writer, work, Afters
<1>9. ASSUME NEW a \in {"stop", "abort"}, Stop(a) PROVE TypeOK'
  BY <1>9, <1>c, PcTypes DEF Stop, TypeOK, disk, writer, work, Afters
<1>10. CASE PublishClean
  <2>1. Merge(cstat, cbuf) \in CleanRows
    BY MergeType DEF TypeOK, CleanRows
  <2> QED BY <1>10, <2>1, EmptyTypes, BoundAssumption
          DEF PublishClean, TypeOK, work, Pcs, FilePcs, Ordinals
<1>11. CASE CleanCounts
  BY <1>11, ManifestTypes, PcTypes
     DEF CleanCounts, TypeOK, Manifests, writer, work, Pcs
<1>12. CASE PublishData
  BY <1>12, BoundAssumption DEF PublishData, TypeOK, work, Pcs, FilePcs, Ordinals
<1>13. CASE PublishIndex
  <2>1. Merge(istat, pbuf) \in ItemRows
    BY MergeType DEF TypeOK, ItemRows
  <2> QED BY <1>13, <2>1, EmptyTypes
          DEF PublishIndex, TypeOK, work, Pcs, FilePcs
<1>14. CASE ItemCounts
  BY <1>14, ManifestTypes, PcTypes DEF ItemCounts, TypeOK, Manifests, writer, work
<1>15. ASSUME NEW success \in BOOLEAN, Close(success) PROVE TypeOK'
  <2>1. manifest' \in Manifests
    BY <1>15, ManifestTypes DEF Close, TypeOK
  <2>2. Release("closed")
    BY <1>15 DEF Close
  <2> QED BY <1>15, <2>1, <2>2, <1>b DEF Close, TypeOK, Manifests
<1>16. CASE StartRebuild
  BY <1>16 DEF StartRebuild, TypeOK, disk, writer, work, Pcs, FilePcs, Published
<1>17. CASE RebuildPart
  BY <1>17 DEF RebuildPart, TypeOK, writer, work
<1>18. CASE RebuildParted
  BY <1>18 DEF RebuildParted, TypeOK, disk, writer, work, Pcs, FilePcs, Published
<1>19. CASE RebuildUnlink
  BY <1>19, EmptyTypes DEF RebuildUnlink, TypeOK, writer, work
<1>20. CASE RebuildUnlinked
  BY <1>20 DEF RebuildUnlinked, TypeOK, disk, writer, work, Pcs, FilePcs
<1>21. CASE RebuildManifest
  <2>1. manifest' \in Manifests
    BY <1>21, <1>a, CountsType DEF RebuildManifest, TypeOK, Manifests
  <2>2. Release("rebuilt")
    BY <1>21 DEF RebuildManifest
  <2> QED BY <1>21, <2>1, <2>2, <1>b DEF RebuildManifest, TypeOK, Manifests
<1>22. CASE Crash
  <2>1. Release("killed") /\ MayFault
    BY <1>22 DEF Crash
  <2> QED BY <1>22, <2>1, <1>b, <1>c DEF Crash, TypeOK, disk
<1>d. ASSUME NEW there \in BOOLEAN, FailedWrite(there)
      PROVE  /\ made' \in BOOLEAN /\ manifest' \in Manifests
             /\ clean' \in [Ordinals -> CleanRows]
             /\ chunk' \in [Ordinals -> ItemRows]
             /\ index' \in [Ordinals -> ItemRows]
  BY <1>d, ManifestTypes DEF FailedWrite, TypeOK, Manifests
<1>23. ASSUME NEW there \in BOOLEAN, FlushError(there) PROVE TypeOK'
  <2>1. FailedWrite(there) /\ MayFault
    BY <1>23 DEF FlushError
  <2> QED BY <1>23, <2>1, <1>c, <1>d, PcTypes
          DEF FlushError, TypeOK, Manifests, writer, work, Afters
<1>24. ASSUME NEW there \in BOOLEAN, CloseFlushError(there) PROVE TypeOK'
  <2>1. FailedWrite(there) /\ MayFault /\ Release("failed")
    BY <1>24 DEF CloseFlushError
  <2> QED BY <1>24, <2>1, <1>b, <1>c, <1>d DEF CloseFlushError, TypeOK, Manifests
<1>25. ASSUME NEW there \in BOOLEAN, ManifestError(there) PROVE TypeOK'
  <2>1. Release("failed") /\ MayFault
    BY <1>25 DEF ManifestError
  <2>2. manifest' \in Manifests
    BY <1>25, <1>a, ManifestTypes, CountsType DEF ManifestError, TypeOK, Manifests
  <2> QED BY <1>25, <2>1, <2>2, <1>b, <1>c DEF ManifestError, TypeOK, Manifests
<1>26. ASSUME NEW n \in Ordinals, LoseChunk(n) PROVE TypeOK'
  BY <1>26, <1>c, EmptyTypes DEF LoseChunk, TypeOK, writer, work
<1>27. CASE Idle \/ UNCHANGED vars
  BY <1>27 DEF Idle, TypeOK, vars
<1> QED
  BY <1>1, <1>2, <1>3, <1>4, <1>5, <1>6, <1>7, <1>8, <1>9, <1>10, <1>11, <1>12,
     <1>13, <1>14, <1>15, <1>16, <1>17, <1>18, <1>19, <1>20, <1>21, <1>22, <1>23,
     <1>24, <1>25, <1>26, <1>27
     DEF Next, Session, Recording, Flushing, Rebuilding, Faults

\* The types of all variables, in every reachable state of every instance.
THEOREM TypeCorrect == Spec => []TypeOK
<1> QED BY TypeInit, TypeStep, PTL DEF Spec

-----------------------------------------------------------------------------
(* The inductive invariant, in four layers.                                *)

Busy == pc \notin Idlers
BuffersEmpty == cbuf = NoSamples /\ pbuf = NoItems

\* Layer 1, control: what the program counter says about buffers and work.
Control ==
    /\ pc \in Idlers \cup {"create_manifest"} =>
         /\ cstat = NoSamples /\ istat = NoItems /\ cord = 0 /\ pord = 0
    /\ pc \in Idlers \cup {"create_manifest", "resume_manifest", "select"} =>
         BuffersEmpty /\ todoC = {} /\ todoP = {} /\ after = "running"
    /\ pc = "running" => after = "running"
    /\ pc = "clean_file" => cbuf # NoSamples
    /\ pc = "clean_counts" => cbuf = NoSamples
    /\ pc \in {"data_file", "index_file"} => pbuf # NoItems
    /\ pc = "item_counts" => pbuf = NoItems
    /\ pc \in {"data_file", "index_file", "item_counts"} /\ after # "running"
         => cbuf = NoSamples
    /\ pc \in {"close_ok", "close_bad"} => BuffersEmpty
    /\ pc = "close_ok" => after = "finish"
    /\ pc = "close_bad" => after \in {"stop", "abort"}
    /\ after = "finish" => todoC = {} /\ todoP = {}
    /\ pc # "down" \/ manifest.exists => made
    /\ ~made \/ pc = "create_manifest" =>
         \A n \in Ordinals :
            clean[n] = NoSamples /\ chunk[n] = NoItems /\ index[n] = NoItems

\* Layer 2, files: the open writer's next ordinals are fresh, up to the file
\* that a failed publication left in place and the closing flush rewrites.
FreshClean ==
    \A n \in Ordinals :
        /\ n > cord => clean[n] = NoSamples
        /\ n = cord => \/ clean[n] = NoSamples
                       \/ pc = "clean_file" /\ after = "abort" /\ clean[n] = cbuf
FreshChunk ==
    \A n \in Ordinals :
        /\ n > pord => chunk[n] = NoItems
        /\ n >= pord => index[n] = NoItems
        /\ n = pord => \/ chunk[n] = NoItems
                       \/ /\ pc \in {"clean_file", "clean_counts", "data_file"}
                          /\ after = "abort" /\ chunk[n] = pbuf
DataPublished ==
    /\ pord - 1 \in Ordinals
    /\ chunk[pord - 1] = pbuf /\ index[pord - 1] = NoItems
AllBacked == \A n \in Ordinals : index[n] # NoItems => chunk[n] = index[n]
FileInv ==
    /\ IndexBacked
    /\ Busy => FreshClean /\ FreshChunk /\ AllBacked
    /\ pc = "index_file" => DataPublished
    /\ pc = "rebuild_index" => scan \subseteq Published(chunk)
    /\ pc = "rebuild_unlink" => scan \subseteq Published(index) \ Published(chunk)

\* Layer 3, memory: the statuses in memory are the ones on disk, up to a
\* publication that raised with its file in place.
CleanMemory == \/ CleanLocations = cstat
               \/ after = "abort" /\ CleanLocations = Merge(cstat, cbuf)
ItemMemory == \/ IndexLocations = istat
              \/ after = "abort" /\ IndexLocations = Merge(istat, pbuf)
MemoryInv ==
    /\ Busy => CleanMemory /\ ItemMemory
    /\ pc \in {"select", "running"}
         => manifest.counts = AuthoritativeCounts(CleanLocations, IndexLocations)
    /\ CountsMatchDisk

\* Layer 4, accounting: what a running session has still to do, has buffered
\* or finds on disk is everything.
WorkPcs == {"running", "clean_file", "clean_counts", "data_file", "index_file",
            "item_counts", "close_ok"}
SamplesAccounted ==
    \A s \in Samples : s \in todoC \/ cbuf[s] # Absent \/ Holding(clean, s) # {}
ItemsAccounted ==
    \A i \in Items : i \in todoP \/ pbuf[i] # Absent \/ Holding(index, i) # {}
AccountInv ==
    /\ pc \in WorkPcs /\ after \in {"running", "finish"} =>
         SamplesAccounted /\ ItemsAccounted
    /\ FinishedIsComplete

-----------------------------------------------------------------------------
(* Layer 1.                                                                *)

\* a file without rows is the empty one
LEMMA RowsEmpty ==
    ASSUME NEW ids, NEW f \in [ids -> Recorded]
    PROVE  /\ Rows(f) = {} <=> f = NoRows(ids)
           /\ NoRows(ids) \in [ids -> Recorded] /\ Rows(NoRows(ids)) = {}
BY DEF Rows, NoRows, Recorded

\* the same for samples
LEMMA SampleRowsEmpty ==
    \A f \in CleanRows : Rows(f) = {} <=> f = NoSamples
BY RowsEmpty DEF CleanRows, NoSamples

\* and for items
LEMMA ItemRowsEmpty ==
    \A f \in ItemRows : Rows(f) = {} <=> f = NoItems
BY RowsEmpty DEF ItemRows, NoItems

\* where a flush goes on depends on which buffers hold rows
LEMMA NextPcs ==
    ASSUME NEW cb \in CleanRows, NEW pb \in ItemRows, NEW a \in Afters
    PROVE  /\ \/ cb # NoSamples /\ FlushPc(cb, pb, a) = "clean_file"
              \/ cb = NoSamples /\ FlushPc(cb, pb, a) = PerturbedPc(pb, a)
           /\ \/ pb # NoItems /\ PerturbedPc(pb, a) = "data_file"
              \/ pb = NoItems /\ PerturbedPc(pb, a) = ClosePc(a)
           /\ a = "running" => ClosePc(a) = "running"
           /\ a = "finish" => ClosePc(a) = "close_ok"
           /\ a \in {"stop", "abort"} => ClosePc(a) = "close_bad"
BY SampleRowsEmpty, ItemRowsEmpty DEF FlushPc, PerturbedPc, ClosePc, Afters

\* no flush is under way at the start
LEMMA ControlInit == Init => Control
BY DEF Init, Control, BuffersEmpty, Idlers, NoManifest

\* every step keeps what a flush holds at each of its stages
LEMMA ControlStep == TypeOK /\ Control /\ [Next]_vars => Control'
<1> SUFFICES ASSUME TypeOK, Control, [Next]_vars PROVE Control'
  OBVIOUS
<1> USE DEF Control, BuffersEmpty, Idlers
<1>a. ASSUME NEW how, Release(how), made' = made, made,
             manifest'.exists => made
      PROVE  Control'
  BY <1>a DEF Release, Cleared
<1>b. /\ cbuf \in CleanRows /\ pbuf \in ItemRows /\ after \in Afters
      /\ "abort" \in Afters /\ "stop" \in Afters /\ "finish" \in Afters
  BY DEF TypeOK, Afters
<1>c. SessionManifest(cstat, istat).exists
  BY DEF SessionManifest
<1>1. CASE StartCreate
  BY <1>1 DEF StartCreate, writer, work
<1>2. CASE CreateManifest
  BY <1>2 DEF CreateManifest, writer, work
<1>3. CASE StartResume
  BY <1>3 DEF StartResume, disk, work
<1>4. CASE ResumeManifest
  BY <1>4 DEF ResumeManifest, writer, work
<1>5. CASE SelectWork
  BY <1>5 DEF SelectWork, disk, writer
<1>6. ASSUME NEW s \in Samples, NEW st \in Statuses, WriteClean(s, st)
      PROVE  Control'
  <2>1. cbuf' # NoSamples
    BY <1>6, <1>b, StatusAssumption DEF WriteClean, CleanRows, NoSamples, NoRows
  <2> QED BY <1>6, <2>1 DEF WriteClean, disk
<1>7. ASSUME NEW i \in Items, NEW st \in Statuses, WritePerturbed(i, st)
      PROVE  Control'
  <2>1. pbuf' # NoItems
    BY <1>7, <1>b, StatusAssumption DEF WritePerturbed, ItemRows, NoItems, NoRows
  <2> QED BY <1>7, <2>1 DEF WritePerturbed, disk
<1>8. CASE EndOfWork
  BY <1>8, <1>b, NextPcs DEF EndOfWork, disk, writer, work
<1>9. ASSUME NEW a \in {"stop", "abort"}, Stop(a) PROVE Control'
  BY <1>9, <1>b, NextPcs DEF Stop, disk, writer, work
<1>10. CASE PublishClean
  BY <1>10 DEF PublishClean, work
<1>11. CASE CleanCounts
  BY <1>11, <1>b, NextPcs DEF CleanCounts, writer, work, Afters
<1>12. CASE PublishData
  BY <1>12 DEF PublishData, work
<1>13. CASE PublishIndex
  BY <1>13 DEF PublishIndex, work
<1>14. CASE ItemCounts
  BY <1>14, <1>b, NextPcs DEF ItemCounts, writer, work, Afters
<1>15. ASSUME NEW success \in BOOLEAN, Close(success) PROVE Control'
  <2>1. made /\ made' = made /\ Release("closed")
    BY <1>15 DEF Close
  <2> QED BY <2>1, <1>a
<1>16. CASE StartRebuild
  BY <1>16 DEF StartRebuild, disk, writer, work
<1>17. CASE RebuildPart
  BY <1>17 DEF RebuildPart, writer, work
<1>18. CASE RebuildParted
  BY <1>18 DEF RebuildParted, disk, writer, work
<1>19. CASE RebuildUnlink
  BY <1>19 DEF RebuildUnlink, writer, work
<1>20. CASE RebuildUnlinked
  BY <1>20 DEF RebuildUnlinked, disk, writer, work
<1>21. CASE RebuildManifest
  <2>1. made /\ made' = made /\ Release("rebuilt")
    BY <1>21 DEF RebuildManifest
  <2> QED BY <2>1, <1>a
<1>22. CASE Crash
  <2>1. made /\ made' = made /\ Release("killed")
    BY <1>22 DEF Crash, disk
  <2> QED BY <2>1, <1>a
<1>23. ASSUME NEW there \in BOOLEAN, FlushError(there) PROVE Control'
  <2>1. made /\ made' = made
    BY <1>23 DEF FlushError, FailedWrite, FlushPcs
  <2> QED BY <1>23, <2>1, <1>b, NextPcs DEF FlushError, FlushPcs, writer, work
<1>24. ASSUME NEW there \in BOOLEAN, CloseFlushError(there) PROVE Control'
  <2>1. made /\ made' = made /\ Release("failed")
    BY <1>24 DEF CloseFlushError, FailedWrite, FlushPcs
  <2> QED BY <2>1, <1>a
<1>25. ASSUME NEW there \in BOOLEAN, ManifestError(there) PROVE Control'
  <2>1. made /\ made' = made /\ Release("failed")
    BY <1>25 DEF ManifestError
  <2> QED BY <2>1, <1>a
<1>26. ASSUME NEW n \in Ordinals, LoseChunk(n) PROVE Control'
  BY <1>26, BoundAssumption DEF LoseChunk, writer, work, TypeOK, Files
<1>27. CASE Idle \/ UNCHANGED vars
  BY <1>27 DEF Idle, vars
<1> QED
  BY <1>1, <1>2, <1>3, <1>4, <1>5, <1>6, <1>7, <1>8, <1>9, <1>10, <1>11, <1>12,
     <1>13, <1>14, <1>15, <1>16, <1>17, <1>18, <1>19, <1>20, <1>21, <1>22, <1>23,
     <1>24, <1>25, <1>26, <1>27
     DEF Next, Session, Recording, Flushing, Rebuilding, Faults

-----------------------------------------------------------------------------
(* Layer 2.                                                                *)

\* a published file of items has rows
LEMMA PublishedChunks ==
    \A files \in Files(ItemRows), n \in Ordinals :
        n \in Published(files) <=> files[n] # NoItems
BY ItemRowsEmpty DEF Published, Files

\* so has one of samples
LEMMA PublishedCleans ==
    \A files \in Files(CleanRows), n \in Ordinals :
        n \in Published(files) <=> files[n] # NoSamples
BY SampleRowsEmpty DEF Published, Files

\* IndexBacked in terms of the files only
Backed == \A n \in Ordinals : \/ index[n] = NoItems \/ chunk[n] = index[n]
                              \/ damaged /\ chunk[n] = NoItems
\* an index part is backed where it exists
LEMMA BackedIff == TypeOK => (IndexBacked <=> Backed)
BY PublishedChunks DEF TypeOK, IndexBacked, Backed, Published

\* the files agree at the start
LEMMA FileInit == Init => FileInv
<1> SUFFICES ASSUME Init PROVE FileInv
  OBVIOUS
<1>1. TypeOK
  BY TypeInit
<1>2. \A n \in Ordinals : index[n] = NoItems
  BY DEF Init
<1> QED BY <1>1, <1>2, BackedIff DEF Init, FileInv, Backed, Busy, Idlers

\* every step keeps data, index and ordinals in agreement
LEMMA FileStep == TypeOK /\ TypeOK' /\ Control /\ FileInv /\ [Next]_vars => FileInv'
<1> SUFFICES ASSUME TypeOK, TypeOK', Control, FileInv, [Next]_vars PROVE FileInv'
  OBVIOUS
<1>a. Backed
  BY BackedIff DEF FileInv
<1>b. Backed' <=> IndexBacked'
  BY BackedIff, PTL
<1>c. /\ chunk \in [Ordinals -> ItemRows] /\ index \in [Ordinals -> ItemRows]
      /\ clean \in [Ordinals -> CleanRows]
      /\ cord \in 0..MaxOrd + 1 /\ pord \in 0..MaxOrd + 1 /\ MaxOrd \in Nat
  BY BoundAssumption DEF TypeOK, Files
<1>d. ASSUME pc' = "down", Backed' PROVE FileInv'
  BY <1>b, <1>d DEF FileInv, Busy, Idlers
<1>e. ASSUME UNCHANGED <<chunk, index, damaged>> PROVE Backed'
  BY <1>a, <1>e DEF Backed
<1>f. ASSUME UNCHANGED <<clean, chunk, index, damaged, cord, pord, cbuf, pbuf>>,
             Busy, Busy', pc' # "index_file",
             FreshClean', FreshChunk'
      PROVE  FileInv'
  BY <1>b, <1>e, <1>f DEF FileInv, Busy, Idlers, AllBacked
<1>g. ASSUME UNCHANGED <<clean, chunk, index, damaged, cord, pord>>, Busy, Busy',
             pc' # "index_file",
             pc \notin {"clean_file", "clean_counts", "data_file"}
      PROVE  FileInv'
  <2>1. FreshClean' /\ FreshChunk' /\ AllBacked'
    BY <1>g DEF FileInv, FreshClean, FreshChunk, AllBacked
  <2> QED BY <2>1, <1>b, <1>e, <1>g DEF FileInv, Busy, Idlers
<1> USE DEF Busy, Idlers
<1>1. CASE StartCreate
  <2>1. /\ \A n \in Ordinals : clean[n] = NoSamples /\ chunk[n] = NoItems
                               /\ index[n] = NoItems
        /\ UNCHANGED <<clean, chunk, index, damaged>>
        /\ pc' = "create_manifest"
    BY <1>1 DEF StartCreate, Control
  <2>2. Backed' /\ AllBacked' /\ FreshClean' /\ FreshChunk'
    BY <2>1, <1>e DEF Backed, AllBacked, FreshClean, FreshChunk
  <2> QED BY <2>1, <2>2, <1>b DEF FileInv
<1>2. CASE CreateManifest
  BY <1>2, <1>g DEF CreateManifest, writer
<1>3. CASE StartResume
  <2>1. /\ UNCHANGED <<clean, chunk, index, damaged>>
        /\ pc' = "resume_manifest"
        /\ cord' \in Nat /\ pord' \in Nat
        /\ \A m \in Published(clean) : m < cord'
        /\ \A m \in Published(chunk) : m < pord'
        /\ Published(index) \subseteq Published(chunk)
    BY <1>3, BoundAssumption DEF StartResume, IsNextOrdinal, Loadable, disk
  <2>2. /\ \A n \in Ordinals : clean[n] # NoSamples => n < cord'
        /\ \A n \in Ordinals : chunk[n] # NoItems => n < pord'
        /\ \A n \in Ordinals : index[n] # NoItems => chunk[n] # NoItems
    BY <2>1, <1>c, PublishedChunks, PublishedCleans DEF Files
  <2>3. FreshClean' /\ FreshChunk'
    BY <2>1, <2>2, BoundAssumption DEF FreshClean, FreshChunk, Ordinals
  <2>4. AllBacked'
    BY <2>1, <2>2, <1>a DEF AllBacked, Backed
  <2> QED BY <2>1, <2>3, <2>4, <1>b, <1>e DEF FileInv
<1>4. CASE ResumeManifest
  BY <1>4, <1>g DEF ResumeManifest, writer
<1>5. CASE SelectWork
  BY <1>5, <1>g DEF SelectWork, disk, writer
<1>6. ASSUME NEW s \in Samples, NEW st \in Statuses, WriteClean(s, st)
      PROVE  FileInv'
  BY <1>6, <1>g DEF WriteClean, disk
<1>7. ASSUME NEW i \in Items, NEW st \in Statuses, WritePerturbed(i, st)
      PROVE  FileInv'
  BY <1>7, <1>g DEF WritePerturbed, disk
<1>8. CASE EndOfWork
  <2>1. pc' # "index_file" /\ pc' \notin Idlers
    BY <1>8, NextPcs DEF EndOfWork, TypeOK, Afters
  <2> QED BY <1>8, <2>1, <1>g DEF EndOfWork, disk, writer
<1>9. ASSUME NEW a \in {"stop", "abort"}, Stop(a) PROVE FileInv'
  <2>1. pc' # "index_file" /\ pc' \notin Idlers
    BY <1>9, NextPcs DEF Stop, TypeOK, Afters
  <2> QED BY <1>9, <2>1, <1>g DEF Stop, disk, writer
<1>10. CASE PublishClean
  <2>1. /\ pc = "clean_file" /\ pc' = "clean_counts" /\ cord \in Ordinals
        /\ clean' = [clean EXCEPT ![cord] = cbuf] /\ cord' = cord + 1
        /\ UNCHANGED <<chunk, index, damaged, pbuf, pord, after>>
    BY <1>10 DEF PublishClean
  <2>2. FreshClean'
    BY <2>1, <1>c DEF FreshClean, FileInv, Ordinals
  <2>3. FreshChunk' /\ AllBacked'
    BY <2>1 DEF FreshChunk, FileInv, AllBacked
  <2> QED BY <2>1, <2>2, <2>3, <1>b, <1>e DEF FileInv
<1>11. CASE CleanCounts
  <2>1. pc' # "index_file" /\ pc' \notin Idlers
        /\ (after = "abort" => pc' = "data_file" \/ pbuf = NoItems)
    BY <1>11, NextPcs DEF CleanCounts, TypeOK, Afters
  <2>2. FreshChunk' /\ FreshClean'
    BY <1>11, <2>1 DEF CleanCounts, FileInv, FreshChunk, FreshClean, writer
  <2> QED BY <1>11, <2>1, <2>2, <1>f DEF CleanCounts, writer
<1>12. CASE PublishData
  <2>1. /\ pc = "data_file" /\ pc' = "index_file" /\ pord \in Ordinals
        /\ chunk' = [chunk EXCEPT ![pord] = pbuf] /\ pord' = pord + 1
        /\ UNCHANGED <<clean, index, damaged, cbuf, pbuf, cord, after>>
    BY <1>12 DEF PublishData
  <2>2. FreshClean'
    BY <2>1 DEF FreshClean, FileInv
  <2>3. FreshChunk'
    BY <2>1, <1>c DEF FreshChunk, FileInv, Ordinals
  <2>4. index[pord] = NoItems
    BY <2>1, <1>c DEF FileInv, FreshChunk, Ordinals
  <2>5. AllBacked' /\ Backed'
    BY <2>1, <2>4, <1>a, <1>c DEF AllBacked, FileInv, Backed
  <2>6. DataPublished'
    BY <2>1, <2>4, <1>c DEF DataPublished, Ordinals
  <2> QED BY <2>1, <2>2, <2>3, <2>5, <2>6, <1>b DEF FileInv
<1>13. CASE PublishIndex
  <2>1. /\ pc = "index_file" /\ pc' = "item_counts"
        /\ index' = [index EXCEPT ![pord - 1] = pbuf]
        /\ UNCHANGED <<clean, chunk, damaged, cbuf, cord, pord, after>>
    BY <1>13 DEF PublishIndex
  <2>2. FreshClean'
    BY <2>1 DEF FreshClean, FileInv
  <2>3. FreshChunk'
    BY <2>1, <1>c DEF FreshChunk, FileInv, Ordinals
  <2>4. AllBacked' /\ Backed'
    BY <2>1, <1>a, <1>c DEF AllBacked, FileInv, Backed, DataPublished
  <2> QED BY <2>1, <2>2, <2>3, <2>4, <1>b DEF FileInv
<1>14. CASE ItemCounts
  <2>1. pc' # "index_file" /\ pc' \notin Idlers
    BY <1>14, NextPcs DEF ItemCounts, TypeOK, Afters
  <2> QED BY <1>14, <2>1, <1>g DEF ItemCounts, writer
<1>15. ASSUME NEW success \in BOOLEAN, Close(success) PROVE FileInv'
  BY <1>15, <1>d, <1>e DEF Close, Release
<1>16. CASE StartRebuild
  BY <1>16, <1>b, <1>e DEF StartRebuild, FileInv, disk
<1>17. CASE RebuildPart
  <2>1. PICK n \in scan : index' = [index EXCEPT ![n] = chunk[n]]
                          /\ scan' = scan \ {n}
    BY <1>17 DEF RebuildPart
  <2>2. /\ pc = "rebuild_index" /\ pc' = pc /\ scan \subseteq Published(chunk)
        /\ UNCHANGED <<chunk, damaged>>
    BY <1>17 DEF RebuildPart, FileInv
  <2>3. Backed'
    BY <2>1, <2>2, <1>a, <1>c DEF Backed
  <2> QED BY <2>1, <2>2, <2>3, <1>b DEF FileInv
<1>18. CASE RebuildParted
  BY <1>18, <1>b, <1>e DEF RebuildParted, FileInv, disk
<1>19. CASE RebuildUnlink
  <2>1. PICK n \in scan : index' = [index EXCEPT ![n] = NoItems]
                          /\ scan' = scan \ {n}
    BY <1>19 DEF RebuildUnlink
  <2>2. /\ pc = "rebuild_unlink" /\ pc' = pc
        /\ scan \subseteq Published(index) \ Published(chunk)
        /\ UNCHANGED <<chunk, damaged>>
    BY <1>19 DEF RebuildUnlink, FileInv
  <2>3. Backed'
    BY <2>1, <2>2, <1>a, <1>c DEF Backed
  <2>4. scan' \subseteq Published(index') \ Published(chunk')
    BY <2>1, <2>2, <1>c DEF Published
  <2> QED BY <2>1, <2>2, <2>3, <2>4, <1>b DEF FileInv
<1>20. CASE RebuildUnlinked
  BY <1>20, <1>b, <1>e DEF RebuildUnlinked, FileInv, disk
<1>21. CASE RebuildManifest
  BY <1>21, <1>d, <1>e DEF RebuildManifest, Release
<1>22. CASE Crash
  BY <1>22, <1>d, <1>e DEF Crash, Release, disk
<1>h. ASSUME NEW there \in BOOLEAN, FailedWrite(there), pc \in FlushPcs,
             damaged' = damaged,
             pc = "clean_file" => cord \in Ordinals,
             pc = "data_file" => pord \in Ordinals
      PROVE  Backed' /\ AllBacked'
  <2>1. CASE pc \in {"clean_file", "clean_counts", "item_counts"}
    BY <2>1, <1>a, <1>h DEF FailedWrite, Backed, AllBacked, FileInv, FlushPcs
  <2>2. CASE pc = "data_file"
    <3>1. index[pord] = NoItems
      BY <2>2, <1>c, <1>h DEF FileInv, FreshChunk, Ordinals
    <3> QED BY <2>2, <3>1, <1>a, <1>c, <1>h DEF FailedWrite, Backed, AllBacked, FileInv
  <2>3. CASE pc = "index_file"
    BY <2>3, <1>a, <1>c, <1>h
       DEF FailedWrite, Backed, AllBacked, FileInv, DataPublished
  <2> QED BY <2>1, <2>2, <2>3, <1>h DEF FlushPcs
<1>23. ASSUME NEW there \in BOOLEAN, FlushError(there) PROVE FileInv'
  <2>1. /\ FailedWrite(there) /\ pc \in FlushPcs /\ after' = "abort"
        /\ pc = "clean_file" => cord \in Ordinals
        /\ pc = "data_file" => pord \in Ordinals
        /\ pc' = FlushPc(cbuf, pbuf, "abort")
        /\ after # "abort"
        /\ UNCHANGED <<cord, pord, cbuf, pbuf, damaged>>
    BY <1>23 DEF FlushError, writer
  <2>2. Backed' /\ AllBacked'
    BY <2>1, <1>h
  <2>3. /\ pc' \notin Idlers /\ pc' # "index_file"
        /\ cbuf # NoSamples => pc' = "clean_file"
        /\ pbuf # NoItems => pc' \in {"clean_file", "data_file"}
    BY <2>1, NextPcs DEF TypeOK, Afters
  <2>4. FreshClean'
    BY <2>1, <2>3, <1>c DEF FreshClean, FileInv, FailedWrite, Control, FlushPcs, Ordinals
  <2>5. FreshChunk'
    <3>1. CASE pc = "data_file"
      BY <3>1, <2>1, <2>3, <1>c DEF FreshChunk, FileInv, FailedWrite, Control, Ordinals
    <3>2. CASE pc = "index_file"
      BY <3>2, <2>1, <2>3, <1>c DEF FreshChunk, FileInv, FailedWrite, Control, Ordinals
    <3>3. CASE pc \in {"clean_file", "clean_counts", "item_counts"}
      BY <3>3, <2>1 DEF FreshChunk, FileInv, FailedWrite
    <3> QED BY <2>1, <3>1, <3>2, <3>3 DEF FlushPcs
  <2> QED BY <2>2, <2>3, <2>4, <2>5, <1>b DEF FileInv
<1>24. ASSUME NEW there \in BOOLEAN, CloseFlushError(there) PROVE FileInv'
  <2>1. Backed'
    BY <1>24, <1>h DEF CloseFlushError
  <2> QED BY <1>24, <2>1, <1>d DEF CloseFlushError, Release
<1>25. ASSUME NEW there \in BOOLEAN, ManifestError(there) PROVE FileInv'
  BY <1>25, <1>d, <1>e DEF ManifestError, Release
<1>26. ASSUME NEW n \in Ordinals, LoseChunk(n) PROVE FileInv'
  <2>1. /\ pc = "down" /\ pc' = "down" /\ UNCHANGED index
        /\ chunk' = [chunk EXCEPT ![n] = NoItems]
        /\ damaged' = (damaged \/ n \in Published(index))
    BY <1>26 DEF LoseChunk
  <2>2. n \in Published(index) <=> index[n] # NoItems
    BY PublishedChunks, <1>c DEF Files
  <2>3. Backed'
    <3> SUFFICES ASSUME NEW m \in Ordinals
                 PROVE  \/ index[m] = NoItems \/ chunk'[m] = index[m]
                        \/ damaged' /\ chunk'[m] = NoItems
      BY <2>1 DEF Backed
    <3>1. CASE m = n
      BY <3>1, <2>1, <2>2, <1>c
    <3>2. CASE m # n
      BY <3>2, <2>1, <1>a, <1>c DEF Backed
    <3> QED BY <3>1, <3>2
  <2> QED BY <2>1, <2>3, <1>d
<1>27. CASE Idle \/ UNCHANGED vars
  <2>1. UNCHANGED vars
    BY <1>27 DEF Idle
  <2>2. UNCHANGED <<pc, after, clean, chunk, index, damaged, cord, pord, cbuf, pbuf, scan>>
    BY <2>1 DEF vars
  <2> QED BY <2>2, <1>b, <1>e
          DEF FileInv, FreshClean, FreshChunk, AllBacked, DataPublished
<1> QED
  BY <1>1, <1>2, <1>3, <1>4, <1>5, <1>6, <1>7, <1>8, <1>9, <1>10, <1>11, <1>12,
     <1>13, <1>14, <1>15, <1>16, <1>17, <1>18, <1>19, <1>20, <1>21, <1>22, <1>23,
     <1>24, <1>25, <1>26, <1>27
     DEF Next, Session, Recording, Flushing, Rebuilding, Faults

\* Data before index, for every interleaving of flushes, failures, crashes,
\* rebuilds and lost fragments.
THEOREM IndexAlwaysBacked == Spec => []IndexBacked
<1>1. TypeOK /\ Control /\ FileInv /\ [Next]_vars => (TypeOK /\ Control /\ FileInv)'
  BY TypeStep, ControlStep, FileStep
<1>2. FileInv => IndexBacked
  BY DEF FileInv
<1> QED BY <1>1, <1>2, TypeInit, ControlInit, FileInit, PTL DEF Spec

-----------------------------------------------------------------------------
(* What one step does to the files.                                        *)

Kept == \A n \in Ordinals :
    /\ clean[n] # NoSamples => clean'[n] = clean[n]
    /\ chunk[n] # NoItems =>
          chunk'[n] = chunk[n] \/ (pc = "down" /\ chunk'[n] = NoItems)
    /\ index[n] # NoItems =>
          \/ index'[n] = index[n]
          \/ pc = "rebuild_unlink" /\ damaged /\ index'[n] = NoItems

\* no step rewrites what was published
LEMMA KeptStep == TypeOK /\ Control /\ FileInv /\ [Next]_vars => Kept
<1> SUFFICES ASSUME TypeOK, Control, FileInv, [Next]_vars PROVE Kept
  OBVIOUS
<1>a. /\ chunk \in [Ordinals -> ItemRows] /\ index \in [Ordinals -> ItemRows]
      /\ clean \in [Ordinals -> CleanRows]
      /\ cord \in 0..MaxOrd + 1 /\ pord \in 0..MaxOrd + 1 /\ MaxOrd \in Nat
  BY BoundAssumption DEF TypeOK, Files
<1>b. Backed
  BY BackedIff DEF FileInv
<1>u. ASSUME UNCHANGED <<clean, chunk, index>> PROVE Kept
  BY <1>u DEF Kept
<1>1. CASE PublishClean
  <2>1. /\ cord \in Ordinals /\ clean' = [clean EXCEPT ![cord] = cbuf]
        /\ clean[cord] = NoSamples \/ clean[cord] = cbuf
        /\ UNCHANGED <<chunk, index>>
    BY <1>1, <1>a DEF PublishClean, FileInv, FreshClean, Busy, Idlers, Ordinals
  <2> QED BY <2>1, <1>a DEF Kept
<1>2. CASE PublishData
  <2>1. /\ pord \in Ordinals /\ chunk' = [chunk EXCEPT ![pord] = pbuf]
        /\ chunk[pord] = NoItems \/ chunk[pord] = pbuf
        /\ UNCHANGED <<clean, index>>
    BY <1>2, <1>a DEF PublishData, FileInv, FreshChunk, Busy, Idlers, Ordinals
  <2> QED BY <2>1, <1>a DEF Kept
<1>3. CASE PublishIndex
  <2>1. /\ index' = [index EXCEPT ![pord - 1] = pbuf] /\ index[pord - 1] = NoItems
        /\ UNCHANGED <<clean, chunk>>
    BY <1>3 DEF PublishIndex, FileInv, DataPublished
  <2> QED BY <2>1, <1>a DEF Kept
<1>4. CASE RebuildPart
  <2>1. PICK n \in scan : index' = [index EXCEPT ![n] = chunk[n]]
    BY <1>4 DEF RebuildPart
  <2>2. scan \subseteq Published(chunk) /\ UNCHANGED <<clean, chunk>>
    BY <1>4 DEF RebuildPart, FileInv
  <2>3. chunk[n] # NoItems /\ n \in Ordinals
    BY <2>1, <2>2, PublishedChunks, <1>a DEF Files, Published
  <2> QED BY <2>1, <2>2, <2>3, <1>a, <1>b DEF Kept, Backed
<1>5. CASE RebuildUnlink
  <2>1. PICK n \in scan : index' = [index EXCEPT ![n] = NoItems]
    BY <1>5 DEF RebuildUnlink
  <2>2. /\ scan \subseteq Published(index) \ Published(chunk)
        /\ pc = "rebuild_unlink" /\ UNCHANGED <<clean, chunk>>
    BY <1>5 DEF RebuildUnlink, FileInv
  <2>3. chunk[n] = NoItems /\ index[n] # NoItems /\ n \in Ordinals
    BY <2>1, <2>2, PublishedChunks, <1>a DEF Files, Published
  <2> QED BY <2>1, <2>2, <2>3, <1>a, <1>b DEF Kept, Backed
<1>c. ASSUME NEW there \in BOOLEAN, FailedWrite(there), pc \in FlushPcs,
             pc = "clean_file" => cord \in Ordinals,
             pc = "data_file" => pord \in Ordinals
      PROVE  Kept
  <2>1. CASE pc = "clean_file"
    <3>1. clean[cord] = NoSamples \/ clean[cord] = cbuf
      BY <2>1, <1>a, <1>c DEF FileInv, FreshClean, Busy, Idlers, Ordinals
    <3> QED BY <2>1, <3>1, <1>a, <1>c DEF FailedWrite, Kept
  <2>2. CASE pc = "data_file"
    <3>1. chunk[pord] = NoItems \/ chunk[pord] = pbuf
      BY <2>2, <1>a, <1>c DEF FileInv, FreshChunk, Busy, Idlers, Ordinals
    <3> QED BY <2>2, <3>1, <1>a, <1>c DEF FailedWrite, Kept
  <2>3. CASE pc = "index_file"
    BY <2>3, <1>a, <1>c DEF FailedWrite, Kept, FileInv, DataPublished
  <2>4. CASE pc \in {"clean_counts", "item_counts"}
    BY <2>4, <1>c, <1>u DEF FailedWrite
  <2> QED BY <2>1, <2>2, <2>3, <2>4, <1>c DEF FlushPcs
<1>6. ASSUME NEW there \in BOOLEAN, FlushError(there) \/ CloseFlushError(there)
      PROVE  Kept
  BY <1>6, <1>c DEF FlushError, CloseFlushError
<1>7. ASSUME NEW n \in Ordinals, LoseChunk(n) PROVE Kept
  BY <1>7, <1>a DEF LoseChunk, Kept
<1>8. CASE \/ Session \/ Recording \/ CleanCounts \/ ItemCounts
           \/ \E success \in BOOLEAN : Close(success)
           \/ StartRebuild \/ RebuildParted \/ RebuildUnlinked \/ RebuildManifest
           \/ \E a \in {"stop", "abort"} : Stop(a)
           \/ Crash \/ \E there \in BOOLEAN : ManifestError(there)
           \/ Idle \/ UNCHANGED vars
  <2>1. UNCHANGED <<clean, chunk, index>>
    BY <1>8 DEF Session, StartCreate, CreateManifest, StartResume, ResumeManifest,
         SelectWork, Recording, WriteClean, WritePerturbed, EndOfWork, CleanCounts,
         ItemCounts, Close, StartRebuild, RebuildParted, RebuildUnlinked,
         RebuildManifest, Stop, Crash, ManifestError, Idle, vars, disk
  <2> QED BY <2>1, <1>u
<1> QED
  BY <1>1, <1>2, <1>3, <1>4, <1>5, <1>6, <1>7, <1>8
     DEF Next, Flushing, Rebuilding, Faults

\* what is damaged stays so
LEMMA DamagedStep == [Next]_vars /\ damaged => damaged'
BY DEF Next, Session, StartCreate, CreateManifest, StartResume, ResumeManifest,
     SelectWork, Recording, WriteClean, WritePerturbed, EndOfWork, Flushing,
     PublishClean, CleanCounts, PublishData, PublishIndex, ItemCounts, Close,
     Rebuilding, StartRebuild, RebuildPart, RebuildParted, RebuildUnlink,
     RebuildUnlinked, RebuildManifest, Faults, Stop, Crash, FlushError,
     CloseFlushError, ManifestError, LoseChunk, Idle, vars

InvA == TypeOK /\ Control /\ FileInv

\* types, control and files are invariant
LEMMA InvACorrect == Spec => []InvA
<1>1. Init => InvA
  BY TypeInit, ControlInit, FileInit DEF InvA
<1>2. InvA /\ [Next]_vars => InvA'
  BY TypeStep, ControlStep, FileStep DEF InvA
<1> QED BY <1>1, <1>2, PTL DEF Spec

\* No published fragment is ever rewritten.
THEOREM PublishedStaysPut == Spec => PublishedIsImmutable
<1>1. InvA /\ [Next]_vars
      => [/\ \A n \in Published(clean) : clean'[n] = clean[n]
          /\ \A n \in Published(chunk) :
                chunk'[n] = chunk[n] \/ (pc = "down" /\ chunk'[n] = NoItems)
          /\ \A n \in Published(index) :
                \/ index'[n] = index[n]
                \/ pc = "rebuild_unlink" /\ damaged /\ index'[n] = NoItems]_vars
  BY KeptStep, PublishedChunks, PublishedCleans DEF InvA, TypeOK, Kept, Published
<1> QED BY <1>1, InvACorrect, PTL DEF Spec, PublishedIsImmutable

\* what holds a result keeps it
LEMMA HoldingKept ==
    ASSUME TypeOK, Kept
    PROVE  /\ \A s \in Samples : Holding(clean, s) \subseteq Holding(clean', s)
           /\ pc # "rebuild_unlink" \/ ~damaged =>
                \A i \in Items : Holding(index, i) \subseteq Holding(index', i)
BY DEF TypeOK, Kept, Holding, NoSamples, NoItems, NoRows

\* Recorded results are superseded by later ones, never lost or reverted.
THEOREM LatestAdvances == Spec => LatestOnlyAdvances
<1>1. InvA /\ [Next]_vars
      => [\A i \in Items :
            Holding(index, i) # {} /\ ~damaged'
            => /\ Holding(index', i) # {}
               /\ \A n \in Holding(index, i) :
                     \E m \in Holding(index', i) : n <= m]_vars
  <2> SUFFICES ASSUME InvA, [Next]_vars, NEW i \in Items,
                      Holding(index, i) # {}, ~damaged'
               PROVE  /\ Holding(index', i) # {}
                      /\ \A n \in Holding(index, i) :
                            \E m \in Holding(index', i) : n <= m
    OBVIOUS
  <2>1. Holding(index, i) \subseteq Holding(index', i)
    BY KeptStep, HoldingKept, DamagedStep DEF InvA
  <2>2. \A n \in Holding(index, i) : n \in Int
    BY BoundAssumption DEF Holding, Ordinals
  <2> QED BY <2>1, <2>2
<1> QED BY <1>1, InvACorrect, PTL DEF Spec, LatestOnlyAdvances

-----------------------------------------------------------------------------
(* Layer 3.                                                                *)

\* merging nothing changes nothing, nor does merging twice
LEMMA MergeFacts ==
    ASSUME NEW ids, NEW f \in [ids -> Recorded], NEW g \in [ids -> Recorded]
    PROVE  /\ Merge(f, NoRows(ids)) = f
           /\ Merge(Merge(f, g), g) = Merge(f, g)
BY DEF Merge, NoRows

\* without files nothing is newest
LEMMA LatestOfNone ==
    ASSUME NEW ids, NEW files, \A n \in Ordinals : files[n] = NoRows(ids)
    PROVE  Latest(files, ids) = NoRows(ids)
BY DEF Latest, Holding, NoRows

\* A fragment published above all others supersedes what they hold.
LEMMA LatestAfterPublish ==
    ASSUME NEW ids, NEW files \in Files([ids -> Recorded]),
           NEW k \in Ordinals, NEW f \in [ids -> Recorded],
           \A n \in Ordinals : n > k => files[n] = NoRows(ids),
           files[k] = NoRows(ids) \/ files[k] = f
    PROVE  Latest([files EXCEPT ![k] = f], ids) = Merge(Latest(files, ids), f)
<1> DEFINE new == [files EXCEPT ![k] = f]
<1>1. /\ new \in [Ordinals -> [ids -> Recorded]] /\ new[k] = f
      /\ \A n \in Ordinals : n # k => new[n] = files[n]
      /\ \A n \in Ordinals : n > k => new[n] = NoRows(ids)
  BY DEF Files, Ordinals
<1>2. \A n \in Ordinals : n \in Int
  BY BoundAssumption DEF Ordinals
<1> HIDE DEF new
<1>3. ASSUME NEW i \in ids
      PROVE  Latest(new, ids)[i] = Merge(Latest(files, ids), f)[i]
  <2>1. CASE f[i] # Absent
    <3>1. k \in Holding(new, i)
      BY <2>1, <1>1 DEF Holding
    <3>2. \A n \in Holding(new, i) : n <= k
      BY <1>1, <1>2 DEF Holding, NoRows
    <3>3. LatestOrd(new, i) = k
      BY <3>1, <3>2, LatestOrdUnique
    <3> QED BY <3>1, <3>3, <2>1, <1>1 DEF Latest, Merge
  <2>2. CASE f[i] = Absent
    <3>1. Holding(new, i) = Holding(files, i) /\ k \notin Holding(files, i)
      BY <2>2, <1>1 DEF Holding, NoRows
    <3>2. CASE Holding(files, i) = {}
      BY <3>1, <3>2, <2>2 DEF Latest, Merge
    <3>3. CASE Holding(files, i) # {}
      <4>1. LatestOrd(new, i) = LatestOrd(files, i)
        BY <3>1 DEF LatestOrd
      <4>2. LatestOrd(files, i) \in Holding(files, i)
        BY <3>3, LatestOrdIsGreatest
      <4>3. new[LatestOrd(files, i)] = files[LatestOrd(files, i)]
        BY <4>2, <3>1, <1>1 DEF Holding
      <4> QED BY <3>1, <3>3, <4>1, <4>3, <2>2 DEF Latest, Merge
    <3> QED BY <3>2, <3>3
  <2> QED BY <2>1, <2>2
<1>4. /\ DOMAIN Latest(new, ids) = ids
      /\ DOMAIN Merge(Latest(files, ids), f) = ids
      /\ Latest(new, ids) = [i \in ids |-> Latest(new, ids)[i]]
      /\ Merge(Latest(files, ids), f) = [i \in ids |-> Merge(Latest(files, ids), f)[i]]
  BY DEF Latest, Merge
<1>5. Latest(new, ids) = Merge(Latest(files, ids), f)
  BY <1>3, <1>4
<1> QED BY <1>5 DEF new

\* nothing counts zero
LEMMA EmptyCounts ==
    AuthoritativeCounts(NoSamples, NoItems) = [s \in Statuses |-> 0]
<1>1. ASSUME NEW s \in Statuses
      PROVE  /\ {i \in Samples : NoSamples[i] = s} = {}
             /\ {i \in Items : NoItems[i] = s} = {}
  BY StatusAssumption DEF NoSamples, NoItems, NoRows
<1>2. Cardinality({}) = 0
  BY FS_EmptySet
<1> QED BY <1>1, <1>2 DEF AuthoritativeCounts

\* the two publications that change the latest rows
LEMMA CleanPublished ==
    ASSUME TypeOK, FileInv, pc = "clean_file", cord \in Ordinals,
           clean' = [clean EXCEPT ![cord] = cbuf]
    PROVE  CleanLocations' = Merge(CleanLocations, cbuf)
<1>1. /\ \A n \in Ordinals : n > cord => clean[n] = NoSamples
      /\ clean[cord] = NoSamples \/ clean[cord] = cbuf
  BY BoundAssumption DEF FileInv, FreshClean, Busy, Idlers, Ordinals
<1>2. clean \in Files([Samples -> Recorded]) /\ cbuf \in [Samples -> Recorded]
  BY DEF TypeOK, CleanRows
<1>3. Latest([clean EXCEPT ![cord] = cbuf], Samples) = Merge(Latest(clean, Samples), cbuf)
  BY <1>1, <1>2, LatestAfterPublish DEF NoSamples
<1> QED BY <1>3 DEF CleanLocations

\* an index part that is published adds its rows to the locations
LEMMA IndexPublished ==
    ASSUME TypeOK, FileInv, pc = "index_file",
           index' = [index EXCEPT ![pord - 1] = pbuf]
    PROVE  IndexLocations' = Merge(IndexLocations, pbuf)
<1>1. /\ \A n \in Ordinals : n > pord - 1 => index[n] = NoItems
      /\ index[pord - 1] = NoItems /\ pord - 1 \in Ordinals
  BY BoundAssumption DEF FileInv, FreshChunk, DataPublished, Busy, Idlers, Ordinals, TypeOK
<1>2. index \in Files([Items -> Recorded]) /\ pbuf \in [Items -> Recorded]
  BY DEF TypeOK, ItemRows
<1>3. Latest([index EXCEPT ![pord - 1] = pbuf], Items) = Merge(Latest(index, Items), pbuf)
  BY <1>1, <1>2, LatestAfterPublish DEF NoItems
<1> QED BY <1>3 DEF IndexLocations

\* a writer knows nothing at the start
LEMMA MemoryInit == Init => MemoryInv
BY DEF Init, MemoryInv, CountsMatchDisk, Busy, Idlers

\* every step keeps what a writer remembers equal to the disk
LEMMA MemoryStep ==
    TypeOK /\ Control /\ FileInv /\ MemoryInv /\ [Next]_vars => MemoryInv'
<1> SUFFICES ASSUME TypeOK, Control, FileInv, MemoryInv, [Next]_vars
             PROVE  MemoryInv'
  OBVIOUS
<1> USE DEF Busy, Idlers
<1>a. /\ UNCHANGED clean => CleanLocations' = CleanLocations
      /\ UNCHANGED index => IndexLocations' = IndexLocations
  BY DEF CleanLocations, IndexLocations
<1>b. /\ Merge(cstat, NoSamples) = cstat /\ Merge(istat, NoItems) = istat
      /\ Merge(Merge(cstat, cbuf), cbuf) = Merge(cstat, cbuf)
      /\ Merge(Merge(istat, pbuf), pbuf) = Merge(istat, pbuf)
  BY MergeFacts DEF TypeOK, CleanRows, ItemRows, NoSamples, NoItems
\* a step to a place where nothing is said of the manifest
<1>c. ASSUME pc' \notin {"select", "running", "down"},
             Busy' => CleanMemory' /\ ItemMemory'
      PROVE  MemoryInv'
  BY <1>c DEF MemoryInv, CountsMatchDisk
<1>d. ASSUME Busy, UNCHANGED <<clean, cstat>>,
             after # "abort" \/ (UNCHANGED cbuf /\ after' = after)
      PROVE  CleanMemory'
  BY <1>a, <1>d DEF MemoryInv, CleanMemory
<1>e. ASSUME Busy, UNCHANGED <<index, istat>>,
             after # "abort" \/ (UNCHANGED pbuf /\ after' = after)
      PROVE  ItemMemory'
  BY <1>a, <1>e DEF MemoryInv, ItemMemory
\* a step that ends a command without closing it properly
<1>f. ASSUME pc' = "down", exit' \in {"killed", "failed"} PROVE MemoryInv'
  BY <1>f DEF MemoryInv, CountsMatchDisk
<1>g. SessionManifest(cstat, istat).counts = AuthoritativeCounts(cstat, istat)
  BY DEF SessionManifest
<1>h. ASSUME pc' \in {"select", "running"}, Busy, after # "abort",
             UNCHANGED <<clean, index, cstat, istat>>,
             \/ manifest' = SessionManifest(cstat, istat)
             \/ pc \in {"select", "running"} /\ manifest' = manifest
      PROVE  MemoryInv'
  <2>1. CleanLocations = cstat /\ IndexLocations = istat
    BY <1>h DEF MemoryInv, CleanMemory, ItemMemory
  <2>2. manifest'.counts = AuthoritativeCounts(CleanLocations', IndexLocations')
    BY <1>a, <1>g, <1>h, <2>1 DEF MemoryInv
  <2> QED BY <1>a, <1>d, <1>e, <1>h, <2>2 DEF MemoryInv, CountsMatchDisk
<1>1. CASE StartCreate
  <2>1. /\ \A n \in Ordinals : clean[n] = NoSamples /\ index[n] = NoItems
        /\ cstat = NoSamples /\ istat = NoItems
        /\ UNCHANGED <<clean, index, cstat, istat>> /\ pc' = "create_manifest"
    BY <1>1 DEF StartCreate, Control, writer
  <2>2. CleanLocations = NoSamples /\ IndexLocations = NoItems
    BY <2>1, LatestOfNone DEF CleanLocations, IndexLocations, NoSamples, NoItems
  <2>3. CleanMemory' /\ ItemMemory'
    BY <2>1, <2>2, <1>a DEF CleanMemory, ItemMemory
  <2> QED BY <2>1, <2>3, <1>c
<1>2. CASE CreateManifest
  <2>1. /\ \A n \in Ordinals : clean[n] = NoSamples /\ index[n] = NoItems
        /\ after # "abort"
        /\ UNCHANGED <<clean, index, cstat, istat>> /\ pc' = "select"
        /\ manifest' = NewManifest
    BY <1>2 DEF CreateManifest, Control, writer
  <2>2. CleanLocations = NoSamples /\ IndexLocations = NoItems
    BY <2>1, LatestOfNone DEF CleanLocations, IndexLocations, NoSamples, NoItems
  <2>3. manifest'.counts = AuthoritativeCounts(CleanLocations', IndexLocations')
    BY <2>1, <2>2, <1>a, EmptyCounts DEF NewManifest, NoManifest
  <2>4. CleanMemory' /\ ItemMemory'
    BY <1>2, <2>1, <1>d, <1>e DEF CreateManifest
  <2> QED BY <2>1, <2>3, <2>4 DEF MemoryInv, CountsMatchDisk
<1>3. CASE StartResume
  <2>1. CleanMemory' /\ ItemMemory'
    BY <1>3, <1>a DEF StartResume, disk, CleanMemory, ItemMemory
  <2> QED BY <1>3, <2>1, <1>c DEF StartResume
<1>4. CASE ResumeManifest
  BY <1>4, <1>h DEF ResumeManifest, writer, Control
<1>5. CASE SelectWork
  BY <1>5, <1>h DEF SelectWork, writer, disk, Control
<1>6. ASSUME NEW s \in Samples, NEW st \in Statuses, WriteClean(s, st)
      PROVE  MemoryInv'
  <2>1. CASE pc' = "running"
    BY <1>6, <2>1, <1>h DEF WriteClean, disk, Control
  <2>2. CASE pc' = "clean_file"
    BY <1>6, <2>2, <1>c, <1>d, <1>e DEF WriteClean, disk, Control
  <2> QED BY <1>6, <2>1, <2>2 DEF WriteClean
<1>7. ASSUME NEW i \in Items, NEW st \in Statuses, WritePerturbed(i, st)
      PROVE  MemoryInv'
  <2>1. CASE pc' = "running"
    BY <1>7, <2>1, <1>h DEF WritePerturbed, disk, Control
  <2>2. CASE pc' = "data_file"
    BY <1>7, <2>2, <1>c, <1>d, <1>e DEF WritePerturbed, disk, Control
  <2> QED BY <1>7, <2>1, <2>2 DEF WritePerturbed
<1>8. CASE EndOfWork
  <2>1. pc' \notin {"select", "running", "down"}
    BY <1>8, NextPcs DEF EndOfWork, TypeOK, Afters
  <2> QED BY <1>8, <2>1, <1>c, <1>d, <1>e DEF EndOfWork, disk, writer, Control
<1>9. ASSUME NEW a \in {"stop", "abort"}, Stop(a) PROVE MemoryInv'
  <2>1. pc' \notin {"select", "running", "down"}
    BY <1>9, NextPcs DEF Stop, TypeOK, Afters
  <2> QED BY <1>9, <2>1, <1>c, <1>d, <1>e DEF Stop, disk, writer, Control
<1>10. CASE PublishClean
  <2>1. CleanLocations' = Merge(CleanLocations, cbuf)
    BY <1>10, CleanPublished DEF PublishClean
  <2>2. CleanMemory'
    BY <1>10, <2>1, <1>b DEF PublishClean, MemoryInv, CleanMemory
  <2> QED BY <1>10, <2>2, <1>c, <1>e DEF PublishClean
<1>11. CASE CleanCounts
  <2>1. CASE after = "running"
    BY <1>11, <2>1, <1>h DEF CleanCounts, writer
  <2>2. CASE after # "running"
    <3>1. pc' \notin {"select", "running", "down"}
      BY <1>11, <2>2, NextPcs DEF CleanCounts, TypeOK, Afters
    <3> QED BY <1>11, <3>1, <1>c, <1>d, <1>e DEF CleanCounts, writer
  <2> QED BY <2>1, <2>2
<1>12. CASE PublishData
  BY <1>12, <1>c, <1>d, <1>e DEF PublishData
<1>13. CASE PublishIndex
  <2>1. IndexLocations' = Merge(IndexLocations, pbuf)
    BY <1>13, IndexPublished DEF PublishIndex
  <2>2. ItemMemory'
    BY <1>13, <2>1, <1>b DEF PublishIndex, MemoryInv, ItemMemory
  <2> QED BY <1>13, <2>2, <1>c, <1>d DEF PublishIndex
<1>14. CASE ItemCounts
  <2>1. CASE after = "running"
    <3>1. pc' = "running"
      BY <1>14, <2>1 DEF ItemCounts, ClosePc
    <3> QED BY <1>14, <2>1, <3>1, <1>h DEF ItemCounts, writer
  <2>2. CASE after # "running"
    <3>1. pc' \notin {"select", "running", "down"}
      BY <1>14, <2>2, NextPcs DEF ItemCounts, TypeOK, Afters
    <3> QED BY <1>14, <3>1, <1>c, <1>d, <1>e DEF ItemCounts, writer
  <2> QED BY <2>1, <2>2
<1>15. ASSUME NEW success \in BOOLEAN, Close(success) PROVE MemoryInv'
  <2>1. Busy /\ cbuf = NoSamples /\ pbuf = NoItems
    BY <1>15 DEF Close, Control, BuffersEmpty
  <2>2. CleanLocations = cstat /\ IndexLocations = istat
    BY <2>1, <1>b DEF MemoryInv, CleanMemory, ItemMemory
  <2>3. manifest'.counts = AuthoritativeCounts(cstat, istat)
    BY <1>15 DEF Close, SessionManifest
  <2>4. CleanLocations' = CleanLocations /\ IndexLocations' = IndexLocations /\ pc' = "down"
    BY <1>15, <1>a DEF Close, Release
  <2> QED BY <2>2, <2>3, <2>4 DEF MemoryInv, CountsMatchDisk
<1>16. CASE StartRebuild \/ RebuildParted \/ RebuildUnlinked \/ RebuildPart \/ RebuildUnlink
  <2>1. pc' \in {"rebuild_index", "rebuild_unlink", "rebuild_manifest"}
    BY <1>16 DEF StartRebuild, RebuildParted, RebuildUnlinked, RebuildPart, RebuildUnlink
  <2> QED BY <2>1, <1>c
<1>17. CASE RebuildManifest
  <2>1. /\ manifest'.counts = AuthoritativeCounts(CleanLocations, IndexLocations)
        /\ UNCHANGED <<clean, index>> /\ pc' = "down"
    BY <1>17 DEF RebuildManifest, Release, TypeOK
  <2> QED BY <2>1, <1>a DEF MemoryInv, CountsMatchDisk
<1>18. CASE Crash
  BY <1>18, <1>f DEF Crash, Release
<1>19. ASSUME NEW there \in BOOLEAN, FlushError(there) PROVE MemoryInv'
  <2>1. /\ FailedWrite(there) /\ pc \in FlushPcs /\ after' = "abort"
        /\ pc = "clean_file" => cord \in Ordinals
        /\ pc' = FlushPc(cbuf, pbuf, "abort") /\ after # "abort"
        /\ UNCHANGED <<cbuf, pbuf, cstat, istat>>
    BY <1>19 DEF FlushError, writer
  <2>2. pc' \notin {"select", "running", "down"}
    BY <2>1, NextPcs DEF TypeOK, Afters
  <2>3. CleanLocations = cstat /\ IndexLocations = istat
    BY <2>1 DEF MemoryInv, CleanMemory, ItemMemory, FlushPcs
  <2>4. CleanMemory'
    <3>1. CASE UNCHANGED clean
      BY <3>1, <2>1, <2>3, <1>a DEF CleanMemory
    <3>2. CASE pc = "clean_file" /\ clean' = [clean EXCEPT ![cord] = cbuf]
      BY <3>2, <2>1, <2>3, CleanPublished DEF CleanMemory
    <3> QED BY <3>1, <3>2, <2>1 DEF FailedWrite
  <2>5. ItemMemory'
    <3>1. CASE UNCHANGED index
      BY <3>1, <2>1, <2>3, <1>a DEF ItemMemory
    <3>2. CASE pc = "index_file" /\ index' = [index EXCEPT ![pord - 1] = pbuf]
      BY <3>2, <2>1, <2>3, IndexPublished DEF ItemMemory
    <3> QED BY <3>1, <3>2, <2>1 DEF FailedWrite
  <2> QED BY <2>2, <2>4, <2>5, <1>c
<1>20. ASSUME NEW there \in BOOLEAN, CloseFlushError(there) \/ ManifestError(there)
      PROVE  MemoryInv'
  BY <1>20, <1>f DEF CloseFlushError, ManifestError, Release
<1>21. ASSUME NEW n \in Ordinals, LoseChunk(n) PROVE MemoryInv'
  BY <1>21, <1>a DEF LoseChunk, MemoryInv, CountsMatchDisk
<1>22. CASE Idle \/ UNCHANGED vars
  <2>1. UNCHANGED <<pc, after, exit, damaged, manifest, clean, index, cstat, istat, cbuf, pbuf>>
    BY <1>22 DEF Idle, vars
  <2> QED BY <2>1, <1>a DEF MemoryInv, CountsMatchDisk, CleanMemory, ItemMemory
<1> QED
  BY <1>1, <1>2, <1>3, <1>4, <1>5, <1>6, <1>7, <1>8, <1>9, <1>10, <1>11, <1>12,
     <1>13, <1>14, <1>15, <1>16, <1>17, <1>18, <1>19, <1>20, <1>21, <1>22
     DEF Next, Session, Recording, Flushing, Rebuilding, Faults

\* counts_by_status never drifts from what the fragments hold.
THEOREM CountsAlwaysMatch == Spec => []CountsMatchDisk
<1>1. Init => InvA /\ MemoryInv
  BY TypeInit, ControlInit, FileInit, MemoryInit DEF InvA
<1>2. InvA /\ MemoryInv /\ [Next]_vars => (InvA /\ MemoryInv)'
  BY TypeStep, ControlStep, FileStep, MemoryStep DEF InvA
<1>3. MemoryInv => CountsMatchDisk
  BY DEF MemoryInv
<1> QED BY <1>1, <1>2, <1>3, PTL DEF Spec

-----------------------------------------------------------------------------
(* Layer 4.                                                                *)

\* everything is pending at the start
LEMMA AccountInit == Init => AccountInv
BY DEF Init, AccountInv, WorkPcs, FinishedIsComplete, NoManifest

\* every step keeps each sample and item pending, buffered or on disk
LEMMA AccountStep ==
    TypeOK /\ Control /\ FileInv /\ AccountInv /\ [Next]_vars => AccountInv'
<1> SUFFICES ASSUME TypeOK, Control, FileInv, AccountInv, [Next]_vars
             PROVE  AccountInv'
  OBVIOUS
<1>k. Kept
  BY KeptStep
<1>a. /\ \A s \in Samples : Holding(clean, s) # {} => Holding(clean', s) # {}
      /\ pc # "rebuild_unlink" \/ ~damaged =>
           \A i \in Items : Holding(index, i) # {} => Holding(index', i) # {}
  BY <1>k, HoldingKept
<1>b. ASSUME manifest'.finished => manifest.finished PROVE FinishedIsComplete'
  BY <1>b, <1>a, DamagedStep DEF AccountInv, FinishedIsComplete, AllRecorded
<1>c. ASSUME manifest'.finished => manifest.finished, pc' \notin WorkPcs PROVE AccountInv'
  BY <1>b, <1>c DEF AccountInv
<1>d. ASSUME manifest'.finished => manifest.finished,
             pc' \in WorkPcs /\ after' \in {"running", "finish"} =>
               /\ pc \in WorkPcs /\ after \in {"running", "finish"}
               /\ UNCHANGED <<cbuf, pbuf, todoC, todoP>>
      PROVE  AccountInv'
  BY <1>a, <1>b, <1>d DEF AccountInv, WorkPcs, SamplesAccounted, ItemsAccounted
<1>e. SessionManifest(cstat, istat).finished = FALSE /\ NewManifest.finished = FALSE
  BY DEF SessionManifest, NewManifest, NoManifest
<1>1. CASE StartCreate \/ CreateManifest \/ StartResume \/ ResumeManifest
  BY <1>1, <1>c, <1>e
     DEF StartCreate, CreateManifest, StartResume, ResumeManifest, WorkPcs, disk
<1>2. CASE SelectWork
  <2>1. SamplesAccounted'
    BY <1>2 DEF SelectWork, SamplesAccounted, PendingSamples, CleanLocations, Latest, disk
  <2>2. ASSUME NEW i \in Items, i \notin todoP' PROVE Holding(index, i) # {}
    <3>1. PICK c \in Chunks : i \in c
      BY PlanAssumption
    <3>2. IndexLocations[i] # Absent
      BY <1>2, <2>2, <3>1 DEF SelectWork, PendingChunks
    <3> QED BY <3>2 DEF IndexLocations, Latest
  <2>3. ItemsAccounted'
    BY <1>2, <2>2 DEF SelectWork, ItemsAccounted, disk
  <2> QED BY <1>2, <2>1, <2>3, <1>b DEF SelectWork, AccountInv, disk
<1>3. ASSUME NEW s \in Samples, NEW st \in Statuses, WriteClean(s, st)
      PROVE  AccountInv'
  <2>1. SamplesAccounted /\ ItemsAccounted
    BY <1>3 DEF WriteClean, AccountInv, Control, WorkPcs
  <2>2. SamplesAccounted' /\ ItemsAccounted'
    BY <1>3, <2>1, <1>a, StatusAssumption
       DEF WriteClean, SamplesAccounted, ItemsAccounted, TypeOK, CleanRows, disk
  <2> QED BY <1>3, <2>2, <1>b DEF WriteClean, AccountInv, disk
<1>4. ASSUME NEW i \in Items, NEW st \in Statuses, WritePerturbed(i, st)
      PROVE  AccountInv'
  <2>1. SamplesAccounted /\ ItemsAccounted
    BY <1>4 DEF WritePerturbed, AccountInv, Control, WorkPcs
  <2>2. SamplesAccounted' /\ ItemsAccounted'
    BY <1>4, <2>1, <1>a, StatusAssumption
       DEF WritePerturbed, SamplesAccounted, ItemsAccounted, TypeOK, ItemRows, disk
  <2> QED BY <1>4, <2>2, <1>b DEF WritePerturbed, AccountInv, disk
<1>5. CASE EndOfWork
  BY <1>5, <1>d DEF EndOfWork, disk, writer, work, WorkPcs, Control
<1>6. ASSUME NEW a \in {"stop", "abort"}, Stop(a) PROVE AccountInv'
  BY <1>6, <1>d DEF Stop, disk
<1>7. CASE PublishClean
  <2>1. ASSUME NEW s \in Samples, cbuf[s] # Absent PROVE Holding(clean', s) # {}
    BY <1>7, <2>1 DEF PublishClean, Holding, TypeOK, Files
  <2>2. pc \in WorkPcs /\ after' = after /\ manifest' = manifest
        /\ UNCHANGED <<todoC, todoP, pbuf, index>>
    BY <1>7 DEF PublishClean, WorkPcs, work
  <2>3. SamplesAccounted => SamplesAccounted'
    BY <2>1, <2>2, <1>a DEF SamplesAccounted
  <2>4. ItemsAccounted => ItemsAccounted'
    BY <2>2 DEF ItemsAccounted
  <2> QED BY <2>2, <2>3, <2>4, <1>b DEF AccountInv
<1>8. CASE CleanCounts \/ ItemCounts
  BY <1>8, <1>d, <1>e DEF CleanCounts, ItemCounts, writer, work, WorkPcs
<1>9. CASE PublishData
  BY <1>9, <1>d DEF PublishData, work, WorkPcs
<1>10. CASE PublishIndex
  <2>1. ASSUME NEW i \in Items, pbuf[i] # Absent PROVE Holding(index', i) # {}
    BY <1>10, <2>1 DEF PublishIndex, Holding, TypeOK, Files, FileInv, DataPublished
  <2>2. pc \in WorkPcs /\ after' = after /\ manifest' = manifest
        /\ UNCHANGED <<todoC, todoP, cbuf, clean>> /\ pc # "rebuild_unlink"
    BY <1>10 DEF PublishIndex, WorkPcs, work
  <2>3. ItemsAccounted => ItemsAccounted'
    BY <2>1, <2>2, <1>a DEF ItemsAccounted
  <2>4. SamplesAccounted => SamplesAccounted'
    BY <2>2 DEF SamplesAccounted
  <2> QED BY <2>2, <2>3, <2>4, <1>b DEF AccountInv
\* where finished_at is set, nothing is left to do
<1>f. ASSUME pc = "close_ok", UNCHANGED <<clean, index>> PROVE FinishedIsComplete'
  <2>1. /\ cbuf = NoSamples /\ pbuf = NoItems /\ todoC = {} /\ todoP = {}
        /\ SamplesAccounted /\ ItemsAccounted
    BY <1>f DEF Control, BuffersEmpty, AccountInv, WorkPcs
  <2>2. AllRecorded
    BY <2>1 DEF AllRecorded, SamplesAccounted, ItemsAccounted, NoSamples, NoItems, NoRows
  <2> QED BY <1>f, <2>2 DEF FinishedIsComplete, AllRecorded
<1>11. CASE Close(TRUE)
  BY <1>11, <1>f DEF Close, Release, AccountInv, WorkPcs
<1>12. CASE Close(FALSE)
  BY <1>12, <1>c, <1>e DEF Close, Release, WorkPcs, SessionManifest
<1>13. CASE Rebuilding
  <2>1. pc' \notin WorkPcs /\ manifest'.finished = manifest.finished
    BY <1>13 DEF Rebuilding, StartRebuild, RebuildPart, RebuildParted, RebuildUnlink,
         RebuildUnlinked, RebuildManifest, Release, WorkPcs, disk, TypeOK
  <2> QED BY <2>1, <1>c
<1>14. CASE Crash
  BY <1>14, <1>c DEF Crash, Release, WorkPcs, disk
<1>15. ASSUME NEW there \in BOOLEAN, FlushError(there) PROVE AccountInv'
  <2>1. manifest'.finished => manifest.finished
    BY <1>15, <1>e DEF FlushError, FailedWrite
  <2> QED BY <1>15, <2>1, <1>d DEF FlushError
<1>16. ASSUME NEW there \in BOOLEAN, CloseFlushError(there) PROVE AccountInv'
  <2>1. manifest'.finished => manifest.finished
    BY <1>16, <1>e DEF CloseFlushError, FailedWrite
  <2> QED BY <1>16, <2>1, <1>c DEF CloseFlushError, Release, WorkPcs
<1>17. ASSUME NEW there \in BOOLEAN, ManifestError(there) PROVE AccountInv'
  <2>1. pc' = "down" /\ UNCHANGED <<clean, index>>
    BY <1>17 DEF ManifestError, Release
  <2>2. CASE pc = "close_ok"
    BY <2>1, <2>2, <1>f DEF AccountInv, WorkPcs
  <2>3. CASE pc # "close_ok"
    <3>1. manifest'.finished => manifest.finished
      BY <1>17, <2>3, <1>e DEF ManifestError, TypeOK
    <3> QED BY <2>1, <3>1, <1>c DEF WorkPcs
  <2> QED BY <2>2, <2>3
<1>18. ASSUME NEW n \in Ordinals, LoseChunk(n) PROVE AccountInv'
  BY <1>18, <1>c DEF LoseChunk, WorkPcs
<1>19. CASE Idle \/ UNCHANGED vars
  BY <1>19, <1>d DEF Idle, vars
<1> QED
  BY <1>1, <1>2, <1>3, <1>4, <1>5, <1>6, <1>7, <1>8, <1>9, <1>10, <1>11, <1>12,
     <1>13, <1>14, <1>15, <1>16, <1>17, <1>18, <1>19
     DEF Next, Session, Recording, Flushing, Faults

\* finished_at is set on nothing but a complete dump.
THEOREM FinishedAlwaysComplete == Spec => []FinishedIsComplete
<1>1. Init => InvA /\ AccountInv
  BY TypeInit, ControlInit, FileInit, AccountInit DEF InvA
<1>2. InvA /\ AccountInv /\ [Next]_vars => (InvA /\ AccountInv)'
  BY TypeStep, ControlStep, FileStep, AccountStep DEF InvA
<1>3. AccountInv => FinishedIsComplete
  BY DEF AccountInv
<1> QED BY <1>1, <1>2, <1>3, PTL DEF Spec

-----------------------------------------------------------------------------
(* AuditDump implements ResultLog.                                         *)

\* no result is recorded twice by a session, and a session that records has
\* taken the finished mark back
OnceInv ==
    /\ \A s \in todoC : cbuf[s] = Absent
    /\ \A i \in todoP : pbuf[i] = Absent
    /\ pc \notin Idlers \cup {"create_manifest", "resume_manifest"}
         => ~manifest.finished

\* no step buffers what is pending
LEMMA OnceStep == TypeOK /\ Control /\ OnceInv /\ [Next]_vars => OnceInv'
<1> SUFFICES ASSUME TypeOK, Control, OnceInv, [Next]_vars PROVE OnceInv'
  OBVIOUS
<1> USE DEF OnceInv, Idlers
<1>e. /\ SessionManifest(cstat, istat).finished = FALSE
      /\ NewManifest.finished = FALSE
  BY DEF SessionManifest, NewManifest, NoManifest
<1>f. \A s \in Samples : NoSamples[s] = Absent
  BY DEF NoSamples, NoRows
<1>g. \A i \in Items : NoItems[i] = Absent
  BY DEF NoItems, NoRows
<1>h. todoC \subseteq Samples /\ todoP \subseteq Items
  BY DEF TypeOK
<1>r. ASSUME NEW how, Release(how) PROVE OnceInv'
  BY <1>r DEF Release, Cleared
<1>1. CASE \/ StartCreate \/ CreateManifest \/ StartResume \/ ResumeManifest
           \/ EndOfWork \/ CleanCounts \/ PublishData \/ ItemCounts
  BY <1>1, <1>e, NextPcs
     DEF StartCreate, CreateManifest, StartResume, ResumeManifest, EndOfWork,
         CleanCounts, PublishData, ItemCounts, disk, writer, work, Control, TypeOK
<1>2. CASE SelectWork
  BY <1>2, <1>f, <1>g, PlanAssumption
     DEF SelectWork, disk, writer, Control, BuffersEmpty, PendingSamples, PendingChunks
<1>3. ASSUME NEW s \in Samples, NEW st \in Statuses, WriteClean(s, st)
      PROVE  OnceInv'
  BY <1>3, <1>h DEF WriteClean, disk, TypeOK, CleanRows
<1>4. ASSUME NEW i \in Items, NEW st \in Statuses, WritePerturbed(i, st)
      PROVE  OnceInv'
  BY <1>4, <1>h DEF WritePerturbed, disk, TypeOK, ItemRows
<1>5. ASSUME NEW a \in {"stop", "abort"}, Stop(a) PROVE OnceInv'
  BY <1>5 DEF Stop, disk, writer, work
<1>6. CASE PublishClean
  BY <1>6, <1>f, <1>h DEF PublishClean, work
<1>7. CASE PublishIndex
  BY <1>7, <1>g, <1>h DEF PublishIndex, work
<1>8. ASSUME NEW success \in BOOLEAN, Close(success) PROVE OnceInv'
  BY <1>8, <1>r DEF Close
<1>9. CASE StartRebuild \/ RebuildPart \/ RebuildParted \/ RebuildUnlink \/ RebuildUnlinked
  BY <1>9 DEF StartRebuild, RebuildPart, RebuildParted, RebuildUnlink,
              RebuildUnlinked, disk, writer, work
<1>10. CASE RebuildManifest
  BY <1>10, <1>r DEF RebuildManifest
<1>11. CASE Crash
  BY <1>11, <1>r DEF Crash, disk
<1>12. ASSUME NEW there \in BOOLEAN, FlushError(there) PROVE OnceInv'
  BY <1>12, <1>e, NextPcs
     DEF FlushError, FailedWrite, FlushPcs, writer, work, TypeOK, Afters
<1>13. ASSUME NEW there \in BOOLEAN, CloseFlushError(there) PROVE OnceInv'
  BY <1>13, <1>e, <1>r DEF CloseFlushError, FailedWrite
<1>14. ASSUME NEW there \in BOOLEAN, ManifestError(there) PROVE OnceInv'
  BY <1>14, <1>r DEF ManifestError
<1>15. ASSUME NEW n \in Ordinals, LoseChunk(n) PROVE OnceInv'
  BY <1>15 DEF LoseChunk, writer, work
<1>16. CASE Idle \/ UNCHANGED vars
  BY <1>16 DEF Idle, vars
<1> QED
  BY <1>1, <1>2, <1>3, <1>4, <1>5, <1>6, <1>7, <1>8, <1>9, <1>10, <1>11, <1>12,
     <1>13, <1>14, <1>15, <1>16
     DEF Next, Session, Recording, Flushing, Rebuilding, Faults

Results == Both(CleanLocations, IndexLocations)
Held == Both(cbuf, pbuf)
LogVars == <<Results, Held, pc \notin Idlers, manifest.finished, damaged>>

\* A record added to one of the two buffers is the same record added to the pair.
LEMMA BothSample ==
  ASSUME TypeOK, NEW s \in Samples, NEW st
  PROVE  Both([cbuf EXCEPT ![s] = st], pbuf) = [Both(cbuf, pbuf) EXCEPT ![s] = st]
<1> DEFINE B == Both(cbuf, pbuf)
           L == Both([cbuf EXCEPT ![s] = st], pbuf)
           R == [B EXCEPT ![s] = st]
<1> SUFFICES L = R
  OBVIOUS
<1>t. cbuf \in [Samples -> Recorded]
  BY DEF TypeOK, CleanRows
<1>1. L = [k \in Samples \cup Items |-> L[k]]
  BY DEF Both
<1>2. R = [k \in Samples \cup Items |-> R[k]]
  <2>1. B = [k \in Samples \cup Items |-> B[k]]
    BY DEF Both
  <2> HIDE DEF B
  <2> QED BY <2>1
<1>3. ASSUME NEW k \in Samples \cup Items PROVE L[k] = R[k]
  BY <1>3, <1>t DEF Both
<1> HIDE DEF L, R
<1> QED BY <1>1, <1>2, <1>3

\* changing an item changes it in the pair of maps
LEMMA BothItem ==
  ASSUME TypeOK, NEW i \in Items, NEW st
  PROVE  Both(cbuf, [pbuf EXCEPT ![i] = st]) = [Both(cbuf, pbuf) EXCEPT ![i] = st]
<1> DEFINE B == Both(cbuf, pbuf)
           L == Both(cbuf, [pbuf EXCEPT ![i] = st])
           R == [B EXCEPT ![i] = st]
<1> SUFFICES L = R
  OBVIOUS
<1>t. pbuf \in [Items -> Recorded]
  BY DEF TypeOK, ItemRows
<1>1. L = [k \in Samples \cup Items |-> L[k]]
  BY DEF Both
<1>2. R = [k \in Samples \cup Items |-> R[k]]
  <2>1. B = [k \in Samples \cup Items |-> B[k]]
    BY DEF Both
  <2> HIDE DEF B
  <2> QED BY <2>1
<1>3. ASSUME NEW k \in Samples \cup Items PROVE L[k] = R[k]
  <2>1. CASE k \in Samples
    BY <2>1, <1>t, PlanAssumption DEF Both
  <2>2. CASE k \in Items
    BY <2>2, <1>t, PlanAssumption DEF Both
  <2> QED BY <2>1, <2>2
<1> HIDE DEF L, R
<1> QED BY <1>1, <1>2, <1>3

\* the pair of maps is one of both kinds
LEMMA BothFacts ==
    /\ Both(NoSamples, NoItems) = Log!Nothing
    /\ \A c, p : /\ \A s \in Samples : Both(c, p)[s] = c[s]
                 /\ \A i \in Items : Both(c, p)[i] = p[i]
    /\ \A c \in CleanRows, p \in ItemRows : Both(c, p) \in Log!Maps
BY PlanAssumption DEF Both, NoSamples, NoItems, NoRows, Log!Nothing, Log!Maps,
                      CleanRows, ItemRows, Recorded

\* publishing one buffer makes exactly its results durable
LEMMA AddingSamples ==
    ASSUME TypeOK, CleanLocations' = Merge(CleanLocations, cbuf),
           IndexLocations' = IndexLocations
    PROVE  Results' = Log!Adding(Samples)
<1>1. DOMAIN cbuf = Samples /\ DOMAIN CleanLocations = Samples
  BY DEF TypeOK, CleanRows, CleanLocations, Latest
<1>2. Results' = Both(Merge(CleanLocations, cbuf), IndexLocations)
  BY DEF Results
<1> QED BY <1>1, <1>2 DEF Log!Adding, Both, Merge

\* publishing an index part adds items to the log
LEMMA AddingItems ==
    ASSUME TypeOK, IndexLocations' = Merge(IndexLocations, pbuf),
           CleanLocations' = CleanLocations
    PROVE  Results' = Log!Adding(Items)
<1>1. DOMAIN pbuf = Items /\ DOMAIN IndexLocations = Items
  BY DEF TypeOK, ItemRows, IndexLocations, Latest
<1>2. Results' = Both(CleanLocations, Merge(IndexLocations, pbuf))
  BY DEF Results
<1> QED BY <1>1, <1>2, PlanAssumption DEF Log!Adding, Both, Merge

\* the dump starts as an empty log
LEMMA LogInit == Init => Log!Init
<1> SUFFICES ASSUME Init PROVE Log!Init
  OBVIOUS
<1>1. CleanLocations = NoSamples /\ IndexLocations = NoItems
  BY LatestOfNone DEF Init, CleanLocations, IndexLocations, NoSamples, NoItems
<1>2. ~(pc \notin Idlers) /\ ~manifest.finished /\ ~damaged
  BY DEF Init, Idlers, NoManifest
<1> QED BY <1>1, <1>2, BothFacts DEF Init, Log!Init, NoManifest

\* every step is one of the log, or changes nothing of it
LEMMA LogStep ==
    TypeOK /\ TypeOK' /\ Control /\ FileInv /\ AccountInv /\ OnceInv /\ [Next]_vars
    => [Log!Next]_(Log!vars)
<1> SUFFICES ASSUME TypeOK, TypeOK', Control, FileInv, AccountInv, OnceInv, [Next]_vars
             PROVE  [Log!Next]_(Log!vars)
  OBVIOUS
<1> DEFINE Open == pc \notin Idlers
<1>a. /\ UNCHANGED <<clean, index>> => Results' = Results
      /\ UNCHANGED <<cbuf, pbuf>> => Held' = Held
  BY DEF Results, Held, CleanLocations, IndexLocations
<1>b. BuffersEmpty => Held = Log!Nothing
  BY BothFacts DEF BuffersEmpty, Held
<1>c. (cbuf' = NoSamples /\ pbuf' = NoItems) => Held' = Log!Nothing
  BY BothFacts DEF Held
<1>n. /\ SessionManifest(cstat, istat).finished = FALSE
      /\ NewManifest.finished = FALSE
  BY DEF SessionManifest, NewManifest, NoManifest
<1>m. manifest.finished \in BOOLEAN /\ damaged \in BOOLEAN
  BY DEF TypeOK
<1>s. ASSUME UNCHANGED <<Results, Held, damaged>>, Open' <=> Open,
             manifest'.finished = manifest.finished
      PROVE  [Log!Next]_(Log!vars)
  BY <1>s DEF Log!vars, Results, Held
<1>u. ASSUME UNCHANGED <<clean, index, cbuf, pbuf, damaged>>, Open' <=> Open,
             manifest'.finished = manifest.finished
      PROVE  [Log!Next]_(Log!vars)
  BY <1>a, <1>s, <1>u
\* a session ends with what it published so far
<1>f. ASSUME Open, ~Open', Held' = Log!Nothing, damaged' = damaged,
             NEW S \in SUBSET (Samples \cup Items), Results' = Log!Adding(S),
             manifest'.finished = manifest.finished \/ manifest'.finished = FALSE
      PROVE  [Log!Next]_(Log!vars)
  <2>1. Log!Fail(S)
    BY <1>f DEF Log!Fail, Results, Held
  <2> QED BY <2>1 DEF Log!Next
<1>e. Results = Log!Adding({})
  BY DEF Log!Adding, Results, Both
<1>g. ASSUME Open, ~Open', Held' = Log!Nothing,
             UNCHANGED <<clean, index, damaged>>,
             manifest'.finished = manifest.finished \/ manifest'.finished = FALSE
      PROVE  [Log!Next]_(Log!vars)
  BY <1>a, <1>e, <1>f, <1>g
\* held results become durable
<1>h. ASSUME Open, Open', damaged' = damaged, manifest'.finished = manifest.finished,
             NEW S \in SUBSET (Samples \cup Items), Results' = Log!Adding(S),
             \/ Held' = Held
             \/ Held' = [k \in Samples \cup Items |-> IF k \in S THEN Absent ELSE Held[k]]
      PROVE  [Log!Next]_(Log!vars)
  <2>1. Log!Commit(S)
    BY <1>h DEF Log!Commit, Results, Held
  <2> QED BY <2>1 DEF Log!Next
\* finished_at is set
<1>i. ASSUME pc = "close_ok", pc' = "down", cbuf' = NoSamples, pbuf' = NoItems,
             UNCHANGED <<clean, index, damaged>>, manifest'.finished = TRUE
      PROVE  [Log!Next]_(Log!vars)
  <2>1. /\ BuffersEmpty /\ todoC = {} /\ todoP = {}
        /\ SamplesAccounted /\ ItemsAccounted
    BY <1>i DEF Control, AccountInv, WorkPcs
  <2>2. /\ \A s \in Samples : Holding(clean, s) # {}
        /\ \A i \in Items : Holding(index, i) # {}
    BY <2>1 DEF SamplesAccounted, ItemsAccounted, BuffersEmpty, NoSamples, NoItems, NoRows
  <2>3. \A s \in Samples : CleanLocations[s] # Absent
    <3> SUFFICES ASSUME NEW s \in Samples PROVE clean[LatestOrd(clean, s)][s] # Absent
      BY <2>2 DEF CleanLocations, Latest
    <3> QED BY <2>2, LatestOrdIsGreatest DEF Holding
  <2>4. \A i \in Items : IndexLocations[i] # Absent
    <3> SUFFICES ASSUME NEW i \in Items PROVE index[LatestOrd(index, i)][i] # Absent
      BY <2>2 DEF IndexLocations, Latest
    <3> QED BY <2>2, LatestOrdIsGreatest DEF Holding
  <2>5. \A k \in Samples \cup Items : Results[k] # Absent
    BY <2>3, <2>4, BothFacts DEF Results
  <2>6. Held = Log!Nothing /\ Held' = Log!Nothing /\ Results' = Results
    BY <2>1, <1>a, <1>b, <1>c, <1>i
  <2>7. (pc \notin Idlers) /\ ~(pc' \notin Idlers)
    BY <1>i DEF Idlers
  <2>8. Log!Finish
    BY <2>5, <2>6, <2>7, <1>i DEF Log!Finish, Log!Complete, Results, Held
  <2> QED BY <2>8 DEF Log!Next
\* an index part is written or removed by a rebuild
<1>j. ASSUME ~Open, ~Open', pc # "rebuild_unlink" \/ damaged \/ UNCHANGED index,
             UNCHANGED <<clean, cbuf, pbuf, damaged, manifest>>
      PROVE  [Log!Next]_(Log!vars)
  <2>1. Results' \in Log!Maps
    <3>1. CleanLocations' \in CleanRows /\ IndexLocations' \in ItemRows
      BY LatestType DEF TypeOK, CleanLocations, IndexLocations, CleanRows, ItemRows
    <3> QED BY <3>1, BothFacts DEF Results
  <2>2. ASSUME ~damaged, NEW k \in Samples \cup Items, Results[k] # Absent
        PROVE  Results'[k] # Absent
    <3>1. CASE k \in Samples
      BY <2>2, <3>1, <1>a, <1>j, BothFacts DEF Results, CleanLocations
    <3>2. CASE k \in Items
      <4>1. IndexLocations[k] # Absent
        BY <2>2, <3>2, BothFacts DEF Results
      <4>2. Holding(index, k) # {}
        BY <3>2, <4>1 DEF IndexLocations, Latest
      <4>3. Holding(index, k) \subseteq Holding(index', k)
        BY <2>2, <3>2, KeptStep, HoldingKept
      <4>4. index'[LatestOrd(index', k)][k] # Absent
        BY <4>2, <4>3, LatestOrdIsGreatest DEF Holding
      <4>5. IndexLocations'[k] # Absent
        BY <3>2, <4>2, <4>3, <4>4 DEF IndexLocations, Latest
      <4> QED BY <3>2, <4>5, BothFacts DEF Results
    <3> QED BY <3>1, <3>2
  <2>3. Log!Repair
    BY <2>1, <2>2, <1>a, <1>j DEF Log!Repair, Results, Held
  <2> QED BY <2>3 DEF Log!Next
<1>k. ASSUME ~Open, Open', UNCHANGED <<clean, index, cbuf, pbuf, damaged>>,
             manifest'.finished = manifest.finished
      PROVE  [Log!Next]_(Log!vars)
  <2>1. Log!Open
    BY <1>a, <1>k DEF Log!Open, Results, Held
  <2> QED BY <2>1 DEF Log!Next
<1>l. ASSUME Open, Open', UNCHANGED <<clean, index, cbuf, pbuf, damaged>>,
             BuffersEmpty, manifest'.finished = FALSE
      PROVE  [Log!Next]_(Log!vars)
  <2>1. Log!Reopen
    BY <1>a, <1>b, <1>l DEF Log!Reopen, Results, Held
  <2> QED BY <2>1 DEF Log!Next
<1> HIDE DEF Open
<1>p. /\ Open <=> pc \notin {"down", "rebuild_index", "rebuild_unlink", "rebuild_manifest"}
      /\ Open' <=> pc' \notin {"down", "rebuild_index", "rebuild_unlink", "rebuild_manifest"}
  BY DEF Open, Idlers
<1>q. ASSUME NEW how, Release(how)
      PROVE  ~Open' /\ cbuf' = NoSamples /\ pbuf' = NoItems /\ Held' = Log!Nothing
  BY <1>q, <1>c, <1>p DEF Release, Cleared
<1>r. pc \notin Idlers \cup {"create_manifest", "resume_manifest"} => manifest.finished = FALSE
  BY <1>m DEF OnceInv
<1>1. CASE StartCreate \/ StartResume
  BY <1>1, <1>k, <1>p DEF StartCreate, StartResume, writer, disk
<1>2. CASE CreateManifest \/ ResumeManifest
  <2>1. /\ UNCHANGED <<clean, index, cbuf, pbuf, damaged>> /\ manifest'.finished = FALSE
        /\ pc \in {"create_manifest", "resume_manifest"} /\ pc' = "select"
    BY <1>2, <1>n DEF CreateManifest, ResumeManifest, writer
  <2>2. BuffersEmpty
    BY <2>1 DEF Control
  <2> QED BY <2>1, <2>2, <1>l, <1>p
<1>3. CASE SelectWork
  BY <1>3, <1>u, <1>p DEF SelectWork, disk, writer
<1>4. ASSUME NEW s \in Samples, NEW st \in Statuses, WriteClean(s, st)
      PROVE  [Log!Next]_(Log!vars)
  <2>1. /\ Open /\ Open' /\ UNCHANGED <<clean, index, damaged, manifest>>
        /\ manifest.finished = FALSE /\ cbuf[s] = Absent
        /\ cbuf' = [cbuf EXCEPT ![s] = st] /\ pbuf' = pbuf
    BY <1>4, <1>p, <1>r DEF WriteClean, OnceInv, disk, Idlers
  <2>2. Held' = [Held EXCEPT ![s] = st] /\ Held[s] = Absent
    <3>1. Both([cbuf EXCEPT ![s] = st], pbuf) = [Both(cbuf, pbuf) EXCEPT ![s] = st]
      BY BothSample
    <3>2. Held' = Both([cbuf EXCEPT ![s] = st], pbuf) /\ Held = Both(cbuf, pbuf)
      BY <2>1 DEF Held
    <3>3. Held[s] = Absent
      BY <2>1, <3>2, BothFacts
    <3> QED BY <3>1, <3>2, <3>3
  <2>3. Log!Record(s, st)
    BY <2>1, <2>2, <1>a DEF Log!Record, Results, Held, Open
  <2> QED BY <2>3 DEF Log!Next
<1>5. ASSUME NEW i \in Items, NEW st \in Statuses, WritePerturbed(i, st)
      PROVE  [Log!Next]_(Log!vars)
  <2>1. /\ Open /\ Open' /\ UNCHANGED <<clean, index, damaged, manifest>>
        /\ manifest.finished = FALSE /\ pbuf[i] = Absent
        /\ pbuf' = [pbuf EXCEPT ![i] = st] /\ cbuf' = cbuf
    BY <1>5, <1>p, <1>r DEF WritePerturbed, OnceInv, disk, Idlers
  <2>2. Held' = [Held EXCEPT ![i] = st] /\ Held[i] = Absent
    <3>1. Both(cbuf, [pbuf EXCEPT ![i] = st]) = [Both(cbuf, pbuf) EXCEPT ![i] = st]
      BY BothItem
    <3>2. Held' = Both(cbuf, [pbuf EXCEPT ![i] = st]) /\ Held = Both(cbuf, pbuf)
      BY <2>1 DEF Held
    <3>3. Held[i] = Absent
      BY <2>1, <3>2, BothFacts
    <3> QED BY <3>1, <3>2, <3>3
  <2>3. Log!Record(i, st)
    BY <2>1, <2>2, <1>a DEF Log!Record, Results, Held, Open
  <2> QED BY <2>3 DEF Log!Next
<1>6. CASE EndOfWork
  BY <1>6, <1>u, <1>p, NextPcs DEF EndOfWork, disk, writer, TypeOK, Afters
<1>7. ASSUME NEW a \in {"stop", "abort"}, Stop(a) PROVE [Log!Next]_(Log!vars)
  BY <1>7, <1>u, <1>p, NextPcs DEF Stop, disk, writer, TypeOK, Afters
<1>8. CASE PublishClean
  <2>1. Results' = Log!Adding(Samples)
    BY <1>8, CleanPublished, AddingSamples DEF PublishClean, IndexLocations
  <2>2. Held' = [k \in Samples \cup Items |-> IF k \in Samples THEN Absent ELSE Held[k]]
    BY <1>8 DEF PublishClean, Held, Both, NoSamples, NoRows
  <2> QED BY <1>8, <2>1, <2>2, <1>h, <1>p DEF PublishClean
<1>9. CASE PublishIndex
  <2>1. Results' = Log!Adding(Items)
    BY <1>9, IndexPublished, AddingItems DEF PublishIndex, CleanLocations
  <2>2. Held' = [k \in Samples \cup Items |-> IF k \in Items THEN Absent ELSE Held[k]]
    BY <1>9, PlanAssumption DEF PublishIndex, Held, Both, NoItems, NoRows
  <2> QED BY <1>9, <2>1, <2>2, <1>h, <1>p DEF PublishIndex
<1>10. CASE PublishData
  BY <1>10, <1>u, <1>p DEF PublishData
<1>11. CASE CleanCounts \/ ItemCounts
  <2>1. /\ pc' \notin Idlers /\ pc \in {"clean_counts", "item_counts"}
    BY <1>11, NextPcs DEF CleanCounts, ItemCounts, TypeOK, Afters, Idlers
  <2> QED BY <1>11, <2>1, <1>n, <1>p, <1>r, <1>u DEF CleanCounts, ItemCounts, writer, Idlers
<1>12. CASE Close(TRUE)
  <2>1. manifest'.finished = TRUE
    BY <1>12 DEF Close, SessionManifest
  <2> QED BY <1>12, <2>1, <1>i, <1>q DEF Close, Release
<1>13. CASE Close(FALSE)
  <2>1. manifest'.finished = FALSE
    BY <1>13 DEF Close, SessionManifest
  <2> QED BY <1>13, <2>1, <1>g, <1>p, <1>q DEF Close
<1>14. CASE StartRebuild \/ RebuildParted \/ RebuildUnlinked
  BY <1>14, <1>u, <1>p DEF StartRebuild, RebuildParted, RebuildUnlinked, disk, writer
<1>15. CASE RebuildPart
  BY <1>15, <1>j, <1>p DEF RebuildPart, writer
<1>16. CASE RebuildUnlink
  <2>1. PICK n \in scan : index' = [index EXCEPT ![n] = NoItems]
    BY <1>16 DEF RebuildUnlink
  <2>2. scan \subseteq Published(index) \ Published(chunk)
    BY <1>16 DEF RebuildUnlink, FileInv
  <2>3. n \in Ordinals /\ index[n] # NoItems /\ chunk[n] = NoItems
    BY <2>2, PublishedChunks DEF TypeOK, Published
  <2>4. damaged
    BY <2>3, BackedIff DEF FileInv, Backed
  <2> QED BY <1>16, <2>4, <1>j, <1>p DEF RebuildUnlink, writer
<1>17. CASE RebuildManifest
  <2>1. manifest'.finished = manifest.finished /\ UNCHANGED <<clean, index, damaged>>
    BY <1>17 DEF RebuildManifest, TypeOK
  <2>2. UNCHANGED <<cbuf, pbuf>> /\ ~Open /\ ~Open'
    BY <1>17, <1>q, <1>p DEF RebuildManifest, Control, BuffersEmpty, Idlers
  <2> QED BY <2>1, <2>2, <1>u
\* an end of a command that leaves the latest rows as they are
<1>t. ASSUME NEW how, Release(how), pc # "close_ok" \/ manifest'.finished # TRUE,
             UNCHANGED <<clean, index, damaged>>,
             manifest'.finished = manifest.finished \/ (Open /\ manifest'.finished = FALSE)
      PROVE  [Log!Next]_(Log!vars)
  <2>1. CASE Open
    BY <2>1, <1>g, <1>q, <1>t
  <2>2. CASE ~Open
    <3>1. UNCHANGED <<cbuf, pbuf>>
      BY <2>2, <1>p, <1>q, <1>t DEF Control, BuffersEmpty, Idlers
    <3> QED BY <2>2, <3>1, <1>q, <1>t, <1>u
  <2> QED BY <2>1, <2>2
<1>18. CASE Crash
  BY <1>18, <1>r, <1>t DEF Crash, disk, Idlers
<1>19. ASSUME NEW there \in BOOLEAN, FlushError(there) PROVE [Log!Next]_(Log!vars)
  <2>1. /\ FailedWrite(there) /\ pc \in FlushPcs /\ pc' = FlushPc(cbuf, pbuf, "abort")
        /\ pc = "clean_file" => cord \in Ordinals
        /\ UNCHANGED <<cbuf, pbuf, damaged>>
    BY <1>19 DEF FlushError, writer
  <2>2. Open /\ Open' /\ manifest.finished = FALSE
    BY <2>1, <1>p, <1>r, NextPcs DEF FlushPcs, TypeOK, Afters, Idlers
  <2>3. manifest'.finished = FALSE
    BY <2>1, <2>2, <1>n DEF FailedWrite
  <2>4. CASE UNCHANGED <<clean, index>>
    BY <2>1, <2>2, <2>3, <2>4, <1>u
  <2>5. CASE pc = "clean_file" /\ there
    <3>1. Results' = Log!Adding(Samples)
      BY <2>1, <2>5, CleanPublished, AddingSamples DEF FailedWrite, IndexLocations
    <3> QED BY <2>1, <2>2, <2>3, <3>1, <1>a, <1>h
  <2>6. CASE pc = "index_file" /\ there
    <3>1. Results' = Log!Adding(Items)
      BY <2>1, <2>6, IndexPublished, AddingItems DEF FailedWrite, CleanLocations
    <3> QED BY <2>1, <2>2, <2>3, <3>1, <1>a, <1>h
  <2> QED BY <2>1, <2>4, <2>5, <2>6 DEF FailedWrite
<1>20. ASSUME NEW there \in BOOLEAN, CloseFlushError(there) PROVE [Log!Next]_(Log!vars)
  <2>1. /\ FailedWrite(there) /\ pc \in FlushPcs /\ Release("failed")
        /\ pc = "clean_file" => cord \in Ordinals
        /\ UNCHANGED damaged
    BY <1>20 DEF CloseFlushError
  <2>2. Open /\ manifest.finished = FALSE
    BY <2>1, <1>p, <1>r DEF FlushPcs, Idlers
  <2>3. manifest'.finished = FALSE
    BY <2>1, <2>2, <1>n DEF FailedWrite
  <2>4. CASE UNCHANGED <<clean, index>>
    BY <2>1, <2>2, <2>3, <2>4, <1>t
  <2>5. CASE pc = "clean_file" /\ there
    <3>1. Results' = Log!Adding(Samples)
      BY <2>1, <2>5, CleanPublished, AddingSamples DEF FailedWrite, IndexLocations
    <3> QED BY <2>1, <2>2, <2>3, <3>1, <1>f, <1>q
  <2>6. CASE pc = "index_file" /\ there
    <3>1. Results' = Log!Adding(Items)
      BY <2>1, <2>6, IndexPublished, AddingItems DEF FailedWrite, CleanLocations
    <3> QED BY <2>1, <2>2, <2>3, <3>1, <1>f, <1>q
  <2> QED BY <2>1, <2>4, <2>5, <2>6 DEF FailedWrite
<1>21. ASSUME NEW there \in BOOLEAN, ManifestError(there) PROVE [Log!Next]_(Log!vars)
  <2>1. Release("failed") /\ UNCHANGED <<clean, index, damaged>>
    BY <1>21 DEF ManifestError
  <2>2. CASE pc = "close_ok" /\ there
    <3>1. manifest'.finished = TRUE
      BY <1>21, <2>2 DEF ManifestError, SessionManifest
    <3> QED BY <2>1, <2>2, <3>1, <1>i, <1>q DEF Release
  <2>3. CASE ~(pc = "close_ok" /\ there)
    <3>1. manifest'.finished = manifest.finished \/ (Open /\ manifest'.finished = FALSE)
      BY <1>21, <2>3, <1>n, <1>p DEF ManifestError, TypeOK
    <3>2. pc = "close_ok" => manifest'.finished = FALSE
      BY <1>21, <2>3, <1>r DEF ManifestError, Idlers
    <3> QED BY <2>1, <3>1, <3>2, <1>t
  <2> QED BY <2>2, <2>3
<1>22. ASSUME NEW n \in Ordinals, LoseChunk(n) PROVE [Log!Next]_(Log!vars)
  <2>1. /\ UNCHANGED <<clean, index, cbuf, pbuf, manifest, pc>> /\ pc = "down"
        /\ damaged' = damaged \/ damaged' = TRUE
    BY <1>22, <1>m DEF LoseChunk, writer
  <2>2. CASE damaged' = damaged
    BY <2>1, <2>2, <1>p, <1>u
  <2>3. CASE damaged' = TRUE
    <3>1. Log!Damage
      BY <2>1, <2>3, <1>a DEF Log!Damage, Results, Held, Idlers
    <3> QED BY <3>1 DEF Log!Next
  <2> QED BY <2>1, <2>2, <2>3
<1>23. CASE Idle \/ UNCHANGED vars
  BY <1>23, <1>u, <1>p DEF Idle, vars
<1> QED
  BY <1>1, <1>2, <1>3, <1>4, <1>5, <1>6, <1>7, <1>8, <1>9, <1>10, <1>11, <1>12,
     <1>13, <1>14, <1>15, <1>16, <1>17, <1>18, <1>19, <1>20, <1>21, <1>22, <1>23
     DEF Next, Session, Recording, Flushing, Rebuilding, Faults

\* The dump keeps the promises of the abstract result log.
THEOREM DumpImplementsLog == Spec => ImplementsResultLog
<1> DEFINE I == InvA /\ AccountInv /\ OnceInv
<1>1. Init => I
  BY TypeInit, ControlInit, FileInit, AccountInit DEF InvA, Init, OnceInv, NoManifest
<1>2. I /\ [Next]_vars => I'
  BY TypeStep, ControlStep, FileStep, AccountStep, OnceStep DEF InvA
<1>3. I /\ I' /\ [Next]_vars => [Log!Next]_(Log!vars)
  BY LogStep DEF InvA
<1>4. Init => Log!Init
  BY LogInit
<1> HIDE DEF I
<1> QED BY <1>1, <1>2, <1>3, <1>4, PTL DEF Spec, ImplementsResultLog, Log!Spec

-----------------------------------------------------------------------------
(* Where a reader is.                                                      *)

At(pass) == told = "reading" /\ Head(passes) = pass
CleanUnlisted == \/ told = "idle"
                 \/ At("clean_loc") /\ left = Unlisted
                 \/ At("index_loc") /\ kind = "estimate"
CleanLocating == At("clean_loc") /\ left # Unlisted
CleanLocated == \/ told = "ok" \/ At("clean_rows")
                \/ kind = "inspect" /\ (At("index_loc") \/ At("data_rows"))
CleanListed == CleanLocating \/ CleanLocated
CleanSelecting == At("clean_rows") /\ left # Unlisted
CleanSelected == /\ kind = "inspect"
                 /\ told = "ok" \/ At("index_loc") \/ At("data_rows")

IndexUnlisted == \/ told = "idle"
                 \/ At("clean_rows") \/ (At("clean_loc") /\ kind = "inspect")
                 \/ At("index_loc") /\ left = Unlisted
IndexLocating == At("index_loc") /\ left # Unlisted
IndexLocated == \/ told = "ok" \/ At("data_rows")
                \/ At("clean_loc") /\ kind = "estimate"
IndexListed == IndexLocating \/ IndexLocated
DataSelecting == At("data_rows") /\ left # Unlisted

-----------------------------------------------------------------------------
(* The inductive invariant of the reader.                                  *)

Suffixes(k) == IF k = "inspect"
               THEN {<<"clean_loc", "clean_rows", "index_loc", "data_rows">>,
                     <<"clean_rows", "index_loc", "data_rows">>,
                     <<"index_loc", "data_rows">>, <<"data_rows">>}
               ELSE {<<"index_loc", "clean_loc">>, <<"clean_loc">>}
\* The passes left are a non-empty end of the script while the reader reads.
Scripted ==
    /\ kind \in Kinds
    /\ told \in {"idle", "missing", "reading", "ok", "error", "estimated"}
    /\ passes \in Suffixes(kind) \cup {<< >>}
    /\ told = "reading" => passes \in Suffixes(kind)
    /\ told = "estimated" => kind = "estimate"
    /\ told = "idle" => passes = << >> /\ left = Unlisted
    /\ left = Unlisted \/ left \in SUBSET Ordinals

\* The values of the reader's registers.
Typed ==
    /\ cloc \in [Samples -> Located] /\ iloc \in [Items -> Located]
    /\ crow \in CleanRows /\ irow \in ItemRows
    /\ counts \in [Statuses -> Nat]
    /\ pending.items \subseteq Items /\ pending.samples \subseteq Samples
    /\ snapC \in CleanRows /\ snapI \in ItemRows
    /\ alone \in BOOLEAN /\ meanwhile \in {"quiet", "written", "removed"}

\* A location names a row that is in the file it names.
Backing(loc, files, ids) ==
    \A i \in ids : \/ loc[i] = Nowhere
                   \/ /\ loc[i].ord \in Ordinals /\ loc[i].status # Absent
                      /\ files[loc[i].ord][i] = loc[i].status

\* The latest row among the files still to open, the location where they
\* hold none, is the latest row of the moment the directory was listed.
Locating(loc, files, snap, l, ids) ==
    /\ l \in SUBSET Published(files)
    /\ \A i \in ids :
          /\ \A n \in l : loc[i].ord < n
          /\ \/ /\ \A n \in l : files[n][i] = Absent
                /\ snap[i] = loc[i].status
             \/ \E n \in l :
                   /\ files[n][i] # Absent /\ snap[i] = files[n][i]
                   /\ \A m \in l : files[m][i] # Absent => m <= n

\* The rows selected are those whose file was opened.
Selecting(rows, loc, l, ids) ==
    \A i \in ids : rows[i] = IF loc[i] = Nowhere \/ loc[i].ord \in l
                             THEN Absent ELSE loc[i].status

CleanSection ==
    /\ Backing(cloc, clean, Samples)
    /\ CleanUnlisted => cloc = Empty.cloc
    /\ CleanLocating => Locating(cloc, clean, snapC, left, Samples)
    /\ CleanLocated => Status(cloc) = snapC
    /\ CleanUnlisted \/ CleanLocating \/ (At("clean_rows") /\ left = Unlisted)
         => crow = NoSamples
    /\ CleanSelecting => Selecting(crow, cloc, left, Samples)
    /\ CleanSelected => crow = snapC

ItemSection ==
    /\ IndexUnlisted => iloc = Empty.iloc
    /\ IndexUnlisted \/ IndexLocating \/ (At("data_rows") /\ left = Unlisted)
         => irow = NoItems
    /\ ~damaged =>
         /\ Backing(iloc, index, Items)
         /\ IndexLocating => Locating(iloc, index, snapI, left, Items)
         /\ IndexLocated => Status(iloc) = snapI
         /\ DataSelecting =>
              /\ Selecting(irow, iloc, left, Items)
              /\ meanwhile # "removed" => left \subseteq Published(chunk)
         /\ told = "ok" /\ kind = "inspect" => irow = snapI

\* While nothing was published since the reader was opened, the dump it
\* reads is the one it listed, and the manifest it read counts that dump.
AtRest ==
    told \in {"reading", "ok"} /\ meanwhile = "quiet" =>
      /\ ~damaged
      /\ kind = "inspect" =>
            counts = AuthoritativeCounts(CleanLocations, IndexLocations)
      /\ CleanListed => snapC = CleanLocations
      /\ IndexListed => snapI = IndexLocations

ItemsSettled == /\ todoP = {} /\ pbuf = NoItems
                /\ UNION PendingChunks(IndexLocations) = {}
SamplesSettled == /\ todoC = {} /\ cbuf = NoSamples
                  /\ PendingSamples(CleanLocations) = {}
\* What a listing found complete while no command ran stays complete, and no
\* command has or gets anything to record.
Settling ==
    kind = "estimate" /\ alone /\ ~RetryFailed =>
      /\ ~damaged =>
           /\ IndexListed /\ UNION PendingChunks(snapI) = {} => ItemsSettled
           /\ told = "estimated" /\ pending.items = {} => ItemsSettled
      /\ CleanListed /\ PendingSamples(snapC) = {} => SamplesSettled
      /\ told = "estimated" /\ pending.samples = {} => SamplesSettled

ReaderInv == /\ Scripted /\ Typed /\ CleanSection /\ ItemSection
             /\ UndamagedReadsSucceed /\ AtRest
             /\ EstimateCoversTheRun /\ Settling

-----------------------------------------------------------------------------
(* The scripts of the two readers.                                         *)

\* where the scripts of a reader begin
LEMMA Scripts ==
    /\ Script("inspect") \in Suffixes("inspect")
    /\ Head(Script("inspect")) = "clean_loc"
    /\ Script("estimate") \in Suffixes("estimate")
    /\ Head(Script("estimate")) = "index_loc"
BY DEF Script, Suffixes

\* The pass that follows each pass.
LEMMA Passes ==
    /\ \A p \in Suffixes("inspect") :
          \/ /\ Head(p) \in {"clean_loc", "clean_rows", "index_loc"}
             /\ Len(p) # 1 /\ Tail(p) \in Suffixes("inspect")
             /\ Head(p) = "clean_loc" => Head(Tail(p)) = "clean_rows"
             /\ Head(p) = "clean_rows" => Head(Tail(p)) = "index_loc"
             /\ Head(p) = "index_loc" => Head(Tail(p)) = "data_rows"
          \/ Head(p) = "data_rows" /\ Len(p) = 1 /\ Tail(p) = << >>
    /\ \A p \in Suffixes("estimate") :
          \/ /\ Head(p) = "index_loc" /\ Len(p) # 1
             /\ Tail(p) \in Suffixes("estimate") /\ Head(Tail(p)) = "clean_loc"
          \/ Head(p) = "clean_loc" /\ Len(p) = 1 /\ Tail(p) = << >>
BY DEF Suffixes

\* the ends of a sequence of two and of four, taken one head at a time
LEMMA EndsOfTwo ==
    ASSUME NEW a, NEW b
    PROVE  /\ SubSeq(<<a, b>>, 1, 2) = <<a, b>>
           /\ SubSeq(<<a, b>>, 2, 2) = <<b>> /\ SubSeq(<<a, b>>, 3, 2) = << >>
<1> DEFINE S == <<a, b>>
<1>1. S \in Seq({a, b}) /\ Len(S) = 2 /\ Tail(S) = <<b>>
  OBVIOUS
<1>2. Tail(<<b>>) = << >>
  OBVIOUS
<1> HIDE DEF S
<1>3. SubSeq(S, 1, 2) = S
  BY <1>1, SubSeqFull
<1>4. SubSeq(S, 2, 2) = Tail(SubSeq(S, 1, 2))
  BY <1>1, HeadTailOfSubSeq
<1>5. SubSeq(S, 3, 2) = << >>
  BY SubSeqEmpty
<1>6. SubSeq(S, 1, 2) = S /\ SubSeq(S, 2, 2) = <<b>> /\ SubSeq(S, 3, 2) = << >>
  BY <1>1, <1>3, <1>4, <1>5
<1> QED BY <1>6 DEF S

\* the ends of four steps
LEMMA EndsOfFour ==
    ASSUME NEW a, NEW b, NEW c, NEW d
    PROVE  /\ SubSeq(<<a, b, c, d>>, 1, 4) = <<a, b, c, d>>
           /\ SubSeq(<<a, b, c, d>>, 2, 4) = <<b, c, d>>
           /\ SubSeq(<<a, b, c, d>>, 3, 4) = <<c, d>>
           /\ SubSeq(<<a, b, c, d>>, 4, 4) = <<d>>
           /\ SubSeq(<<a, b, c, d>>, 5, 4) = << >>
<1> DEFINE S == <<a, b, c, d>>
<1>1. S \in Seq({a, b, c, d}) /\ Len(S) = 4 /\ Tail(S) = <<b, c, d>>
  OBVIOUS
<1>2. Tail(<<b, c, d>>) = <<c, d>> /\ Tail(<<c, d>>) = <<d>>
  OBVIOUS
<1> HIDE DEF S
<1>3. SubSeq(S, 1, 4) = S
  BY <1>1, SubSeqFull
<1>4. SubSeq(S, 2, 4) = Tail(SubSeq(S, 1, 4))
  BY <1>1, HeadTailOfSubSeq
<1>5. SubSeq(S, 3, 4) = Tail(SubSeq(S, 2, 4))
  BY <1>1, HeadTailOfSubSeq
<1>6. SubSeq(S, 4, 4) = Tail(SubSeq(S, 3, 4))
  BY <1>1, HeadTailOfSubSeq
<1>7. SubSeq(S, 5, 4) = << >>
  BY SubSeqEmpty
<1>8. /\ SubSeq(S, 1, 4) = S /\ SubSeq(S, 2, 4) = <<b, c, d>>
      /\ SubSeq(S, 3, 4) = <<c, d>> /\ SubSeq(S, 4, 4) = <<d>>
      /\ SubSeq(S, 5, 4) = << >>
  BY <1>1, <1>2, <1>3, <1>4, <1>5, <1>6, <1>7
<1> QED BY <1>8 DEF S

\* what is left of a script is an end of it
LEMMA EndsOfScripts ==
    ASSUME NEW k \in Kinds, NEW p \in Suffixes(k) \cup {<< >>}
    PROVE  \E n \in 1..5 : p = SubSeq(Script(k), n, Len(Script(k)))
<1>0. 1 \in 1..5 /\ 2 \in 1..5 /\ 3 \in 1..5 /\ 4 \in 1..5 /\ 5 \in 1..5
  OBVIOUS
<1>1. CASE k = "inspect"
  <2> DEFINE S == <<"clean_loc", "clean_rows", "index_loc", "data_rows">>
  <2>1. Script(k) = S /\ Len(S) = 4
    BY <1>1 DEF Script
  <2>2. /\ SubSeq(S, 1, 4) = S
        /\ SubSeq(S, 2, 4) = <<"clean_rows", "index_loc", "data_rows">>
        /\ SubSeq(S, 3, 4) = <<"index_loc", "data_rows">>
        /\ SubSeq(S, 4, 4) = <<"data_rows">> /\ SubSeq(S, 5, 4) = << >>
    BY EndsOfFour
  <2>3. p \in {S, <<"clean_rows", "index_loc", "data_rows">>,
               <<"index_loc", "data_rows">>, <<"data_rows">>, << >>}
    BY <1>1 DEF Suffixes
  <2> HIDE DEF S
  <2>4. \E n \in 1..5 : p = SubSeq(S, n, 4)
    BY <1>0, <2>2, <2>3, Zenon
  <2> QED BY <2>1, <2>4
<1>2. CASE k = "estimate"
  <2> DEFINE S == <<"index_loc", "clean_loc">>
  <2>1. Script(k) = S /\ Len(S) = 2
    BY <1>2 DEF Script
  <2>2. /\ SubSeq(S, 1, 2) = S /\ SubSeq(S, 2, 2) = <<"clean_loc">>
        /\ SubSeq(S, 3, 2) = << >>
    BY EndsOfTwo
  <2>3. p \in {S, <<"clean_loc">>, << >>}
    BY <1>2 DEF Suffixes
  <2> HIDE DEF S
  <2>4. \E n \in 1..5 : p = SubSeq(S, n, 2)
    BY <1>0, <2>2, <2>3, Zenon
  <2> QED BY <2>1, <2>4
<1> QED BY <1>1, <1>2 DEF Kinds

-----------------------------------------------------------------------------
(* Locating rows: from the listing, over each file, to the end of a pass.  *)

\* what was not listed is not a listing
LEMMA UnlistedIsNoListing ==
    /\ \A S \in SUBSET Ordinals : S # Unlisted
    /\ \A files : Published(files) \in SUBSET Ordinals
    /\ \A n \in Ordinals : n \in Nat
BY BoundAssumption DEF Unlisted, Ordinals, Published

\* the locations a pass starts from
Unlocated(ids) == [i \in ids |-> Nowhere]

\* the newest rows are among the files just listed
LEMMA LocatingStarts ==
    ASSUME NEW ids, NEW files \in Files([ids -> Recorded])
    PROVE  Locating(Unlocated(ids), files, Latest(files, ids),
                    Published(files), ids)
<1> SUFFICES ASSUME NEW i \in ids
             PROVE  /\ \A n \in Published(files) : Unlocated(ids)[i].ord < n
                    /\ \/ /\ \A n \in Published(files) : files[n][i] = Absent
                          /\ Latest(files, ids)[i] = Unlocated(ids)[i].status
                       \/ \E n \in Published(files) :
                             /\ files[n][i] # Absent
                             /\ Latest(files, ids)[i] = files[n][i]
                             /\ \A m \in Published(files) : files[m][i] # Absent => m <= n
  BY DEF Locating
<1>1. Unlocated(ids)[i].ord = -1 /\ Unlocated(ids)[i].status = Absent
  BY DEF Unlocated, Nowhere
<1>2. \A n \in Published(files) : n \in Nat
  BY UnlistedIsNoListing DEF Published
<1>3. \A n \in Published(files) : Unlocated(ids)[i].ord < n
  BY <1>1, <1>2
<1>4. \A n \in Ordinals : files[n][i] # Absent => n \in Published(files)
  BY DEF Published, Rows, Files
<1>5. CASE Holding(files, i) = {}
  BY <1>1, <1>3, <1>5 DEF Latest, Holding, Published
<1>6. CASE Holding(files, i) # {}
  <2> DEFINE n == LatestOrd(files, i)
  <2>1. n \in Holding(files, i) /\ \A m \in Holding(files, i) : m <= n
    BY <1>6, LatestOrdIsGreatest
  <2>2. Latest(files, ids)[i] = files[n][i]
    BY <1>6 DEF Latest
  <2> HIDE DEF n
  <2>3. n \in Published(files) /\ files[n][i] # Absent
    BY <2>1, <1>4 DEF Holding
  <2>4. \A m \in Published(files) : files[m][i] # Absent => m <= n
    BY <2>1 DEF Holding, Published
  <2> QED BY <1>3, <2>2, <2>3, <2>4
<1> QED BY <1>5, <1>6

\* reading a listed file, in any order, keeps them findable
LEMMA LocatingReads ==
    ASSUME NEW ids, NEW files \in Files([ids -> Recorded]),
           NEW loc \in [ids -> Located], NEW snap, NEW l,
           Locating(loc, files, snap, l, ids), Backing(loc, files, ids),
           NEW n \in l, \A m \in l : n <= m
    PROVE  /\ Overlay(loc, files[n], n) \in [ids -> Located]
           /\ Backing(Overlay(loc, files[n], n), files, ids)
           /\ Locating(Overlay(loc, files[n], n), files, snap, l \ {n}, ids)
<1> DEFINE new == Overlay(loc, files[n], n)
<1>1. n \in Ordinals /\ l \in SUBSET Published(files) /\ l \subseteq Nat
  BY UnlistedIsNoListing DEF Locating, Published
<1>2. \A i \in ids : files[n][i] \in Recorded
  BY <1>1 DEF Files
<1>3. \A i \in ids :
         new[i] = IF files[n][i] # Absent
                  THEN [ord |-> n, status |-> files[n][i]] ELSE loc[i]
  BY DEF Overlay
<1>4. new \in [ids -> Located]
  BY <1>1, <1>2 DEF Overlay, Located, Recorded
<1>5. Backing(new, files, ids)
  <2> SUFFICES ASSUME NEW i \in ids, new[i] # Nowhere
               PROVE  /\ new[i].ord \in Ordinals /\ new[i].status # Absent
                      /\ files[new[i].ord][i] = new[i].status
    BY DEF Backing
  <2>1. CASE files[n][i] # Absent
    <3>1. new[i] = [ord |-> n, status |-> files[n][i]]
      BY <2>1, <1>3
    <3>2. new[i].ord = n /\ new[i].status = files[n][i]
      BY <3>1
    <3> QED BY <2>1, <3>2, <1>1
  <2>2. CASE files[n][i] = Absent
    BY <2>2, <1>3 DEF Backing
  <2> QED BY <2>1, <2>2
<1>6. l \ {n} \in SUBSET Published(files)
  BY <1>1
<1>7. ASSUME NEW i \in ids
      PROVE  /\ \A m \in l \ {n} : new[i].ord < m
             /\ \/ /\ \A m \in l \ {n} : files[m][i] = Absent
                   /\ snap[i] = new[i].status
                \/ \E k \in l \ {n} :
                      /\ files[k][i] # Absent /\ snap[i] = files[k][i]
                      /\ \A m \in l \ {n} : files[m][i] # Absent => m <= k
  <2>1. CASE files[n][i] = Absent
    <3>1. new[i] = loc[i]
      BY <2>1, <1>3
    <3> QED BY <3>1, <2>1 DEF Locating
  <2>2. CASE files[n][i] # Absent
    <3>0. new[i] = [ord |-> n, status |-> files[n][i]]
      BY <2>2, <1>3
    <3>1. new[i].ord = n /\ new[i].status = files[n][i]
      BY <3>0
    <3>2. \A m \in l \ {n} : n < m
      BY <1>1
    <3>3. PICK k \in l : /\ files[k][i] # Absent /\ snap[i] = files[k][i]
                         /\ \A m \in l : files[m][i] # Absent => m <= k
      BY <2>2 DEF Locating
    <3>4. CASE k = n
      <4>1. \A m \in l \ {n} : files[m][i] = Absent
        BY <3>2, <3>3, <3>4, <1>1
      <4> QED BY <4>1, <3>1, <3>2, <3>3, <3>4
    <3>5. CASE k # n
      BY <3>1, <3>2, <3>3, <3>5
    <3> QED BY <3>4, <3>5
  <2> QED BY <2>1, <2>2
<1> HIDE DEF new
<1>8. /\ new \in [ids -> Located] /\ Backing(new, files, ids)
      /\ Locating(new, files, snap, l \ {n}, ids)
  BY <1>4, <1>5, <1>6, <1>7 DEF Locating
<1> QED BY <1>8 DEF new

\* when all were read the newest rows were found
LEMMA LocatingEnds ==
    ASSUME NEW ids, NEW files, NEW loc \in [ids -> Located],
           NEW snap \in [ids -> Recorded], Locating(loc, files, snap, {}, ids)
    PROVE  Status(loc) = snap
<1>1. \A i \in ids : snap[i] = loc[i].status
  BY DEF Locating
<1> QED BY <1>1 DEF Status

-----------------------------------------------------------------------------
(* Selecting rows.                                                         *)

\* every located row is in a file still to be read
LEMMA SelectingStarts ==
    ASSUME NEW ids, NEW loc \in [ids -> Located], NEW l,
           \A i \in ids : loc[i] # Nowhere => loc[i].ord \in l
    PROVE  Selecting(NoRows(ids), loc, l, ids)
BY DEF Selecting, NoRows

\* reading a file selects the rows located in it
LEMMA SelectingReads ==
    ASSUME NEW ids, NEW loc \in [ids -> Located],
           NEW rows \in [ids -> Recorded], NEW l, Selecting(rows, loc, l, ids),
           NEW n \in l, n \in Ordinals, NEW file \in [ids -> Recorded],
           \A i \in ids : loc[i] # Nowhere /\ loc[i].ord = n
                          => file[i] = loc[i].status
    PROVE  /\ Select(rows, file, loc, n) \in [ids -> Recorded]
           /\ Selecting(Select(rows, file, loc, n), loc, l \ {n}, ids)
<1> DEFINE new == Select(rows, file, loc, n)
<1>1. \A i \in ids : new[i] = IF loc[i].ord = n THEN file[i] ELSE rows[i]
  BY DEF Select
<1>2. new \in [ids -> Recorded]
  BY DEF Select
<1>3. Nowhere.ord # n
  BY UnlistedIsNoListing DEF Nowhere
<1>4. \A i \in ids : new[i] = IF loc[i] = Nowhere \/ loc[i].ord \in l \ {n}
                              THEN Absent ELSE loc[i].status
  BY <1>1, <1>3 DEF Selecting
<1> HIDE DEF new
<1>5. new \in [ids -> Recorded] /\ Selecting(new, loc, l \ {n}, ids)
  BY <1>2, <1>4 DEF Selecting
<1> QED BY <1>5 DEF new

\* when all were read the rows are the located ones
LEMMA SelectingEnds ==
    ASSUME NEW ids, NEW loc \in [ids -> Located], NEW rows \in [ids -> Recorded],
           Selecting(rows, loc, {}, ids)
    PROVE  rows = Status(loc)
<1>1. \A i \in ids : rows[i] = loc[i].status
  BY DEF Selecting, Nowhere
<1> QED BY <1>1 DEF Status

\* No located row is missing at the end.
LEMMA NothingUnseen ==
    ASSUME NEW ids, NEW loc, NEW rows, NEW files, Backing(loc, files, ids),
           Selecting(rows, loc, {}, ids)
    PROVE  ~ \E i \in ids : loc[i] # Nowhere /\ rows[i] = Absent
BY DEF Backing, Selecting

-----------------------------------------------------------------------------
(* The steps of the dump: what was located or selected stays so.           *)

\* files that stay keep backing the locations
LEMMA StillBacking ==
    ASSUME NEW ids, NEW files, NEW new, NEW loc, Backing(loc, files, ids),
           \A n \in Ordinals : files[n] # NoRows(ids) => new[n] = files[n]
    PROVE  Backing(loc, new, ids)
BY DEF Backing, NoRows

\* and keep the newest rows findable
LEMMA StillLocating ==
    ASSUME NEW ids, NEW files \in Files([ids -> Recorded]),
           NEW new \in Files([ids -> Recorded]), NEW loc, NEW snap, NEW l,
           Locating(loc, files, snap, l, ids),
           \A n \in Ordinals : files[n] # NoRows(ids) => new[n] = files[n]
    PROVE  Locating(loc, new, snap, l, ids)
<1>1. \A n \in l : n \in Published(new) /\ new[n] = files[n]
  BY RowsEmpty DEF Locating, Published, Files
<1> QED BY <1>1 DEF Locating

\* an undamaged index part describes its data
LEMMA OpenReadsBacked ==
    ASSUME InvA, ~damaged
    PROVE  \A n \in Ordinals : index[n] # NoItems => chunk[n] = index[n]
BY BackedIff DEF InvA, FileInv, Backed

\* InspectSpec takes the steps of AuditDump and no others.
LEMMA DumpSteps == [DumpStep \/ Reading \/ Rest]_allVars => [Next]_vars
<1>1. DumpStep => Next
  BY DEF DumpStep
<1>2. Reading => UNCHANGED vars
  BY DEF Reading, OpenReader, ListFiles, ReadFile, EndPass, Estimate
<1>3. Rest => UNCHANGED vars
  BY DEF Rest, allVars
<1>4. UNCHANGED allVars => UNCHANGED vars
  BY DEF allVars
<1> QED BY <1>1, <1>2, <1>3, <1>4

\* a reader takes no step of the dump that the dump does not have
LEMMA ReadersAreUsers == InspectSpec => Spec
<1>1. InitInspect => Init
  BY DEF InitInspect
<1> QED BY <1>1, DumpSteps, PTL DEF InspectSpec, Spec

ReaderKept == UNCHANGED <<kind, passes, left, told, pending, registers, alone>>
\* steps of the dump leave a reader where it is
LEMMA PlacesKept ==
    ASSUME ReaderKept
    PROVE  /\ At("clean_loc")' = At("clean_loc") /\ At("clean_rows")' = At("clean_rows")
           /\ At("index_loc")' = At("index_loc") /\ At("data_rows")' = At("data_rows")
           /\ CleanUnlisted' = CleanUnlisted /\ CleanLocating' = CleanLocating
           /\ CleanLocated' = CleanLocated /\ CleanListed' = CleanListed
           /\ CleanSelecting' = CleanSelecting /\ CleanSelected' = CleanSelected
           /\ IndexUnlisted' = IndexUnlisted /\ IndexLocating' = IndexLocating
           /\ IndexLocated' = IndexLocated /\ IndexListed' = IndexListed
           /\ DataSelecting' = DataSelecting
<1> USE DEF ReaderKept, At, CleanUnlisted, CleanLocating, CleanLocated,
            CleanListed, CleanSelecting, CleanSelected, IndexUnlisted,
            IndexLocating, IndexLocated, IndexListed, DataSelecting
<1> QED OBVIOUS

\* and keep what it knows of samples
LEMMA CleanSectionKept ==
    ASSUME TypeOK, TypeOK', Kept, ReaderKept, CleanSection
    PROVE  CleanSection'
<1>1. /\ clean \in Files([Samples -> Recorded])
      /\ clean' \in Files([Samples -> Recorded])
      /\ \A n \in Ordinals : clean[n] # NoRows(Samples) => clean'[n] = clean[n]
  BY DEF TypeOK, CleanRows, Kept, NoSamples
<1>2. /\ cloc' = cloc /\ crow' = crow /\ snapC' = snapC /\ left' = left
      /\ Empty'.cloc = Empty.cloc
  BY DEF ReaderKept, registers, Empty
<1>3. Backing(cloc, clean, Samples)'
  <2>1. Backing(cloc, clean', Samples)
    BY <1>1, StillBacking DEF CleanSection
  <2> QED BY <1>2, <2>1 DEF Backing
<1>4. CleanLocating => Locating(cloc, clean, snapC, left, Samples)'
  <2> SUFFICES ASSUME CleanLocating PROVE Locating(cloc, clean, snapC, left, Samples)'
    OBVIOUS
  <2>1. Locating(cloc, clean', snapC, left, Samples)
    BY <1>1, StillLocating DEF CleanSection
  <2> QED BY <1>2, <2>1 DEF Locating
<1>5. Status(cloc)' = Status(cloc)
  BY <1>2 DEF Status
<1>6. Selecting(crow, cloc, left, Samples) => Selecting(crow, cloc, left, Samples)'
  BY <1>2 DEF Selecting
<1> QED BY <1>2, <1>3, <1>4, <1>5, <1>6, PlacesKept DEF CleanSection

\* and of items, unless files were removed
LEMMA ItemSectionKept ==
    ASSUME InvA, TypeOK', [Next]_vars, Kept, ReaderKept, ItemSection,
           meanwhile' # "removed" /\ told = "reading" =>
             /\ Published(chunk) \subseteq Published(chunk')
             /\ meanwhile # "removed"
    PROVE  ItemSection'
<1>1. /\ index \in Files([Items -> Recorded])
      /\ index' \in Files([Items -> Recorded])
  BY DEF InvA, TypeOK, ItemRows
<1>2. /\ iloc' = iloc /\ irow' = irow /\ snapI' = snapI /\ left' = left
      /\ told' = told /\ kind' = kind /\ passes' = passes
      /\ Empty'.iloc = Empty.iloc
  BY DEF ReaderKept, registers, Empty
<1>3. ASSUME ~damaged'
      PROVE  /\ ~damaged
             /\ \A n \in Ordinals : index[n] # NoRows(Items) => index'[n] = index[n]
  BY <1>3, DamagedStep DEF Kept, NoItems
<1>4. ASSUME ~damaged' PROVE Backing(iloc, index, Items)'
  <2>1. Backing(iloc, index', Items)
    BY <1>3, <1>4, StillBacking DEF ItemSection
  <2> QED BY <1>2, <2>1 DEF Backing
<1>5. ASSUME ~damaged', IndexLocating PROVE Locating(iloc, index, snapI, left, Items)'
  <2>1. Locating(iloc, index', snapI, left, Items)
    BY <1>1, <1>3, <1>5, StillLocating DEF ItemSection
  <2> QED BY <1>2, <2>1 DEF Locating
<1>6. Status(iloc)' = Status(iloc)
  BY <1>2 DEF Status
<1>7. Selecting(irow, iloc, left, Items) => Selecting(irow, iloc, left, Items)'
  BY <1>2 DEF Selecting
<1>8. ASSUME ~damaged', DataSelecting, meanwhile' # "removed"
      PROVE  left' \subseteq Published(chunk')
  BY <1>2, <1>3, <1>8 DEF ItemSection, DataSelecting, At
<1>9. /\ IndexUnlisted' => iloc' = Empty'.iloc
      /\ (IndexUnlisted \/ IndexLocating \/ (At("data_rows") /\ left = Unlisted))'
           => irow' = NoItems'
  <2>1. (left = Unlisted)' = (left = Unlisted) /\ NoItems' = NoItems
    BY <1>2 DEF Unlisted, NoItems, NoRows
  <2> QED BY <1>2, <2>1, PlacesKept DEF ItemSection
<1>10. ASSUME ~damaged'
       PROVE  /\ IndexLocated' => Status(iloc)' = snapI'
              /\ told' = "ok" /\ kind' = "inspect" => irow' = snapI'
              /\ DataSelecting' => Selecting(irow, iloc, left, Items)'
  BY <1>2, <1>3, <1>6, <1>7, <1>10, PlacesKept DEF ItemSection
<1>11. ASSUME ~damaged'
       PROVE  /\ Backing(iloc, index, Items)'
              /\ IndexLocating' => Locating(iloc, index, snapI, left, Items)'
              /\ IndexLocated' => Status(iloc)' = snapI'
              /\ DataSelecting' =>
                   /\ Selecting(irow, iloc, left, Items)'
                   /\ meanwhile' # "removed" => left' \subseteq Published(chunk')
              /\ told' = "ok" /\ kind' = "inspect" => irow' = snapI'
  BY <1>4, <1>5, <1>8, <1>10, <1>11, PlacesKept
<1> QED BY <1>9, <1>11 DEF ItemSection

-----------------------------------------------------------------------------
(* The steps of the dump: rest, pending work, settled work.                *)

\* what happened while a reader read is remembered
LEMMA MeanwhileStep ==
    ASSUME DumpStep, told = "reading"
    PROVE  /\ meanwhile' # "removed" => /\ Published(chunk) \subseteq Published(chunk')
                                        /\ meanwhile # "removed"
           /\ meanwhile' = "quiet" => meanwhile = "quiet" /\ disk' = disk
<1>1. meanwhile' = IF Published(chunk) \ Published(chunk') # {} THEN "removed"
                   ELSE IF meanwhile = "quiet" /\ disk' # disk
                   THEN "written" ELSE meanwhile
  BY DEF DumpStep
<1> QED BY <1>1

\* a disk that stays keeps its locations
LEMMA RestStep ==
    ASSUME TypeOK, [Next]_vars, disk' = disk
    PROVE  /\ damaged' = damaged
           /\ CleanLocations' = CleanLocations /\ IndexLocations' = IndexLocations
<1>1. UNCHANGED <<clean, chunk, index>>
  BY DEF disk
<1>2. ASSUME NEW n \in Ordinals, LoseChunk(n) PROVE FALSE
  <2>1. n \in Published(chunk) /\ chunk' = [chunk EXCEPT ![n] = NoItems]
    BY <1>2 DEF LoseChunk
  <2>2. chunk \in Files(ItemRows)
    BY DEF TypeOK
  <2>3. chunk'[n] = NoItems /\ chunk[n] # NoItems
    BY <2>1, <2>2, PublishedChunks DEF Files
  <2> QED BY <1>1, <2>3
<1>3. damaged' = damaged
  BY <1>2
     DEF Next, Session, StartCreate, CreateManifest, StartResume, ResumeManifest,
     SelectWork, Recording, WriteClean, WritePerturbed, EndOfWork, Flushing,
     PublishClean, CleanCounts, PublishData, PublishIndex, ItemCounts, Close,
     Rebuilding, StartRebuild, RebuildPart, RebuildParted, RebuildUnlink,
     RebuildUnlinked, RebuildManifest, Faults, Stop, Crash, FlushError,
     CloseFlushError, ManifestError, Idle, vars
<1>4. CleanLocations' = CleanLocations /\ IndexLocations' = IndexLocations
  BY <1>1 DEF CleanLocations, IndexLocations, Latest, LatestOrd, Holding
<1> QED BY <1>3, <1>4

\* a reader of a dump at rest stays one
LEMMA AtRestKept ==
    ASSUME TypeOK, DumpStep, ReaderKept, told # "ok", AtRest
    PROVE  AtRest'
<1> SUFFICES ASSUME told' \in {"reading", "ok"}, meanwhile' = "quiet"
             PROVE  /\ ~damaged'
                    /\ kind' = "inspect" =>
                          counts' = AuthoritativeCounts(CleanLocations, IndexLocations)'
                    /\ CleanListed' => snapC' = CleanLocations'
                    /\ IndexListed' => snapI' = IndexLocations'
  BY DEF AtRest
<1>1. /\ told = "reading" /\ kind' = kind /\ counts' = counts
      /\ snapC' = snapC /\ snapI' = snapI
  BY DEF ReaderKept, registers
<1>2. meanwhile = "quiet" /\ disk' = disk
  BY <1>1, MeanwhileStep
<1>3. /\ damaged' = damaged
      /\ CleanLocations' = CleanLocations /\ IndexLocations' = IndexLocations
  BY <1>2, RestStep DEF DumpStep
<1>4. AuthoritativeCounts(CleanLocations, IndexLocations)'
        = AuthoritativeCounts(CleanLocations, IndexLocations)
  BY <1>3 DEF AuthoritativeCounts
<1> QED BY <1>1, <1>2, <1>3, <1>4, PlacesKept DEF AtRest

\* A location is missing where no fragment holds a row.
LEMMA LatestAbsent ==
    ASSUME NEW ids, NEW files, NEW i \in ids
    PROVE  Latest(files, ids)[i] = Absent <=> Holding(files, i) = {}
<1>1. CASE Holding(files, i) = {}
  BY <1>1 DEF Latest
<1>2. CASE Holding(files, i) # {}
  <2>1. LatestOrd(files, i) \in Holding(files, i)
    BY <1>2, LatestOrdIsGreatest
  <2> QED BY <1>2, <2>1 DEF Latest, Holding
<1> QED BY <1>1, <1>2

\* without retries what is pending has no row
LEMMA PendingIsAbsent ==
    ASSUME ~RetryFailed, NEW p, NEW c
    PROVE  /\ UNION PendingChunks(p) = UNION {d \in Chunks : \E i \in d : p[i] = Absent}
           /\ PendingSamples(c) = {s \in Samples : c[s] = Absent}
BY DEF PendingChunks, PendingSamples

\* Without retry_failed, pending work only shrinks.
LEMMA PendingShrinks ==
    ASSUME TypeOK, Kept, ~RetryFailed
    PROVE  /\ PendingSamples(CleanLocations') \subseteq PendingSamples(CleanLocations)
           /\ ~damaged => UNION PendingChunks(IndexLocations')
                            \subseteq UNION PendingChunks(IndexLocations)
<1>1. \A s \in Samples : CleanLocations'[s] = Absent => CleanLocations[s] = Absent
  BY HoldingKept, LatestAbsent DEF CleanLocations
<1>2. PendingSamples(CleanLocations') \subseteq PendingSamples(CleanLocations)
  BY <1>1, PendingIsAbsent
<1>3. ASSUME ~damaged
      PROVE  UNION PendingChunks(IndexLocations')
               \subseteq UNION PendingChunks(IndexLocations)
  <2>1. \A i \in Items : IndexLocations'[i] = Absent => IndexLocations[i] = Absent
    BY <1>3, HoldingKept, LatestAbsent DEF IndexLocations
  <2>2. \A d \in Chunks : d \subseteq Items
    BY PlanAssumption
  <2>3. {d \in Chunks : \E i \in d : IndexLocations'[i] = Absent}
          \subseteq {d \in Chunks : \E i \in d : IndexLocations[i] = Absent}
    BY <2>1, <2>2
  <2> QED BY <2>3, PendingIsAbsent
<1> QED BY <1>2, <1>3

\* an estimate goes on to cover the runs that follow
LEMMA CoversKept ==
    ASSUME TypeOK, [Next]_vars, Kept, ReaderKept, EstimateCoversTheRun
    PROVE  EstimateCoversTheRun'
<1> SUFFICES ASSUME told' = "estimated", ~RetryFailed
             PROVE  /\ PendingSamples(CleanLocations)' \subseteq pending'.samples
                    /\ ~damaged' => UNION PendingChunks(IndexLocations)'
                                      \subseteq pending'.items
  BY DEF EstimateCoversTheRun
<1>1. told = "estimated" /\ pending' = pending
  BY DEF ReaderKept
<1>2. PendingSamples(CleanLocations)' = PendingSamples(CleanLocations')
  BY DEF PendingSamples
<1>3. PendingChunks(IndexLocations)' = PendingChunks(IndexLocations')
  BY DEF PendingChunks
<1>4. ~damaged' => ~damaged
  BY DamagedStep
<1> QED BY <1>1, <1>2, <1>3, <1>4, PendingShrinks DEF EstimateCoversTheRun

\* items that are settled stay settled
LEMMA ItemsStaySettled ==
    ASSUME TypeOK, [Next]_vars, Kept, ~RetryFailed, ~damaged', ItemsSettled
    PROVE  ItemsSettled'
<1>1. UNION PendingChunks(IndexLocations)' = {}
  <2>1. PendingChunks(IndexLocations)' = PendingChunks(IndexLocations')
    BY DEF PendingChunks
  <2> QED BY <2>1, DamagedStep, PendingShrinks DEF ItemsSettled
<1>2. NoItems' = NoItems
  BY DEF NoItems, NoRows
<1>3. todoP' = {} /\ pbuf' = NoItems
  BY <1>2
     DEF ItemsSettled, Next, Session, StartCreate, CreateManifest, StartResume,
     ResumeManifest, SelectWork, Recording, WriteClean, WritePerturbed, EndOfWork,
     Flushing, PublishClean, CleanCounts, PublishData, PublishIndex, ItemCounts,
     Close, Rebuilding, StartRebuild, RebuildPart, RebuildParted, RebuildUnlink,
     RebuildUnlinked, RebuildManifest, Faults, Stop, Crash, FlushError,
     CloseFlushError, ManifestError, LoseChunk, Idle, vars, Release, Cleared,
     writer, work
<1> QED BY <1>1, <1>2, <1>3 DEF ItemsSettled

\* so do samples
LEMMA SamplesStaySettled ==
    ASSUME TypeOK, [Next]_vars, Kept, ~RetryFailed, SamplesSettled
    PROVE  SamplesSettled'
<1>1. PendingSamples(CleanLocations)' = {}
  <2>1. PendingSamples(CleanLocations)' = PendingSamples(CleanLocations')
    BY DEF PendingSamples
  <2> QED BY <2>1, PendingShrinks DEF SamplesSettled
<1>2. NoSamples' = NoSamples
  BY DEF NoSamples, NoRows
<1>3. todoC' = {} /\ cbuf' = NoSamples
  BY <1>2
     DEF SamplesSettled, Next, Session, StartCreate, CreateManifest, StartResume,
     ResumeManifest, SelectWork, Recording, WriteClean, WritePerturbed, EndOfWork,
     Flushing, PublishClean, CleanCounts, PublishData, PublishIndex, ItemCounts,
     Close, Rebuilding, StartRebuild, RebuildPart, RebuildParted, RebuildUnlink,
     RebuildUnlinked, RebuildManifest, Faults, Stop, Crash, FlushError,
     CloseFlushError, ManifestError, LoseChunk, Idle, vars, Release, Cleared,
     writer, work
<1> QED BY <1>1, <1>2, <1>3 DEF SamplesSettled

\* a reader that found everything complete stays right
LEMMA SettlingKept ==
    ASSUME TypeOK, [Next]_vars, Kept, ReaderKept, Settling
    PROVE  Settling'
<1> SUFFICES ASSUME kind' = "estimate", alone', ~RetryFailed
             PROVE  /\ ~damaged' =>
                         /\ IndexListed' /\ UNION PendingChunks(snapI)' = {}
                              => ItemsSettled'
                         /\ told' = "estimated" /\ pending'.items = {} => ItemsSettled'
                    /\ CleanListed' /\ PendingSamples(snapC)' = {} => SamplesSettled'
                    /\ told' = "estimated" /\ pending'.samples = {} => SamplesSettled'
  BY DEF Settling
<1>1. /\ kind = "estimate" /\ alone /\ told' = told /\ pending' = pending
      /\ PendingSamples(snapC)' = PendingSamples(snapC)
      /\ PendingChunks(snapI)' = PendingChunks(snapI)
  BY DEF ReaderKept, registers, PendingSamples, PendingChunks
<1>2. ~damaged' => ~damaged
  BY DamagedStep
<1> QED BY <1>1, <1>2, ItemsStaySettled, SamplesStaySettled, PlacesKept DEF Settling

\* steps of the dump keep the invariant of the reader
LEMMA DumpStepInv ==
    ASSUME InvA, InvA', DumpStep, ReaderInv
    PROVE  ReaderInv'
<1>1. TypeOK /\ TypeOK' /\ [Next]_vars /\ Kept /\ ReaderKept
  BY KeptStep DEF InvA, DumpStep, ReaderKept, reader
<1>2. told \notin {"ok", "error"} /\ told' = told
  BY DEF DumpStep, Ended, reader
<1>3. meanwhile' \in {"quiet", "written", "removed"}
  BY DEF DumpStep, ReaderInv, Typed
<1>4. Scripted' /\ Typed'
  BY <1>1, <1>3 DEF ReaderInv, Scripted, Typed, ReaderKept, registers
<1>5. UndamagedReadsSucceed'
  BY <1>2 DEF UndamagedReadsSucceed
<1>6. CleanSection'
  BY <1>1, CleanSectionKept DEF ReaderInv
<1>7. ItemSection'
  BY <1>1, MeanwhileStep, ItemSectionKept DEF ReaderInv
<1>8. AtRest'
  BY <1>1, <1>2, AtRestKept DEF ReaderInv
<1>9. EstimateCoversTheRun' /\ Settling'
  BY <1>1, CoversKept, SettlingKept DEF ReaderInv
<1> QED BY <1>4, <1>5, <1>6, <1>7, <1>8, <1>9 DEF ReaderInv

-----------------------------------------------------------------------------
(* The steps of a reader.                                                  *)

\* A reader changes nothing of the dump.
LEMMA DumpKept ==
    ASSUME UNCHANGED vars
    PROVE  /\ clean' = clean /\ chunk' = chunk /\ index' = index
           /\ damaged' = damaged /\ pc' = pc
           /\ CleanLocations' = CleanLocations /\ IndexLocations' = IndexLocations
           /\ ItemsSettled' = ItemsSettled /\ SamplesSettled' = SamplesSettled
           /\ Empty' = Empty /\ NoSamples' = NoSamples /\ NoItems' = NoItems
           /\ Unlisted' = Unlisted
<1>1. /\ clean' = clean /\ chunk' = chunk /\ index' = index
      /\ damaged' = damaged /\ pc' = pc /\ todoC' = todoC /\ todoP' = todoP
      /\ cbuf' = cbuf /\ pbuf' = pbuf
  BY DEF vars
<1>2. CleanLocations' = CleanLocations /\ IndexLocations' = IndexLocations
  BY <1>1 DEF CleanLocations, IndexLocations, Latest, LatestOrd, Holding
<1>3. NoSamples' = NoSamples /\ NoItems' = NoItems /\ Unlisted' = Unlisted
  BY DEF NoSamples, NoItems, NoRows, Unlisted
<1>4. Empty' = Empty
  BY <1>3 DEF Empty
<1>5. PendingChunks(IndexLocations)' = PendingChunks(IndexLocations)
  BY <1>2 DEF PendingChunks
<1>6. PendingSamples(CleanLocations)' = PendingSamples(CleanLocations)
  BY <1>2 DEF PendingSamples
<1> QED
  BY <1>1, <1>2, <1>3, <1>4, <1>5, <1>6 DEF ItemsSettled, SamplesSettled

\* a reader starts with nothing
LEMMA EmptyRegisters ==
    /\ Empty.cloc = Unlocated(Samples) /\ Empty.crow = NoRows(Samples)
    /\ Empty.iloc = Unlocated(Items) /\ Empty.irow = NoRows(Items)
    /\ Empty.crow = NoSamples /\ Empty.irow = NoItems
    /\ Empty.cloc \in [Samples -> Located] /\ Empty.iloc \in [Items -> Located]
    /\ Empty.crow \in CleanRows /\ Empty.irow \in ItemRows
    /\ \A files : Backing(Empty.cloc, files, Samples)
    /\ \A files : Backing(Empty.iloc, files, Items)
    /\ Status(Empty.cloc) = NoSamples /\ Status(Empty.iloc) = NoItems
<1>1. /\ Empty.cloc = [s \in Samples |-> Nowhere] /\ Empty.crow = NoSamples
      /\ Empty.iloc = [i \in Items |-> Nowhere] /\ Empty.irow = NoItems
  BY DEF Empty
<1>2. Nowhere.status = Absent
  BY DEF Nowhere
<1> QED
  BY <1>1, <1>2, EmptyTypes
     DEF Unlocated, NoSamples, NoItems, NoRows, Located, Backing, Status

\* the reader starts in its invariant
LEMMA ReaderInit == InitInspect => ReaderInv
<1> SUFFICES ASSUME InitInspect PROVE ReaderInv
  OBVIOUS
<1>1. /\ told = "idle" /\ kind = "inspect" /\ passes = << >> /\ left = Unlisted
      /\ cloc = Empty.cloc /\ crow = Empty.crow /\ iloc = Empty.iloc /\ irow = Empty.irow
      /\ counts = NoManifest.counts /\ pending = [items |-> {}, samples |-> {}]
      /\ snapC = NoSamples /\ snapI = NoItems /\ alone = TRUE /\ meanwhile = "quiet"
  BY DEF InitInspect
<1>2. Scripted
  BY <1>1 DEF Scripted, Kinds, Suffixes
<1>3. Typed
  <2>1. counts \in [Statuses -> Nat]
    BY <1>1 DEF NoManifest
  <2> QED BY <1>1, <2>1, EmptyRegisters, EmptyTypes DEF Typed
<1>4. CleanSection /\ ItemSection
  BY <1>1, EmptyRegisters
     DEF CleanSection, ItemSection, At, CleanLocating, CleanLocated,
         CleanSelecting, CleanSelected, IndexLocating, IndexLocated, DataSelecting
<1>5. UndamagedReadsSucceed /\ AtRest /\ EstimateCoversTheRun /\ Settling
  BY <1>1 DEF UndamagedReadsSucceed, AtRest, EstimateCoversTheRun, Settling
<1> QED BY <1>2, <1>3, <1>4, <1>5 DEF ReaderInv

\* load_manifest opens the reader: nothing is located or selected yet.
LEMMA OpenStep ==
    ASSUME InvA, CountsMatchDisk, ReaderInv, NEW k \in Kinds, OpenReader(k)
    PROVE  ReaderInv'
<1>1. /\ told = "idle" /\ UNCHANGED vars /\ left = Unlisted
      /\ UNCHANGED <<left, pending, cloc, iloc, crow, irow, snapC, snapI, alone>>
      /\ kind' = k /\ passes' = Script(k)
      /\ counts' = IF k = "inspect" THEN manifest.counts ELSE NoManifest.counts
      /\ told' \in {"reading", "missing"}
      /\ meanwhile' \in {"quiet", "written"}
      /\ meanwhile' = "quiet" => pc = "down" /\ exit \in {"closed", "rebuilt"} /\ ~damaged
  BY DEF OpenReader, ReaderInv, Scripted
<1>2. /\ \/ k = "inspect" /\ Head(passes') = "clean_loc"
         \/ k = "estimate" /\ Head(passes') = "index_loc"
      /\ passes' \in Suffixes(k)
  BY <1>1, Scripts DEF Kinds
<1>3. cloc = Empty.cloc /\ crow = NoSamples /\ iloc = Empty.iloc /\ irow = NoItems
  BY <1>1 DEF ReaderInv, CleanSection, ItemSection, CleanUnlisted, IndexUnlisted
<1>4. left' = Unlisted'
  BY <1>1, DumpKept
<1>5. Scripted'
  BY <1>1, <1>2, <1>4 DEF Scripted, Kinds
<1>6. Typed'
  <2>1. manifest.counts \in [Statuses -> Nat]
    BY DEF InvA, TypeOK
  <2>2. NoManifest.counts \in [Statuses -> Nat]
    BY DEF NoManifest
  <2> QED BY <1>1, <2>1, <2>2 DEF ReaderInv, Typed
<1>7. /\ ~CleanLocating' /\ ~CleanLocated' /\ ~CleanListed' /\ ~CleanSelecting'
      /\ ~CleanSelected' /\ ~IndexLocating' /\ ~IndexLocated' /\ ~IndexListed'
      /\ ~DataSelecting' /\ told' # "ok"
  BY <1>1, <1>2, <1>4
     DEF At, CleanLocating, CleanLocated, CleanListed, CleanSelecting, CleanSelected,
         IndexLocating, IndexLocated, IndexListed, DataSelecting
<1>8. CleanSection'
  <2>1. cloc' = Empty'.cloc /\ crow' = NoSamples'
    BY <1>1, <1>3, DumpKept
  <2>2. Backing(cloc, clean, Samples)'
    <3>1. Backing(Empty.cloc, clean', Samples)
      BY EmptyRegisters
    <3> QED BY <1>1, <1>3, <3>1 DEF Backing
  <2> QED BY <1>7, <2>1, <2>2 DEF CleanSection
<1>9. ItemSection'
  <2>1. iloc' = Empty'.iloc /\ irow' = NoItems'
    BY <1>1, <1>3, DumpKept
  <2>2. Backing(iloc, index, Items)'
    <3>1. Backing(Empty.iloc, index', Items)
      BY EmptyRegisters
    <3> QED BY <1>1, <1>3, <3>1 DEF Backing
  <2> QED BY <1>7, <2>1, <2>2 DEF ItemSection
<1>10. UndamagedReadsSucceed' /\ EstimateCoversTheRun' /\ Settling'
  BY <1>1, <1>7 DEF UndamagedReadsSucceed, EstimateCoversTheRun, Settling
<1>11. AtRest'
  <2> SUFFICES ASSUME meanwhile' = "quiet"
               PROVE  /\ ~damaged'
                      /\ kind' = "inspect" =>
                            counts' = AuthoritativeCounts(CleanLocations, IndexLocations)'
    BY <1>7 DEF AtRest
  <2>1. ~damaged /\ manifest.counts = AuthoritativeCounts(CleanLocations, IndexLocations)
    BY <1>1 DEF CountsMatchDisk
  <2>2. AuthoritativeCounts(CleanLocations, IndexLocations)'
          = AuthoritativeCounts(CleanLocations, IndexLocations)
    BY <1>1, DumpKept DEF AuthoritativeCounts
  <2> QED BY <1>1, <2>1, <2>2, DumpKept
<1> QED BY <1>5, <1>6, <1>8, <1>9, <1>10, <1>11 DEF ReaderInv

\* Where a reading reader is.
LEMMA WhereReading ==
    ASSUME Scripted, told = "reading"
    PROVE  \/ /\ kind = "inspect"
              /\ Head(passes) \in {"clean_loc", "clean_rows", "index_loc", "data_rows"}
           \/ kind = "estimate" /\ Head(passes) \in {"clean_loc", "index_loc"}
BY Passes DEF Scripted, Kinds

\* fragment_files lists one directory: the moment a pass reads is fixed.
LEMMA ListStep ==
    ASSUME InvA, ReaderInv, ListFiles
    PROVE  ReaderInv'
<1>1. /\ told = "reading" /\ left = Unlisted /\ UNCHANGED vars
      /\ UNCHANGED <<kind, passes, told, pending, cloc, iloc, crow, irow, counts,
                     meanwhile>>
      /\ left' = Directory(Head(passes))
      /\ snapC' = IF Head(passes) = "clean_loc" THEN CleanLocations ELSE snapC
      /\ snapI' = IF Head(passes) = "index_loc" THEN IndexLocations ELSE snapI
      /\ alone' = (alone /\ (kind = "inspect" \/ pc = "down"))
  BY DEF ListFiles
<1>2. \/ kind = "inspect" /\ Head(passes) \in {"clean_loc", "clean_rows", "index_loc",
                                               "data_rows"}
      \/ kind = "estimate" /\ Head(passes) \in {"clean_loc", "index_loc"}
  BY <1>1, WhereReading DEF ReaderInv
<1>3. /\ clean \in Files([Samples -> Recorded]) /\ index \in Files([Items -> Recorded])
      /\ chunk \in Files([Items -> Recorded])
      /\ CleanLocations \in CleanRows /\ IndexLocations \in ItemRows
  BY LatestType DEF InvA, TypeOK, CleanRows, ItemRows, CleanLocations, IndexLocations
<1>4. /\ Head(passes) \in {"clean_loc", "clean_rows"} => left' = Published(clean)
      /\ Head(passes) = "index_loc" => left' = Published(index)
      /\ Head(passes) = "data_rows" => left' = Published(chunk)
  BY <1>1 DEF Directory
<1>5. left' \in SUBSET Ordinals /\ left' # Unlisted'
  BY <1>1, <1>2, <1>4, UnlistedIsNoListing, DumpKept
<1>6. Scripted'
  BY <1>1, <1>5 DEF ReaderInv, Scripted
<1>7. Typed'
  BY <1>1, <1>3 DEF ReaderInv, Typed
<1> DEFINE at == Head(passes)
<1>8. /\ CleanUnlisted' <=> kind = "estimate" /\ at = "index_loc"
      /\ CleanLocating' <=> at = "clean_loc"
      /\ CleanLocated' <=> \/ at = "clean_rows"
                           \/ kind = "inspect" /\ at \in {"index_loc", "data_rows"}
      /\ CleanListed' <=> CleanLocating' \/ CleanLocated'
      /\ CleanSelecting' <=> at = "clean_rows"
      /\ CleanSelected' <=> kind = "inspect" /\ at \in {"index_loc", "data_rows"}
  BY <1>1, <1>2, <1>5
     DEF At, CleanUnlisted, CleanLocating, CleanLocated, CleanListed,
         CleanSelecting, CleanSelected
<1>9. /\ IndexUnlisted' <=> \/ at = "clean_rows"
                            \/ kind = "inspect" /\ at = "clean_loc"
      /\ IndexLocating' <=> at = "index_loc"
      /\ IndexLocated' <=> at = "data_rows" \/ (kind = "estimate" /\ at = "clean_loc")
      /\ IndexListed' <=> IndexLocating' \/ IndexLocated'
      /\ DataSelecting' <=> at = "data_rows"
  BY <1>1, <1>2, <1>5
     DEF At, IndexUnlisted, IndexLocating, IndexLocated, IndexListed, DataSelecting
<1>10. CleanSection'
  <2>1. Backing(cloc, clean, Samples)'
    BY <1>1, DumpKept DEF ReaderInv, CleanSection, Backing
  <2>2. CleanUnlisted' \/ at = "clean_loc" => cloc' = Empty'.cloc /\ crow' = NoSamples'
    <3>1. CleanUnlisted' \/ at = "clean_loc" => CleanUnlisted
      BY <1>1, <1>8 DEF CleanUnlisted, At
    <3> QED BY <1>1, <3>1, DumpKept DEF ReaderInv, CleanSection
  <2>3. CleanLocating' => Locating(cloc, clean, snapC, left, Samples)'
    <3> SUFFICES ASSUME at = "clean_loc" PROVE Locating(cloc, clean, snapC, left, Samples)'
      BY <1>8
    <3>1. cloc' = Unlocated(Samples) /\ snapC' = Latest(clean', Samples)
      BY <2>2, <1>1, EmptyRegisters, DumpKept DEF CleanLocations
    <3>2. left' = Published(clean') /\ clean' \in Files([Samples -> Recorded])
      BY <1>1, <1>3, <1>4, DumpKept
    <3>3. Locating(Unlocated(Samples), clean', Latest(clean', Samples),
                   Published(clean'), Samples)
      BY <3>2, LocatingStarts
    <3>4. Locating(cloc', clean', snapC', left', Samples)
      BY <3>1, <3>2, <3>3
    <3> QED BY <3>4 DEF Locating
  <2>4. CleanLocated' => Status(cloc)' = snapC'
    <3>1. CleanLocated' => CleanLocated
      BY <1>1, <1>2, <1>8 DEF CleanLocated, At
    <3>2. Status(cloc)' = Status(cloc)
      BY <1>1 DEF Status
    <3> QED BY <1>1, <1>2, <1>8, <3>1, <3>2 DEF ReaderInv, CleanSection
  <2>5. CleanSelecting' => Selecting(crow, cloc, left, Samples)'
    <3> SUFFICES ASSUME at = "clean_rows" PROVE Selecting(crow, cloc, left, Samples)'
      BY <1>8
    <3>1. crow = NoRows(Samples)
      BY <1>1 DEF ReaderInv, CleanSection, At, NoSamples
    <3>2. Backing(cloc, clean, Samples) /\ cloc \in [Samples -> Located]
      BY DEF ReaderInv, CleanSection, Typed
    <3>3. \A s \in Samples : cloc[s] # Nowhere => cloc[s].ord \in Published(clean)
      BY <1>3, <3>2 DEF Backing, Published, Rows, Files
    <3>4. Selecting(NoRows(Samples), cloc, Published(clean), Samples)
      BY <3>2, <3>3, SelectingStarts
    <3>5. /\ crow' = NoRows(Samples) /\ cloc' = cloc /\ left' = Published(clean)
      BY <1>1, <1>4, <3>1
    <3> QED BY <3>4, <3>5 DEF Selecting
  <2>6. CleanSelected' => crow' = snapC'
    BY <1>1, <1>2, <1>8 DEF ReaderInv, CleanSection, CleanSelected, At
  <2>7. CleanUnlisted' \/ CleanLocating' \/ (At("clean_rows") /\ left = Unlisted)'
          => crow' = NoSamples'
    BY <1>5, <1>8, <2>2
  <2>8. CleanUnlisted' => cloc' = Empty'.cloc
    BY <2>2
  <2> QED BY <2>1, <2>3, <2>4, <2>5, <2>6, <2>7, <2>8 DEF CleanSection
<1>11. /\ IndexUnlisted' \/ at = "index_loc" => iloc' = Empty'.iloc /\ irow' = NoItems'
       /\ at = "data_rows" => irow' = NoItems'
  <2>1. IndexUnlisted' \/ at = "index_loc" => IndexUnlisted
    BY <1>1, <1>9 DEF IndexUnlisted, At
  <2>2. at = "data_rows" => At("data_rows")
    BY <1>1 DEF At
  <2> QED BY <1>1, <2>1, <2>2, DumpKept DEF ReaderInv, ItemSection
<1>12. ASSUME ~damaged'
       PROVE  /\ Backing(iloc, index, Items)'
              /\ IndexLocating' => Locating(iloc, index, snapI, left, Items)'
              /\ IndexLocated' => Status(iloc)' = snapI'
              /\ DataSelecting' =>
                   /\ Selecting(irow, iloc, left, Items)'
                   /\ meanwhile' # "removed" => left' \subseteq Published(chunk')
              /\ told' = "ok" /\ kind' = "inspect" => irow' = snapI'
  <2>1. ~damaged /\ Backing(iloc, index, Items) /\ iloc \in [Items -> Located]
    BY <1>1, <1>12, DumpKept DEF ReaderInv, ItemSection, Typed
  <2>2. Backing(iloc, index, Items)'
    BY <1>1, <2>1, DumpKept DEF Backing
  <2>3. IndexLocating' => Locating(iloc, index, snapI, left, Items)'
    <3> SUFFICES ASSUME at = "index_loc"
                 PROVE  Locating(iloc, index, snapI, left, Items)'
      BY <1>9
    <3>1. iloc' = Unlocated(Items) /\ snapI' = Latest(index', Items)
      BY <1>1, <1>11, EmptyRegisters, DumpKept DEF IndexLocations
    <3>2. left' = Published(index') /\ index' \in Files([Items -> Recorded])
      BY <1>1, <1>3, <1>4, DumpKept
    <3>3. Locating(Unlocated(Items), index', Latest(index', Items),
                   Published(index'), Items)
      BY <3>2, LocatingStarts
    <3>4. Locating(iloc', index', snapI', left', Items)
      BY <3>1, <3>2, <3>3
    <3> QED BY <3>4 DEF Locating
  <2>4. IndexLocated' => Status(iloc)' = snapI'
    <3>1. IndexLocated' => IndexLocated
      BY <1>1, <1>2, <1>9 DEF IndexLocated, At
    <3>2. Status(iloc)' = Status(iloc)
      BY <1>1 DEF Status
    <3> QED BY <1>1, <1>2, <1>9, <2>1, <3>1, <3>2 DEF ReaderInv, ItemSection
  <2>5. DataSelecting' => Selecting(irow, iloc, left, Items)'
    <3> SUFFICES ASSUME at = "data_rows" PROVE Selecting(irow, iloc, left, Items)'
      BY <1>9
    <3>1. irow' = NoRows(Items) /\ iloc' = iloc /\ left' = Published(chunk)
      BY <1>1, <1>4, <1>11, DumpKept DEF NoItems
    <3>2. \A n \in Ordinals : index[n] # NoItems => chunk[n] = index[n]
      BY <2>1, OpenReadsBacked
    <3>3. \A i \in Items : iloc[i] # Nowhere => iloc[i].ord \in Published(chunk)
      <4> SUFFICES ASSUME NEW i \in Items, iloc[i] # Nowhere
                   PROVE  iloc[i].ord \in Published(chunk)
        OBVIOUS
      <4>1. /\ iloc[i].ord \in Ordinals
            /\ index[iloc[i].ord][i] # Absent
        BY <2>1 DEF Backing
      <4>2. index[iloc[i].ord] # NoItems
        BY <4>1 DEF NoItems, NoRows
      <4>3. chunk[iloc[i].ord][i] # Absent
        BY <3>2, <4>1, <4>2
      <4> QED BY <1>3, <4>1, <4>3 DEF Published, Rows, Files
    <3>4. Selecting(NoRows(Items), iloc, Published(chunk), Items)
      BY <2>1, <3>3, SelectingStarts
    <3> QED BY <3>1, <3>4 DEF Selecting
  <2>6. DataSelecting' => left' \subseteq Published(chunk')
    BY <1>1, <1>4, <1>9, DumpKept
  <2> QED BY <1>1, <2>2, <2>3, <2>4, <2>5, <2>6
<1>13. ItemSection'
  <2>1. IndexUnlisted' \/ IndexLocating' \/ (At("data_rows") /\ left = Unlisted)'
          => irow' = NoItems'
    BY <1>5, <1>9, <1>11
  <2> QED BY <1>11, <1>12, <2>1 DEF ItemSection
<1>14. UndamagedReadsSucceed' /\ EstimateCoversTheRun'
  BY <1>1 DEF UndamagedReadsSucceed, EstimateCoversTheRun
<1>15. AtRest'
  <2> SUFFICES ASSUME meanwhile' = "quiet"
               PROVE  /\ ~damaged'
                      /\ kind' = "inspect" =>
                            counts' = AuthoritativeCounts(CleanLocations, IndexLocations)'
                      /\ CleanListed' => snapC' = CleanLocations'
                      /\ IndexListed' => snapI' = IndexLocations'
    BY DEF AtRest
  <2>1. /\ ~damaged
        /\ kind = "inspect" => counts = AuthoritativeCounts(CleanLocations, IndexLocations)
        /\ CleanListed => snapC = CleanLocations
        /\ IndexListed => snapI = IndexLocations
    BY <1>1 DEF ReaderInv, AtRest
  <2>2. AuthoritativeCounts(CleanLocations, IndexLocations)'
          = AuthoritativeCounts(CleanLocations, IndexLocations)
    BY <1>1, DumpKept DEF AuthoritativeCounts
  <2>3. CleanListed' => CleanListed \/ at = "clean_loc"
    BY <1>1, <1>8 DEF CleanListed, CleanLocated, At
  <2>4. IndexListed' => IndexListed \/ at = "index_loc"
    BY <1>1, <1>9 DEF IndexListed, IndexLocated, At
  <2> QED BY <1>1, <2>1, <2>2, <2>3, <2>4, DumpKept
<1>16. Settling'
  <2> SUFFICES ASSUME kind' = "estimate", alone', ~RetryFailed
               PROVE  /\ ~damaged' /\ IndexListed' /\ UNION PendingChunks(snapI)' = {}
                           => ItemsSettled'
                      /\ CleanListed' /\ PendingSamples(snapC)' = {} => SamplesSettled'
    BY <1>1 DEF Settling
  <2>1. kind = "estimate" /\ alone /\ pc = "down"
    BY <1>1
  <2>2. todoC = {} /\ todoP = {} /\ cbuf = NoSamples /\ pbuf = NoItems
    BY <2>1 DEF InvA, Control, Idlers, BuffersEmpty
  <2>3. ASSUME ~damaged', IndexListed', UNION PendingChunks(snapI)' = {}
        PROVE  ItemsSettled'
    <3>1. CASE at = "index_loc"
      <4>1. PendingChunks(snapI)' = PendingChunks(IndexLocations)
        BY <1>1, <3>1 DEF PendingChunks
      <4> QED BY <1>1, <2>2, <2>3, <4>1, DumpKept DEF ItemsSettled
    <3>2. CASE at # "index_loc"
      <4>1. IndexListed
        BY <1>1, <1>9, <2>1, <2>3, <3>2 DEF IndexListed, IndexLocated, At
      <4>2. PendingChunks(snapI)' = PendingChunks(snapI)
        BY <1>1, <3>2 DEF PendingChunks
      <4> QED BY <1>1, <2>1, <2>3, <4>1, <4>2, DumpKept DEF ReaderInv, Settling
    <3> QED BY <3>1, <3>2
  <2>4. ASSUME CleanListed', PendingSamples(snapC)' = {} PROVE SamplesSettled'
    <3>1. at = "clean_loc"
      BY <1>2, <1>8, <2>1, <2>4
    <3>2. PendingSamples(snapC)' = PendingSamples(CleanLocations)
      BY <1>1, <3>1 DEF PendingSamples
    <3> QED BY <1>1, <2>2, <2>4, <3>2, DumpKept DEF SamplesSettled
  <2> QED BY <2>3, <2>4
<1> QED BY <1>6, <1>7, <1>10, <1>13, <1>14, <1>15, <1>16 DEF ReaderInv

\* ReadFile opens the least listed file.
LEMMA ReadStep ==
    ASSUME InvA, ReaderInv, ReadFile
    PROVE  ReaderInv'
<1> DEFINE at == Head(passes)
<1>1. /\ told = "reading" /\ left # Unlisted /\ UNCHANGED vars
      /\ UNCHANGED <<kind, passes, pending, counts, snapC, snapI, alone, meanwhile>>
  BY DEF ReadFile
<1>2. \/ kind = "inspect" /\ at \in {"clean_loc", "clean_rows", "index_loc", "data_rows"}
      \/ kind = "estimate" /\ at \in {"clean_loc", "index_loc"}
  BY <1>1, WhereReading DEF ReaderInv
<1>3. PICK n \in left :
         /\ \A m \in left : n <= m
         /\ left' = left \ {n}
         /\ \/ at \in {"clean_loc", "clean_rows"} /\ ReadClean(n)
            \/ ReadIndexPart(n)
            \/ ReadData(n)
  BY DEF ReadFile
<1>4. /\ left \in SUBSET Ordinals /\ n \in Ordinals
      /\ left' \in SUBSET Ordinals /\ left' # Unlisted'
  BY <1>1, <1>3, UnlistedIsNoListing, DumpKept DEF ReaderInv, Scripted
<1>5. /\ clean \in Files([Samples -> Recorded]) /\ index \in Files([Items -> Recorded])
      /\ chunk \in Files([Items -> Recorded])
  BY DEF InvA, TypeOK, CleanRows, ItemRows
<1>6. /\ cloc \in [Samples -> Located] /\ iloc \in [Items -> Located]
      /\ crow \in [Samples -> Recorded] /\ irow \in [Items -> Recorded]
      /\ Backing(cloc, clean, Samples)
      /\ ~damaged => Backing(iloc, index, Items)
  BY DEF ReaderInv, Typed, CleanSection, ItemSection, CleanRows, ItemRows
\* the four kinds of pass
<1>7. ASSUME at = "clean_loc"
      PROVE  /\ told' = told /\ iloc' = iloc /\ irow' = irow /\ crow' = crow
             /\ cloc' \in [Samples -> Located] /\ Backing(cloc', clean, Samples)
             /\ Locating(cloc', clean, snapC, left', Samples)
  <2>1. ReadClean(n)
    BY <1>3, <1>7 DEF ReadIndexPart, ReadData
  <2>2. /\ cloc' = Overlay(cloc, clean[n], n) /\ crow' = crow
        /\ told' = told /\ iloc' = iloc /\ irow' = irow
    BY <1>7, <2>1 DEF ReadClean
  <2>3. Locating(cloc, clean, snapC, left, Samples)
    BY <1>1, <1>7 DEF ReaderInv, CleanSection, CleanLocating, At
  <2>4. /\ Overlay(cloc, clean[n], n) \in [Samples -> Located]
        /\ Backing(Overlay(cloc, clean[n], n), clean, Samples)
        /\ Locating(Overlay(cloc, clean[n], n), clean, snapC, left \ {n}, Samples)
    BY <1>3, <1>5, <1>6, <2>3, LocatingReads
  <2> QED BY <1>3, <2>2, <2>4
<1>8. ASSUME at = "clean_rows"
      PROVE  /\ told' = told /\ iloc' = iloc /\ irow' = irow /\ cloc' = cloc
             /\ crow' \in [Samples -> Recorded]
             /\ Selecting(crow', cloc, left', Samples)
  <2>1. ReadClean(n)
    BY <1>3, <1>8 DEF ReadIndexPart, ReadData
  <2>2. /\ crow' = Select(crow, clean[n], cloc, n) /\ cloc' = cloc
        /\ told' = told /\ iloc' = iloc /\ irow' = irow
    BY <1>8, <2>1 DEF ReadClean
  <2>3. Selecting(crow, cloc, left, Samples)
    BY <1>1, <1>8 DEF ReaderInv, CleanSection, CleanSelecting, At
  <2>4. /\ clean[n] \in [Samples -> Recorded]
        /\ \A s \in Samples : cloc[s] # Nowhere /\ cloc[s].ord = n
                              => clean[n][s] = cloc[s].status
    BY <1>4, <1>5, <1>6 DEF Files, Backing
  <2>5. /\ Select(crow, clean[n], cloc, n) \in [Samples -> Recorded]
        /\ Selecting(Select(crow, clean[n], cloc, n), cloc, left \ {n}, Samples)
    BY <1>3, <1>4, <1>6, <2>3, <2>4, SelectingReads
  <2> QED BY <1>3, <2>2, <2>5
<1>9. ASSUME at = "index_loc"
      PROVE  /\ cloc' = cloc /\ crow' = crow /\ irow' = irow
             /\ iloc' \in [Items -> Located]
             /\ ~damaged => /\ told' = told /\ Backing(iloc', index, Items)
                            /\ Locating(iloc', index, snapI, left', Items)
             /\ told' \in {told, "error"}
  <2>1. ReadIndexPart(n)
    BY <1>3, <1>9 DEF ReadClean, ReadData
  <2>2. /\ cloc' = cloc /\ crow' = crow /\ irow' = irow
        /\ \/ /\ index[n] = NoItems \/ chunk[n] = NoItems
              /\ told' = "error" /\ iloc' = iloc
           \/ /\ index[n] # NoItems /\ chunk[n] # NoItems
              /\ told' = told /\ iloc' = Overlay(iloc, index[n], n)
    BY <2>1 DEF ReadIndexPart
  <2>3. iloc' \in [Items -> Located]
    <3>1. index[n] \in [Items -> Recorded]
      BY <1>4, <1>5 DEF Files
    <3>2. Overlay(iloc, index[n], n) \in [Items -> Located]
      BY <1>4, <1>6, <3>1 DEF Overlay, Located, Recorded
    <3> QED BY <1>6, <2>2, <3>2
  <2>4. ASSUME ~damaged
        PROVE  /\ told' = told /\ Backing(iloc', index, Items)
               /\ Locating(iloc', index, snapI, left', Items)
    <3>1. Locating(iloc, index, snapI, left, Items)
      BY <1>1, <1>9, <2>4 DEF ReaderInv, ItemSection, IndexLocating, At
    <3>2. n \in Published(index)
      BY <1>3, <3>1 DEF Locating
    <3>3. index[n] # NoItems /\ chunk[n] # NoItems
      <4>1. index[n] # NoItems
        BY <1>4, <1>5, <3>2, PublishedChunks DEF ItemRows
      <4> QED BY <1>4, <2>4, <4>1, OpenReadsBacked
    <3>4. told' = told /\ iloc' = Overlay(iloc, index[n], n)
      BY <2>2, <3>3
    <3>5. /\ Backing(Overlay(iloc, index[n], n), index, Items)
          /\ Locating(Overlay(iloc, index[n], n), index, snapI, left \ {n}, Items)
      BY <1>3, <1>5, <1>6, <2>4, <3>1, LocatingReads
    <3> QED BY <1>3, <3>4, <3>5
  <2> QED BY <2>2, <2>3, <2>4
<1>10. ASSUME at = "data_rows"
       PROVE  /\ cloc' = cloc /\ crow' = crow /\ iloc' = iloc
              /\ irow' \in [Items -> Recorded]
              /\ told' \in {told, "error"}
              /\ ~damaged /\ meanwhile # "removed" => told' = told
              /\ ~damaged /\ told' = told => Selecting(irow', iloc, left', Items)
  <2>1. ReadData(n)
    BY <1>3, <1>10 DEF ReadClean, ReadIndexPart
  <2>2. /\ cloc' = cloc /\ crow' = crow /\ iloc' = iloc
        /\ \/ /\ chunk[n] = NoItems \/ Disagrees(n)
              /\ told' = "error" /\ irow' = irow
           \/ /\ told' = told /\ irow' = Select(irow, chunk[n], iloc, n)
    BY <2>1 DEF ReadData
  <2>3. chunk[n] \in [Items -> Recorded]
    BY <1>4, <1>5 DEF Files
  <2>4. irow' \in [Items -> Recorded]
    <3>1. Select(irow, chunk[n], iloc, n) \in [Items -> Recorded]
      BY <1>6, <2>3 DEF Select
    <3> QED BY <1>6, <2>2, <3>1
  <2>5. ASSUME ~damaged
        PROVE  /\ \A i \in Items : iloc[i] # Nowhere /\ iloc[i].ord = n
                                   => chunk[n][i] = iloc[i].status
               /\ meanwhile # "removed" => n \in Published(chunk)
               /\ Selecting(irow, iloc, left, Items)
    <3>1. ASSUME NEW i \in Items, iloc[i] # Nowhere, iloc[i].ord = n
          PROVE  chunk[n][i] = iloc[i].status
      <4>1. index[n][i] = iloc[i].status /\ index[n][i] # Absent
        BY <1>6, <2>5, <3>1 DEF Backing
      <4>2. index[n] # NoItems
        BY <4>1 DEF NoItems, NoRows
      <4>3. chunk[n] = index[n]
        BY <1>4, <2>5, <4>2, OpenReadsBacked
      <4> QED BY <4>1, <4>3
    <3>2. /\ Selecting(irow, iloc, left, Items)
          /\ meanwhile # "removed" => left \subseteq Published(chunk)
      BY <1>1, <1>10, <2>5 DEF ReaderInv, ItemSection, DataSelecting, At
    <3> QED BY <1>3, <3>1, <3>2
  <2>6. ~damaged /\ meanwhile # "removed" => told' = told
    <3> SUFFICES ASSUME ~damaged, meanwhile # "removed"
                 PROVE  chunk[n] # NoItems /\ ~Disagrees(n)
      BY <2>2
    <3>1. chunk[n] # NoItems
      BY <1>4, <1>5, <2>5, PublishedChunks DEF ItemRows
    <3>2. Nowhere.ord # n
      BY <1>4, UnlistedIsNoListing DEF Nowhere
    <3>3. ~Disagrees(n)
      BY <2>5, <3>2 DEF Disagrees
    <3> QED BY <3>1, <3>3
  <2>7. ~damaged /\ told' = told => Selecting(irow', iloc, left', Items)
    <3> SUFFICES ASSUME ~damaged, told' = told
                 PROVE  Selecting(irow', iloc, left', Items)
      OBVIOUS
    <3>1. irow' = Select(irow, chunk[n], iloc, n)
      BY <1>1, <2>2
    <3>2. Selecting(Select(irow, chunk[n], iloc, n), iloc, left \ {n}, Items)
      BY <1>3, <1>4, <1>6, <2>3, <2>5, SelectingReads
    <3> QED BY <1>3, <3>1, <3>2
  <2> QED BY <2>2, <2>4, <2>6, <2>7
\* and together
<1>11. /\ told' \in {"reading", "error"}
       /\ cloc' \in [Samples -> Located] /\ iloc' \in [Items -> Located]
       /\ crow' \in [Samples -> Recorded] /\ irow' \in [Items -> Recorded]
       /\ Backing(cloc', clean, Samples)
       /\ ~damaged => Backing(iloc', index, Items)
       /\ told' = "error" => damaged \/ meanwhile = "removed"
  BY <1>1, <1>2, <1>6, <1>7, <1>8, <1>9, <1>10
<1>12. Scripted'
  BY <1>1, <1>4, <1>11 DEF ReaderInv, Scripted
<1>13. Typed'
  BY <1>1, <1>11 DEF ReaderInv, Typed, CleanRows, ItemRows
<1>14. UndamagedReadsSucceed' /\ EstimateCoversTheRun'
  BY <1>1, <1>11, DumpKept DEF UndamagedReadsSucceed, EstimateCoversTheRun
\* where the reader is after the step
<1>15. /\ CleanUnlisted' => CleanUnlisted /\ at = "index_loc"
       /\ CleanLocating' => CleanLocating /\ at = "clean_loc"
       /\ CleanLocated' => CleanLocated /\ at # "clean_loc"
       /\ CleanListed' => CleanListed
       /\ CleanSelecting' => CleanSelecting /\ at = "clean_rows"
       /\ CleanSelected' => CleanSelected /\ at \in {"index_loc", "data_rows"}
       /\ (At("clean_rows") /\ left = Unlisted)' = FALSE
  BY <1>1, <1>2, <1>4, <1>11
     DEF At, CleanUnlisted, CleanLocating, CleanLocated, CleanListed,
         CleanSelecting, CleanSelected
<1>16. /\ IndexUnlisted' => IndexUnlisted /\ at \in {"clean_loc", "clean_rows"}
       /\ IndexLocating' => IndexLocating /\ at = "index_loc"
       /\ IndexLocated' => IndexLocated /\ at # "index_loc"
       /\ IndexListed' => IndexListed
       /\ DataSelecting' => DataSelecting /\ at = "data_rows"
       /\ (At("data_rows") /\ left = Unlisted)' = FALSE
  BY <1>1, <1>2, <1>4, <1>11
     DEF At, IndexUnlisted, IndexLocating, IndexLocated, IndexListed, DataSelecting
<1>17. CleanSection'
  <2>1. Backing(cloc, clean, Samples)'
    BY <1>1, <1>11, DumpKept DEF Backing
  <2>2. CleanUnlisted' => cloc' = Empty'.cloc
    BY <1>1, <1>9, <1>15, DumpKept DEF ReaderInv, CleanSection
  <2>3. CleanLocating' => Locating(cloc, clean, snapC, left, Samples)'
    <3>1. CleanLocating' => Locating(cloc', clean', snapC', left', Samples)
      BY <1>1, <1>7, <1>15, DumpKept
    <3> QED BY <3>1 DEF Locating
  <2>4. CleanLocated' => Status(cloc)' = snapC'
    <3>1. CleanLocated' => cloc' = cloc
      BY <1>2, <1>8, <1>9, <1>10, <1>15
    <3> QED BY <1>1, <1>15, <3>1 DEF ReaderInv, CleanSection, Status
  <2>5. CleanUnlisted' \/ CleanLocating' \/ (At("clean_rows") /\ left = Unlisted)'
          => crow' = NoSamples'
    BY <1>1, <1>7, <1>9, <1>15, DumpKept DEF ReaderInv, CleanSection
  <2>6. CleanSelecting' => Selecting(crow, cloc, left, Samples)'
    <3>1. CleanSelecting' => Selecting(crow', cloc', left', Samples)
      BY <1>8, <1>15
    <3> QED BY <3>1 DEF Selecting
  <2>7. CleanSelected' => crow' = snapC'
    BY <1>1, <1>9, <1>10, <1>15 DEF ReaderInv, CleanSection
  <2> QED BY <2>1, <2>2, <2>3, <2>4, <2>5, <2>6, <2>7 DEF CleanSection
<1>18. ASSUME ~damaged'
       PROVE  /\ Backing(iloc, index, Items)'
              /\ IndexLocating' => Locating(iloc, index, snapI, left, Items)'
              /\ IndexLocated' => Status(iloc)' = snapI'
              /\ DataSelecting' =>
                   /\ Selecting(irow, iloc, left, Items)'
                   /\ meanwhile' # "removed" => left' \subseteq Published(chunk')
              /\ told' = "ok" /\ kind' = "inspect" => irow' = snapI'
  <2>0. ~damaged
    BY <1>1, <1>18, DumpKept
  <2>1. Backing(iloc, index, Items)'
    BY <1>1, <1>11, <2>0, DumpKept DEF Backing
  <2>2. IndexLocating' => Locating(iloc, index, snapI, left, Items)'
    <3>1. IndexLocating' => Locating(iloc', index', snapI', left', Items)
      BY <1>1, <1>9, <1>16, <2>0, DumpKept
    <3> QED BY <3>1 DEF Locating
  <2>3. IndexLocated' => Status(iloc)' = snapI'
    <3>1. IndexLocated' => iloc' = iloc
      BY <1>2, <1>7, <1>8, <1>10, <1>16
    <3> QED BY <1>1, <1>16, <2>0, <3>1 DEF ReaderInv, ItemSection, Status
  <2>4. DataSelecting' => Selecting(irow, iloc, left, Items)'
    <3>1. DataSelecting' => told' = told
      BY <1>1 DEF DataSelecting, At
    <3>2. DataSelecting' => Selecting(irow', iloc', left', Items)
      BY <1>10, <1>16, <2>0, <3>1
    <3> QED BY <3>2 DEF Selecting
  <2>5. DataSelecting' /\ meanwhile' # "removed" => left' \subseteq Published(chunk')
    BY <1>1, <1>3, <1>16, <2>0, DumpKept DEF ReaderInv, ItemSection
  <2> QED BY <1>11, <2>1, <2>2, <2>3, <2>4, <2>5
<1>19. ItemSection'
  <2>1. IndexUnlisted' => iloc' = Empty'.iloc
    BY <1>1, <1>7, <1>8, <1>16, DumpKept DEF ReaderInv, ItemSection
  <2>2. IndexUnlisted' \/ IndexLocating' \/ (At("data_rows") /\ left = Unlisted)'
          => irow' = NoItems'
    BY <1>1, <1>7, <1>8, <1>9, <1>16, DumpKept DEF ReaderInv, ItemSection
  <2> QED BY <1>18, <2>1, <2>2 DEF ItemSection
<1>20. AtRest'
  <2>1. AuthoritativeCounts(CleanLocations, IndexLocations)'
          = AuthoritativeCounts(CleanLocations, IndexLocations)
    BY <1>1, DumpKept DEF AuthoritativeCounts
  <2> QED BY <1>1, <1>15, <1>16, <2>1, DumpKept DEF ReaderInv, AtRest
<1>21. Settling'
  <2>1. /\ PendingChunks(snapI)' = PendingChunks(snapI)
        /\ PendingSamples(snapC)' = PendingSamples(snapC)
    BY <1>1 DEF PendingChunks, PendingSamples
  <2> QED BY <1>1, <1>11, <1>15, <1>16, <2>1, DumpKept DEF ReaderInv, Settling
<1> QED BY <1>12, <1>13, <1>14, <1>17, <1>19, <1>20, <1>21 DEF ReaderInv

\* A pass ends when every listed file was opened.
LEMMA EndStep ==
    ASSUME InvA, ReaderInv, EndPass
    PROVE  ReaderInv'
<1> DEFINE at == Head(passes)
           next == Head(passes')
<1>1. /\ told = "reading" /\ left = {} /\ UNCHANGED vars
      /\ UNCHANGED <<kind, pending, alone, meanwhile>>
      /\ cloc' = cloc /\ iloc' = iloc /\ crow' = crow /\ irow' = irow
      /\ counts' = counts /\ snapC' = snapC /\ snapI' = snapI
      /\ left' = Unlisted /\ passes' = Tail(passes)
      /\ told' = IF Unseen THEN "error"
                 ELSE IF Len(passes) = 1 THEN "ok" ELSE "reading"
  BY DEF EndPass, registers
<1>2. left # Unlisted /\ left' = Unlisted'
  BY <1>1, DumpKept DEF Unlisted
<1>3. /\ kind \in Kinds /\ passes \in Suffixes(kind)
  BY <1>1 DEF ReaderInv, Scripted
<1>4. \/ /\ kind = "inspect" /\ at \in {"clean_loc", "clean_rows", "index_loc"}
         /\ Len(passes) # 1 /\ passes' \in Suffixes(kind)
         /\ at = "clean_loc" => next = "clean_rows"
         /\ at = "clean_rows" => next = "index_loc"
         /\ at = "index_loc" => next = "data_rows"
      \/ /\ kind = "inspect" /\ at = "data_rows"
         /\ Len(passes) = 1 /\ passes' = << >>
      \/ /\ kind = "estimate" /\ at = "index_loc"
         /\ Len(passes) # 1 /\ passes' \in Suffixes(kind) /\ next = "clean_loc"
      \/ /\ kind = "estimate" /\ at = "clean_loc"
         /\ Len(passes) = 1 /\ passes' = << >>
  BY <1>1, <1>3, Passes DEF Kinds
<1>5. /\ cloc \in [Samples -> Located] /\ iloc \in [Items -> Located]
      /\ crow \in [Samples -> Recorded] /\ irow \in [Items -> Recorded]
      /\ snapC \in [Samples -> Recorded] /\ snapI \in [Items -> Recorded]
      /\ Backing(cloc, clean, Samples)
      /\ ~damaged => Backing(iloc, index, Items)
  BY DEF ReaderInv, Typed, CleanSection, ItemSection, CleanRows, ItemRows
<1>6. at = "clean_loc" => Status(cloc) = snapC
  <2> SUFFICES ASSUME at = "clean_loc" PROVE Status(cloc) = snapC
    OBVIOUS
  <2>1. Locating(cloc, clean, snapC, left, Samples)
    BY <1>1, <1>2 DEF ReaderInv, CleanSection, CleanLocating, At
  <2>2. Locating(cloc, clean, snapC, {}, Samples)
    BY <1>1, <2>1
  <2> QED BY <1>5, <2>2, LocatingEnds
<1>7. at = "clean_rows" => /\ Selecting(crow, cloc, {}, Samples)
                           /\ crow = Status(cloc) /\ Status(cloc) = snapC
  <2> SUFFICES ASSUME at = "clean_rows"
               PROVE  /\ Selecting(crow, cloc, {}, Samples)
                      /\ crow = Status(cloc) /\ Status(cloc) = snapC
    OBVIOUS
  <2>1. Selecting(crow, cloc, left, Samples) /\ Status(cloc) = snapC
    BY <1>1, <1>2 DEF ReaderInv, CleanSection, CleanSelecting, CleanLocated, At
  <2>2. Selecting(crow, cloc, {}, Samples)
    BY <1>1, <2>1
  <2> QED BY <1>5, <2>1, <2>2, SelectingEnds
<1>8. at = "index_loc" /\ ~damaged => Status(iloc) = snapI
  <2> SUFFICES ASSUME at = "index_loc", ~damaged PROVE Status(iloc) = snapI
    OBVIOUS
  <2>1. Locating(iloc, index, snapI, left, Items)
    BY <1>1, <1>2 DEF ReaderInv, ItemSection, IndexLocating, At
  <2>2. Locating(iloc, index, snapI, {}, Items)
    BY <1>1, <2>1
  <2> QED BY <1>5, <2>2, LocatingEnds
<1>9. at = "data_rows" /\ ~damaged => /\ Selecting(irow, iloc, {}, Items)
                                      /\ irow = Status(iloc) /\ Status(iloc) = snapI
  <2> SUFFICES ASSUME at = "data_rows", ~damaged
               PROVE  /\ Selecting(irow, iloc, {}, Items)
                      /\ irow = Status(iloc) /\ Status(iloc) = snapI
    OBVIOUS
  <2>1. Selecting(irow, iloc, left, Items) /\ Status(iloc) = snapI
    BY <1>1, <1>2 DEF ReaderInv, ItemSection, DataSelecting, IndexLocated, At
  <2>2. Selecting(irow, iloc, {}, Items)
    BY <1>1, <2>1
  <2> QED BY <1>5, <2>1, <2>2, SelectingEnds
<1>10. Unseen => at = "data_rows" /\ damaged
  <2>1. at = "clean_rows" => ~ \E s \in Samples : cloc[s] # Nowhere /\ crow[s] = Absent
    BY <1>5, <1>7, NothingUnseen
  <2>2. at = "data_rows" /\ ~damaged
          => ~ \E i \in Items : iloc[i] # Nowhere /\ irow[i] = Absent
    BY <1>5, <1>9, NothingUnseen
  <2> QED BY <2>1, <2>2 DEF Unseen
<1>11. /\ told' \in {"reading", "ok", "error"}
       /\ told' = "error" => damaged
       /\ told' = "reading" => at # "data_rows" /\ passes' \in Suffixes(kind)
       /\ told' = "ok" => passes' = << >>
       /\ passes' \in Suffixes(kind) \cup {<< >>}
       /\ told' = "ok" => \/ kind = "inspect" /\ at = "data_rows"
                          \/ kind = "estimate" /\ at = "clean_loc"
       /\ told' = "reading" /\ kind = "estimate" => at = "index_loc"
  BY <1>1, <1>4, <1>10
<1>12. Scripted'
  BY <1>1, <1>2, <1>11 DEF ReaderInv, Scripted
<1>13. Typed'
  BY <1>1 DEF ReaderInv, Typed
<1>14. UndamagedReadsSucceed' /\ EstimateCoversTheRun'
  BY <1>1, <1>11, DumpKept DEF UndamagedReadsSucceed, EstimateCoversTheRun
\* where the reader is after the step
<1>15. /\ CleanUnlisted' => CleanUnlisted /\ kind = "estimate" /\ at = "index_loc"
       /\ ~CleanLocating' /\ ~CleanSelecting'
       /\ CleanLocated' => at = "clean_loc" \/ CleanLocated
       /\ CleanListed' => CleanListed
       /\ CleanSelected' => at = "clean_rows" \/ CleanSelected
       /\ (At("clean_rows") /\ left = Unlisted)' => CleanLocating
  BY <1>1, <1>2, <1>4, <1>11
     DEF At, CleanUnlisted, CleanLocating, CleanLocated, CleanListed,
         CleanSelecting, CleanSelected
<1>16. /\ IndexUnlisted' => IndexUnlisted
       /\ ~IndexLocating' /\ ~DataSelecting'
       /\ IndexLocated' => at = "index_loc" \/ IndexLocated
       /\ IndexListed' => IndexListed
       /\ (At("data_rows") /\ left = Unlisted)' => IndexLocating
  BY <1>1, <1>2, <1>4, <1>11
     DEF At, IndexUnlisted, IndexLocating, IndexLocated, IndexListed, DataSelecting
<1>17. CleanSection'
  <2>1. Backing(cloc, clean, Samples)'
    BY <1>1, <1>5, DumpKept DEF Backing
  <2>2. CleanUnlisted' => cloc' = Empty'.cloc
    BY <1>1, <1>15, DumpKept DEF ReaderInv, CleanSection
  <2>3. CleanLocated' => Status(cloc)' = snapC'
    <3>1. Status(cloc)' = Status(cloc)
      BY <1>1 DEF Status
    <3> QED BY <1>1, <1>6, <1>15, <3>1 DEF ReaderInv, CleanSection
  <2>4. CleanUnlisted' \/ CleanLocating' \/ (At("clean_rows") /\ left = Unlisted)'
          => crow' = NoSamples'
    BY <1>1, <1>15, DumpKept DEF ReaderInv, CleanSection
  <2>5. CleanSelected' => crow' = snapC'
    BY <1>1, <1>7, <1>15 DEF ReaderInv, CleanSection
  <2> QED BY <1>15, <2>1, <2>2, <2>3, <2>4, <2>5 DEF CleanSection
<1>18. ASSUME ~damaged'
       PROVE  /\ Backing(iloc, index, Items)'
              /\ IndexLocated' => Status(iloc)' = snapI'
              /\ told' = "ok" /\ kind' = "inspect" => irow' = snapI'
  <2>0. ~damaged
    BY <1>1, <1>18, DumpKept
  <2>1. Backing(iloc, index, Items)'
    BY <1>1, <1>5, <2>0, DumpKept DEF Backing
  <2>2. IndexLocated' => Status(iloc)' = snapI'
    <3>1. Status(iloc)' = Status(iloc)
      BY <1>1 DEF Status
    <3> QED BY <1>1, <1>8, <1>16, <2>0, <3>1 DEF ReaderInv, ItemSection
  <2>3. told' = "ok" /\ kind' = "inspect" => irow' = snapI'
    BY <1>1, <1>9, <1>11, <2>0
  <2> QED BY <2>1, <2>2, <2>3
<1>19. ItemSection'
  <2>1. IndexUnlisted' => iloc' = Empty'.iloc
    BY <1>1, <1>16, DumpKept DEF ReaderInv, ItemSection
  <2>2. IndexUnlisted' \/ IndexLocating' \/ (At("data_rows") /\ left = Unlisted)'
          => irow' = NoItems'
    BY <1>1, <1>16, DumpKept DEF ReaderInv, ItemSection
  <2> QED BY <1>16, <1>18, <2>1, <2>2 DEF ItemSection
<1>20. AtRest'
  <2>1. AuthoritativeCounts(CleanLocations, IndexLocations)'
          = AuthoritativeCounts(CleanLocations, IndexLocations)
    BY <1>1, DumpKept DEF AuthoritativeCounts
  <2> QED BY <1>1, <1>15, <1>16, <2>1, DumpKept DEF ReaderInv, AtRest
<1>21. Settling'
  <2>1. /\ PendingChunks(snapI)' = PendingChunks(snapI)
        /\ PendingSamples(snapC)' = PendingSamples(snapC)
    BY <1>1 DEF PendingChunks, PendingSamples
  <2> QED BY <1>1, <1>11, <1>15, <1>16, <2>1, DumpKept DEF ReaderInv, Settling
<1> QED BY <1>12, <1>13, <1>14, <1>17, <1>19, <1>20, <1>21 DEF ReaderInv

\* What is missing among located rows is missing on disk or was not there yet.
LEMMA BackingIsPresent ==
    ASSUME NEW ids, NEW files, NEW loc, Backing(loc, files, ids), NEW i \in ids,
           Latest(files, ids)[i] = Absent
    PROVE  loc[i] = Nowhere
<1>1. Holding(files, i) = {}
  BY LatestAbsent
<1> QED BY <1>1 DEF Backing, Holding

\* CostEstimator keeps what is pending of the located rows.
LEMMA EstimateStep ==
    ASSUME InvA, ReaderInv, Estimate
    PROVE  ReaderInv'
<1>1. /\ told = "ok" /\ kind = "estimate" /\ told' = "estimated" /\ UNCHANGED vars
      /\ UNCHANGED <<kind, passes, left, alone, meanwhile>>
      /\ pending' = [items |-> UNION PendingChunks(Status(iloc)),
                     samples |-> PendingSamples(Status(cloc))]
      /\ cloc' = Empty.cloc /\ crow' = Empty.crow
      /\ iloc' = Empty.iloc /\ irow' = Empty.irow
      /\ counts' = NoManifest.counts /\ snapC' = NoSamples /\ snapI' = NoItems
  BY DEF Estimate
<1>2. /\ pending'.items = UNION PendingChunks(Status(iloc))
      /\ pending'.samples = PendingSamples(Status(cloc))
  BY <1>1
<1>3. Scripted'
  BY <1>1, DumpKept DEF ReaderInv, Scripted
<1>4. Typed'
  <2>1. UNION PendingChunks(Status(iloc)) \subseteq Items
    BY PlanAssumption DEF PendingChunks
  <2>2. PendingSamples(Status(cloc)) \subseteq Samples
    BY DEF PendingSamples
  <2>3. counts' \in [Statuses -> Nat]
    BY <1>1 DEF NoManifest
  <2> QED BY <1>1, <1>2, <2>1, <2>2, <2>3, EmptyRegisters, EmptyTypes
          DEF ReaderInv, Typed
<1>5. CleanSection'
  <2>1. Backing(cloc, clean, Samples)'
    <3>1. Backing(Empty.cloc, clean', Samples)
      BY EmptyRegisters
    <3> QED BY <1>1, <3>1 DEF Backing
  <2>2. /\ ~CleanUnlisted' /\ ~CleanLocating' /\ ~CleanLocated' /\ ~CleanSelecting'
        /\ ~CleanSelected' /\ ~At("clean_rows")'
    BY <1>1 DEF CleanUnlisted, CleanLocating, CleanLocated, CleanSelecting,
                CleanSelected, At
  <2> QED BY <2>1, <2>2 DEF CleanSection
<1>6. ItemSection'
  <2>1. Backing(iloc, index, Items)'
    <3>1. Backing(Empty.iloc, index', Items)
      BY EmptyRegisters
    <3> QED BY <1>1, <3>1 DEF Backing
  <2>2. /\ ~IndexUnlisted' /\ ~IndexLocating' /\ ~IndexLocated' /\ ~DataSelecting'
        /\ ~At("data_rows")' /\ told' # "ok"
    BY <1>1 DEF IndexUnlisted, IndexLocating, IndexLocated, DataSelecting, At
  <2> QED BY <2>1, <2>2 DEF ItemSection
<1>7. UndamagedReadsSucceed' /\ AtRest'
  BY <1>1 DEF UndamagedReadsSucceed, AtRest
<1>8. EstimateCoversTheRun'
  <2> SUFFICES ASSUME ~RetryFailed
               PROVE  /\ PendingSamples(CleanLocations') \subseteq pending'.samples
                      /\ ~damaged' => UNION PendingChunks(IndexLocations')
                                        \subseteq pending'.items
    BY DEF EstimateCoversTheRun, PendingSamples, PendingChunks
  <2>1. \A s \in Samples : CleanLocations[s] = Absent => Status(cloc)[s] = Absent
    <3> SUFFICES ASSUME NEW s \in Samples, CleanLocations[s] = Absent
                 PROVE  Status(cloc)[s] = Absent
      OBVIOUS
    <3>1. cloc[s] = Nowhere
      BY BackingIsPresent DEF ReaderInv, CleanSection, CleanLocations
    <3> QED BY <3>1 DEF Status, Nowhere, ReaderInv, Typed
  <2>2. ASSUME ~damaged
        PROVE  \A i \in Items : IndexLocations[i] = Absent => Status(iloc)[i] = Absent
    <3> SUFFICES ASSUME NEW i \in Items, IndexLocations[i] = Absent
                 PROVE  Status(iloc)[i] = Absent
      OBVIOUS
    <3>1. iloc[i] = Nowhere
      BY <2>2, BackingIsPresent DEF ReaderInv, ItemSection, IndexLocations
    <3> QED BY <3>1 DEF Status, Nowhere, ReaderInv, Typed
  <2>3. PendingSamples(CleanLocations') \subseteq pending'.samples
    BY <1>1, <1>2, <2>1, PendingIsAbsent, DumpKept
  <2>4. ASSUME ~damaged'
        PROVE  UNION PendingChunks(IndexLocations') \subseteq pending'.items
    <3>1. \A d \in Chunks : d \subseteq Items
      BY PlanAssumption
    <3>2. ~damaged /\ IndexLocations' = IndexLocations
      BY <1>1, <2>4, DumpKept
    <3>3. {d \in Chunks : \E i \in d : IndexLocations[i] = Absent}
            \subseteq {d \in Chunks : \E i \in d : Status(iloc)[i] = Absent}
      BY <2>2, <3>1, <3>2
    <3> QED BY <1>2, <3>2, <3>3, PendingIsAbsent
  <2> QED BY <2>3, <2>4
<1>9. Settling'
  <2> SUFFICES ASSUME alone, ~RetryFailed
               PROVE  /\ ~damaged' /\ pending'.items = {} => ItemsSettled'
                      /\ pending'.samples = {} => SamplesSettled'
    <3>1. ~IndexListed' /\ ~CleanListed'
      BY <1>1 DEF IndexListed, IndexLocating, IndexLocated, CleanListed,
                  CleanLocating, CleanLocated, At
    <3> QED BY <1>1, <3>1 DEF Settling
  <2>1. IndexListed /\ CleanListed /\ IndexLocated /\ CleanLocated
    BY <1>1 DEF IndexListed, IndexLocated, CleanListed, CleanLocated
  <2>2. Status(cloc) = snapC /\ (~damaged => Status(iloc) = snapI)
    BY <2>1 DEF ReaderInv, CleanSection, ItemSection
  <2> QED BY <1>1, <1>2, <2>1, <2>2, DumpKept DEF ReaderInv, Settling
<1> QED BY <1>3, <1>4, <1>5, <1>6, <1>7, <1>8, <1>9 DEF ReaderInv

-----------------------------------------------------------------------------
(* The theorems.                                                           *)

\* stuttering keeps it
LEMMA StutterStep ==
    ASSUME InvA, ReaderInv, UNCHANGED allVars
    PROVE  ReaderInv'
<1>1. UNCHANGED vars /\ ReaderKept /\ UNCHANGED meanwhile /\ told' = told
  BY DEF allVars, reader, ReaderKept
<1>2. TypeOK' /\ [Next]_vars
  BY <1>1, TypeStep DEF InvA
<1>3. Kept
  BY <1>1 DEF Kept, vars
<1>4. Scripted' /\ Typed' /\ UndamagedReadsSucceed'
  BY <1>1, DumpKept
     DEF ReaderInv, Scripted, Typed, UndamagedReadsSucceed, ReaderKept, registers
<1>5. CleanSection'
  BY <1>2, <1>3, <1>1, CleanSectionKept DEF ReaderInv, InvA
<1>6. ItemSection'
  <2>1. CASE meanwhile = "removed" /\ told = "reading"
    <3>1. /\ iloc' = iloc /\ irow' = irow /\ snapI' = snapI /\ left' = left
          /\ told' = told /\ kind' = kind /\ meanwhile' = meanwhile
      BY <1>1 DEF ReaderKept, registers
    <3>2. Status(iloc)' = Status(iloc)
      BY <3>1 DEF Status
    <3>3. Backing(iloc, index, Items) => Backing(iloc, index, Items)'
      BY <1>1, <3>1, DumpKept DEF Backing
    <3>4. Locating(iloc, index, snapI, left, Items)
            => Locating(iloc, index, snapI, left, Items)'
      BY <1>1, <3>1, DumpKept DEF Locating
    <3>5. Selecting(irow, iloc, left, Items) => Selecting(irow, iloc, left, Items)'
      BY <3>1 DEF Selecting
    <3>6. (At("data_rows") /\ left = Unlisted)' = (At("data_rows") /\ left = Unlisted)
      BY <1>1, <3>1, DumpKept, PlacesKept
    <3> QED BY <1>1, <2>1, <3>1, <3>2, <3>3, <3>4, <3>5, <3>6, DumpKept, PlacesKept
            DEF ReaderInv, ItemSection
  <2>2. CASE ~(meanwhile = "removed" /\ told = "reading")
    BY <1>1, <1>2, <1>3, <2>2, ItemSectionKept, DumpKept DEF ReaderInv
  <2> QED BY <2>1, <2>2
<1>7. AtRest'
  <2>1. AuthoritativeCounts(CleanLocations, IndexLocations)'
          = AuthoritativeCounts(CleanLocations, IndexLocations)
    BY <1>1, DumpKept DEF AuthoritativeCounts
  <2> QED BY <1>1, <2>1, DumpKept, PlacesKept
          DEF ReaderInv, AtRest, ReaderKept, registers
<1>8. EstimateCoversTheRun' /\ Settling'
  BY <1>1, <1>2, <1>3, CoversKept, SettlingKept DEF ReaderInv, InvA
<1> QED BY <1>4, <1>5, <1>6, <1>7, <1>8 DEF ReaderInv

\* every step keeps it
LEMMA ReaderStep ==
    InvA /\ InvA' /\ CountsMatchDisk /\ ReaderInv
      /\ [DumpStep \/ Reading \/ Rest]_allVars => ReaderInv'
<1> SUFFICES ASSUME InvA, InvA', CountsMatchDisk, ReaderInv,
                    [DumpStep \/ Reading \/ Rest]_allVars
             PROVE  ReaderInv'
  OBVIOUS
<1>1. CASE DumpStep
  BY <1>1, DumpStepInv
<1>2. ASSUME NEW k \in Kinds, OpenReader(k) PROVE ReaderInv'
  BY <1>2, OpenStep
<1>3. CASE ListFiles
  BY <1>3, ListStep
<1>4. CASE ReadFile
  BY <1>4, ReadStep
<1>5. CASE EndPass
  BY <1>5, EndStep
<1>6. CASE Estimate
  BY <1>6, EstimateStep
<1>7. CASE Rest \/ UNCHANGED allVars
  BY <1>7, StutterStep DEF Rest
<1> QED BY <1>1, <1>2, <1>3, <1>4, <1>5, <1>6, <1>7 DEF Reading

\* so it always holds
LEMMA ReaderInvariant == InspectSpec => [](InvA /\ CountsMatchDisk /\ ReaderInv)
<1>1. InspectSpec => []InvA /\ []CountsMatchDisk
  BY ReadersAreUsers, InvACorrect, CountsAlwaysMatch, PTL
<1> QED BY <1>1, ReaderInit, ReaderStep, PTL DEF InspectSpec

\* What inspect and the readers of rebuild_index return is one moment of the
\* dump, whatever runs, is killed or is repaired beside them.
THEOREM ReadersSeeOneMoment == InspectSpec => []ReadsAreOfOneMoment
<1>1. ReaderInv => ReadsAreOfOneMoment
  <2> SUFFICES ASSUME ReaderInv PROVE ReadsAreOfOneMoment
    OBVIOUS
  <2>1. ReaderTypeOK
    BY EndsOfScripts DEF ReaderInv, Scripted, Typed, ReaderTypeOK
  <2>2. RowsAreASnapshot
    BY DEF ReaderInv, CleanSection, ItemSection, CleanLocated, CleanSelected,
           IndexLocated, RowsAreASnapshot
  <2>3. CountsOfADumpAtRestMatch
    <3> SUFFICES ASSUME told = "ok", kind = "inspect", meanwhile = "quiet"
                 PROVE  counts = AuthoritativeCounts(crow, irow)
      BY DEF CountsOfADumpAtRestMatch, ManifestCountsMatch
    <3>1. /\ ~damaged /\ snapC = CleanLocations /\ snapI = IndexLocations
          /\ counts = AuthoritativeCounts(CleanLocations, IndexLocations)
      BY DEF ReaderInv, AtRest, CleanListed, CleanLocated, IndexListed, IndexLocated
    <3>2. crow = snapC /\ irow = snapI
      BY <3>1 DEF ReaderInv, CleanSection, CleanSelected, ItemSection
    <3> QED BY <3>1, <3>2
  <2> QED BY <2>1, <2>2, <2>3 DEF ReaderInv, ReadsAreOfOneMoment
<1> QED BY <1>1, ReaderInvariant, PTL

\* Without retry_failed the run a user confirmed is never larger than the
\* estimate that was shown.
THEOREM EstimatesCover == InspectSpec => []EstimateCoversTheRun
<1>1. ReaderInv => EstimateCoversTheRun
  BY DEF ReaderInv
<1> QED BY <1>1, ReaderInvariant, PTL

\* A run with nothing to record publishes nothing.
LEMMA SettledPublishesNothing ==
    ASSUME InvA, [Next]_vars, ItemsSettled, SamplesSettled
    PROVE  Published(chunk') \subseteq Published(chunk) /\ clean' = clean
<1>1. pc \notin {"clean_file", "data_file", "index_file"}
  BY DEF InvA, Control, ItemsSettled, SamplesSettled
<1>2. ASSUME NEW n \in Ordinals, LoseChunk(n)
      PROVE  Published(chunk') \subseteq Published(chunk) /\ clean' = clean
  <2>1. chunk' = [chunk EXCEPT ![n] = NoItems] /\ clean' = clean
    BY <1>2 DEF LoseChunk
  <2>2. chunk \in Files([Items -> Recorded])
    BY DEF InvA, TypeOK, ItemRows
  <2>3. \A m \in Ordinals : chunk'[m] = chunk[m] \/ chunk'[m] = NoItems
    BY <2>1, <2>2 DEF Files
  <2>4. Rows(NoItems) = {}
    BY DEF Rows, NoItems, NoRows
  <2> QED BY <2>1, <2>3, <2>4 DEF Published
<1>3. CASE ~ \E n \in Ordinals : LoseChunk(n)
  <2>1. UNCHANGED <<chunk, clean>>
    BY <1>1, <1>3
       DEF Next, Session, StartCreate, CreateManifest, StartResume,
       ResumeManifest, SelectWork, Recording, WriteClean, WritePerturbed, EndOfWork,
       Flushing, PublishClean, CleanCounts, PublishData, PublishIndex, ItemCounts,
       Close, Rebuilding, StartRebuild, RebuildPart, RebuildParted, RebuildUnlink,
       RebuildUnlinked, RebuildManifest, Faults, Stop, Crash, FlushError,
       CloseFlushError, ManifestError, FailedWrite, Idle, vars, disk
  <2> QED BY <2>1
<1> QED BY <1>2, <1>3

\* Where the estimate found nothing pending in directories it listed while no
\* command was running, no run that follows publishes another fragment.
THEOREM EmptyEstimatesAreFinal == InspectSpec => EmptyEstimateIsFinal
<1>1. InvA /\ ReaderInv /\ [DumpStep \/ Reading \/ Rest]_allVars
      => [told = "estimated" /\ alone /\ ~RetryFailed /\ ~damaged'
            /\ pending.items = {} /\ pending.samples = {}
          => Published(chunk') \subseteq Published(chunk) /\ clean' = clean]_allVars
  <2> SUFFICES ASSUME InvA, ReaderInv, [DumpStep \/ Reading \/ Rest]_allVars,
                      told = "estimated", alone, ~RetryFailed, ~damaged',
                      pending.items = {}, pending.samples = {}
               PROVE  Published(chunk') \subseteq Published(chunk) /\ clean' = clean
    OBVIOUS
  <2>1. [Next]_vars /\ ~damaged
    BY DumpSteps, DamagedStep
  <2>2. ItemsSettled /\ SamplesSettled
    BY <2>1 DEF ReaderInv, Scripted, Settling
  <2> QED BY <2>1, <2>2, SettledPublishesNothing
<1> QED BY <1>1, ReaderInvariant, PTL DEF InspectSpec, EmptyEstimateIsFinal
=============================================================================
