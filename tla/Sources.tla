------------------------------ MODULE Sources -------------------------------
(***************************************************************************)
(* Sample sources (ssat/core/source): how a provider turns an index file   *)
(* into a catalog, what it says of its identity, and which frames of a     *)
(* clip a load takes.                                                      *)
(*                                                                         *)
(* A row that cannot be parsed has None where the code would raise; labels *)
(* in a CSV are numbers, in their alphabetical order.  A file is the       *)
(* number of frames it decodes to, zero when it does not.                  *)
(***************************************************************************)
EXTENDS Plan

CONSTANTS
    SourceConfigs,   \* source sections of a configuration, with the index file they name
    Registrations,   \* provider classes, in the order somebody registers them
    MaxClip          \* bound: frames in a clip, and frames taken from it

-----------------------------------------------------------------------------
(* Catalogs.                                                               *)

Meta(id, path, label) == [id |-> id, path |-> path, label |-> label]

ManifestCatalog(c) ==
    IF c.rows = <<>> \/ ~Distinct([i \in DOMAIN c.rows |-> c.rows[i].id]) THEN None
    ELSE [i \in DOMAIN c.rows |-> Meta(c.rows[i].id, <<c.at, c.rows[i].path>>, c.rows[i].label)]

\* a path and a label a line, blank lines apart; the path is the identity
ImagenetCatalog(c) ==
    LET lines == SelectSeq(c.rows, LAMBDA row : row.path # None) IN
    IF \/ lines = <<>> \/ ~Distinct([i \in DOMAIN lines |-> lines[i].path])
       \/ \E line \in Range(lines) : line.label = None \/ line.label < 0
    THEN None
    ELSE [i \in DOMAIN lines |-> Meta(lines[i].path, <<c.root, lines[i].path>>, lines[i].label)]

\* the rows of the split, or all
Annotations(c) == SelectSeq(c.rows, LAMBDA row : c.split \in {None, row.split})
\* the labels of those rows, unless the configuration pins an order
Classes(c) ==
    IF c.classes \notin {None, <<>>} THEN c.classes
    ELSE SetToSortSeq({row.label : row \in Range(Annotations(c))}, <)
\* the last of two equal names counts
ClassIndex(c, label) == Max({i \in DOMAIN Classes(c) : Classes(c)[i] = label}) - 1

ClipId(row) == <<row.youtube_id, row.start, row.end>>
KineticsCatalog(c) ==
    LET rows == Annotations(c) IN
    IF \/ ~c.has_columns \/ rows = <<>>
       \/ ~Distinct([i \in DOMAIN rows |-> ClipId(rows[i])])
       \/ \E row \in Range(rows) :
             None \in {row.start, row.end} \/ row.label \notin Range(Classes(c))
    THEN None
    ELSE [i \in DOMAIN rows |->
             Meta(ClipId(rows[i]), <<c.root, ClipId(rows[i])>>, ClassIndex(c, rows[i].label))]

Catalog(c) ==
    CASE c.kind \in {"image_manifest", "video_manifest"} -> ManifestCatalog(c)
      [] c.kind = "imagenet" -> ImagenetCatalog(c)
      [] c.kind = "kinetics400" -> KineticsCatalog(c)
SourceBuilds(c) == Catalog(c) # None

\* what a dump compares when it is resumed
LoaderParameters(c) ==
    CASE c.kind = "video_manifest" -> [num_frames |-> c.num_frames, sampling |-> c.sampling]
      [] c.kind = "imagenet" -> [root |-> c.root]
      [] OTHER -> <<>>
Provenance(c) ==
    [kind |-> c.kind, manifest |-> c.at, manifest_hash |-> c.rows,
     loader_parameters |-> LoaderParameters(c)]

-----------------------------------------------------------------------------
(* Loads.  A position that is a tie in exact arithmetic may be rounded     *)
(* either way: it is computed in floating point.                           *)

\* frame i of k, spread from the first to the last of n
UniformFrames(n, k, i) ==
    LET steps == Max({1, k - 1}) IN
    {q \in 0..(n - 1) : -steps <= 2 * (i * (n - 1) - q * steps)
                        /\ 2 * (i * (n - 1) - q * steps) <= steps}
\* the frame at the centre of segment i of k
CenterFrames(n, k, i) ==
    {q \in 0..(n - 1) : q * 2 * k <= (2 * i + 1) * n /\ (2 * i + 1) * n <= (q + 1) * 2 * k}

Samplings == {"uniform", "segment_center"}
FramesAt(sampling, n, k, i) ==
    IF sampling = "uniform" THEN UniformFrames(n, k, i) ELSE CenterFrames(n, k, i)

IsVideo(c) == c.kind \in {"video_manifest", "kinetics400"}
SamplingOf(c) == IF c.kind = "kinetics400" THEN "uniform" ELSE c.sampling

\* disk: path -> frames, for the files that are there
Load(c, disk, id) ==
    IF \A m \in Range(Catalog(c)) : m.id # id THEN [status |-> "sample_not_found"]
    ELSE LET s == CHOOSE m \in Range(Catalog(c)) : m.id = id IN
         IF s.path \notin DOMAIN disk THEN [status |-> "file_not_found"]
         ELSE IF disk[s.path] = 0 THEN [status |-> "decode_error"]
         ELSE [status |-> "loaded", label |-> s.label,
               frames |-> IF IsVideo(c)
                          THEN [i \in 0..(c.num_frames - 1) |->
                                  FramesAt(SamplingOf(c), disk[s.path], c.num_frames, i)]
                          ELSE [i \in {0} |-> {0}]]

-----------------------------------------------------------------------------
(* The registry of providers.                                              *)

\* A provider class: its name, the values its config model allows for kind
\* (any, when the field is a plain string) and the default of that field.
Registers(registered, p) ==
    /\ \A q \in Range(registered) : q.name # p.name
    /\ p.has_kind
    /\ p.allowed = {} \/ p.name \in p.allowed
    /\ p.default \in {None, p.name}
Registered == FoldLeft(LAMBDA done, p : IF Registers(done, p) THEN Append(done, p) ELSE done,
                       <<>>, Registrations)

ProviderOf(kind) ==
    IF \E p \in Range(Registered) : p.name = kind
    THEN CHOOSE p \in Range(Registered) : p.name = kind ELSE None
\* the kind of the parsed section, None when it is refused; given may be absent
Parsed(given) ==
    LET p == ProviderOf(IF given = None THEN "image_manifest" ELSE given)
        kind == IF p = None \/ given # None THEN given ELSE p.default IN
    IF p = None \/ kind = None THEN None
    ELSE IF p.allowed # {} /\ kind \notin p.allowed THEN None ELSE kind

-----------------------------------------------------------------------------
(* Properties.                                                             *)

\* However the ties fall, the frames of a clip come in order, none twice
\* while the clip has enough of them, and all of them when it has not
\* (source/video_folder.py:25-28, 42-60).
FramesAreSpread ==
    \A n, k \in 1..MaxClip, sampling \in Samplings :
        LET at(i) == FramesAt(sampling, n, k, i) IN
        /\ \A i \in 0..(k - 1) : at(i) # {}
        /\ \A i \in 0..(k - 2) : \A a \in at(i), b \in at(i + 1) :
              /\ a <= b /\ (k <= n => a < b) /\ (n <= k => b <= a + 1)
        /\ n <= k => at(0) = {0} /\ at(k - 1) = {n - 1}

\* Sources with the same provenance list the same samples under the same
\* labels and load the same frames: a dump may be resumed with either.  A
\* Kinetics source does not record what else it depends on
\* (config/schema.py:178-184, source/kinetics.py:113-118).
ProvenanceIdentifies ==
    \A c, d \in SourceConfigs :
        (/\ c.kind = d.kind /\ c.kind # "kinetics400" /\ SourceBuilds(c) /\ SourceBuilds(d)
         /\ Provenance(c) = Provenance(d)) =>
            /\ Catalog(c) = Catalog(d)
            /\ IsVideo(c) => c.num_frames = d.num_frames /\ SamplingOf(c) = SamplingOf(d)

\* The label of a clip depends on the split that was asked for only when no
\* classes are pinned and the split lacks a class that comes before it
\* (source/kinetics.py:82-84).
LabelsOutliveTheSplit ==
    \A c, d \in {e \in SourceConfigs : e.kind = "kinetics400" /\ SourceBuilds(e)} :
        (c.rows = d.rows /\ c.classes = d.classes) =>
            \A s \in Range(Catalog(c)), t \in Range(Catalog(d)) :
                (s.id = t.id /\ s.label < t.label) =>
                    /\ c.classes \in {None, <<>>}
                    /\ \E i \in 1..t.label : Classes(d)[i] \notin Range(Classes(c))

\* Every listed sample can be asked for, by an identity of its own, and comes
\* with the configured number of frames, or with an error (source/base.py,
\* video_folder.py:123-163, image_folder.py:46-84).
ListedSamplesLoad ==
    \A c \in {d \in SourceConfigs : SourceBuilds(d)} :
        LET catalog == Catalog(c)
            paths == {s.path : s \in Range(catalog)} IN
        /\ Distinct([i \in DOMAIN catalog |-> catalog[i].id])
        /\ \A there \in SUBSET paths, s \in Range(catalog), n \in 0..2 :
              LET answer == Load(c, [path \in there |-> n], s.id) IN
              /\ answer.status # "sample_not_found"
              /\ answer.status = "loaded" <=> s.path \in there /\ n > 0
              /\ answer.status = "loaded" =>
                    /\ answer.label = s.label
                    /\ Cardinality(DOMAIN answer.frames) = IF IsVideo(c) THEN c.num_frames ELSE 1

\* A provider that was registered is reached by its name, and by no name but
\* its own (_provider_registry_support.py:18-29).
ProvidersAreReachable ==
    /\ \A p \in Range(Registered) : Parsed(p.name) = p.name /\ ProviderOf(p.name) = p
    /\ Parsed(None) \in {None, "image_manifest"}

SourcesAreSound ==
    /\ FramesAreSpread /\ ProvenanceIdentifies /\ LabelsOutliveTheSplit
    /\ ListedSamplesLoad /\ ProvidersAreReachable
=============================================================================
