----------------------------- MODULE MCPrepare -----------------------------
(* Small configurations for Prepare, each with its own hard case. *)
EXTENDS Prepare

Region(id, kind, params, ref, ref_hash) ==
    [region_id |-> id, kind |-> kind, params |-> params, ref |-> ref, ref_hash |-> ref_hash]
Grid(id, rows, cols) == Region(id, "grid", [rows |-> rows, cols |-> cols], None, None)
Part(id, part, scale) == Region(id, "skeleton_parts", [part |-> part, scale |-> scale], None, None)
File(id, ref, ref_hash) == Region(id, "explicit", <<>>, ref, ref_hash)
Perturb(op, value, invert, salts) ==
    [op |-> op, value |-> value, n_values |-> None, invert |-> invert, salts |-> salts]
Control(id, n) == [match_area_of |-> id, n_samples |-> n]

Config(listed, regions, perturbations, controls, stats, size, workers, fail_fast) ==
    [listed |-> listed, regions |-> regions, perturbations |-> perturbations,
     controls |-> controls, dataset_stats |-> stats, variants_per_chunk |-> size,
     num_workers |-> workers, fail_fast |-> fail_fast]

Fill == Perturb("constant_fill", 0, FALSE, <<0>>)
Outside == Perturb("constant_fill", 0, TRUE, <<0>>)
Fills(n) == [Fill EXCEPT !.n_values = n]
Blur(value) == Perturb("blur", value, FALSE, <<0>>)

\* samples 1 and 3 are images, 2 is a clip; 4 is tracked by nobody
MCFrames ==
    (1 :> [t |-> 1, h |-> 3, w |-> 5]) @@ (2 :> [t |-> 2, h |-> 3, w |-> 3])
    @@ (3 :> [t |-> 1, h |-> 1, w |-> 2]) @@ (4 :> [t |-> 1, h |-> 2, w |-> 2])
MCChannels == [s \in 1..3 |-> 3] @@ (4 :> 1)
MCLevels == (1 :> 30) @@ (2 :> 50) @@ (3 :> 7) @@ (4 :> 9)
MCBitmap ==
    ("cross" :> [shape |-> [h |-> 1, w |-> 2], pixels |-> {<<0, 0>>}])
    @@ ("dot" :> [shape |-> [h |-> 1, w |-> 2], pixels |-> {<<0, 1>>}])
    @@ ("big" :> [shape |-> [h |-> 3, w |-> 3], pixels |-> {<<0, 0>>, <<1, 0>>, <<1, 1>>}])
MCContents == DOMAIN MCBitmap \cup {Undecodable}
\* x, y in quarters of a pixel; a hand at the edge, lost in the second frame
MCTracks ==
    (<<2, "hand">> :> [frame_size |-> [h |-> 3, w |-> 3],
                       joints |-> <<{<<5, 5>>, <<9, 6>>}, {}>>])
    @@ (<<2, "head">> :> [frame_size |-> [h |-> 3, w |-> 3],
                          joints |-> <<{<<10, 1>>}, {<<13, 2>>, <<11, 9>>}>>])
    @@ (<<1, "hand">> :> [frame_size |-> [h |-> 5, w |-> 3], joints |-> <<{<<1, 1>>}>>])

MCPartsTracked == DOMAIN MCTracks

MCConfigs ==
    \* a grid that does not divide the frame, its complement, on two workers
    {Config(<<1>>, <<Grid("g", 2, 2)>>, <<Fill, Outside>>, <<>>, None, 3, n, FALSE) : n \in 0..2}
    \* more cells than rows, controls of them, two samples in the wrong order
    \cup {Config(<<3, 2>>, <<Grid("g", 2, 1)>>, <<Fill>>, <<Control("g", 1)>>, None, 2, 2, f) :
            f \in BOOLEAN}
    \* a file and its complement, and a second one that shares the cache
    \cup {Config(<<3>>, <<File("a", "f1", d), File("b", "f2", None)>>, <<Fill, Outside>>, <<>>,
                 None, 1, n, FALSE) : d \in {None, "dot"}, n \in {0, 2}}
    \cup {Config(<<2>>, <<File("a", "f1", None)>>, <<Fill>>, <<Control("a", 1)>>, None, 2, 1, FALSE)}
    \* tracked parts, as they are and larger, and a control that cannot be
    \cup {Config(s, <<Part("p", "hand", 3), Part("q", "head", 2)>>, <<Fill, Outside>>,
                 <<Control("p", 1)>>, None, 4, 1, f) :
            s \in {<<2>>, <<1, 2>>}, f \in BOOLEAN}
    \cup {Config(<<2, 1>>, <<Part("p", "hand", 1)>>, <<Fill>>, <<>>, None, 4, 1, FALSE)}
    \* the mean of whatever could be read, given or computed
    \cup {Config(<<1, 2>>, <<Grid("g", 1, 1)>>, <<Perturb("mean_fill", None, FALSE, <<0>>)>>, <<>>,
                 stats, 1, 1, FALSE) : stats \in {None, [mean |-> 40, n_values |-> 3]}}
    \* a level for each channel, or for those of another sample
    \cup {Config(<<3, 4>>, <<Grid("g", 1, 2)>>, <<Fill, Fills(3)>>, <<Control("g", 1)>>, None, 4, 1, FALSE),
          Config(<<3, 4>>, <<Grid("g", 1, 1)>>, <<Perturb("mean_fill", None, FALSE, <<0>>)>>, <<>>,
                 None, 1, 1, TRUE)}
    \* perturbations told apart by the last decimal, or not at all
    \cup {Config(<<3>>, <<Grid("g", 1, 2)>>, <<Blur(5), Blur(v)>>, <<>>, None, 3, 1, FALSE) :
            v \in {0, 5, 6, 15, 16}}
    \* twice the same salt, controls of nothing, the same sample twice
    \cup {Config(<<3>>, <<Grid("g", 1, 1)>>, <<Perturb("blur", 9, FALSE, <<1, 1>>)>>, <<>>, None, 1, 1, FALSE),
          Config(<<3>>, <<Grid("g", 1, 1)>>, <<Fill>>, <<Control("h", 1)>>, None, 1, 1, FALSE),
          Config(<<3, 3>>, <<Grid("g", 1, 1)>>, <<Fill>>, <<>>, None, 1, 1, FALSE),
          Config(<<>>, <<Grid("g", 1, 1)>>, <<Fill>>, <<>>, None, 1, 1, FALSE)}
    \* tiles of two by two, an edge column left over
    \cup {Config(<<1>>, <<Grid("g", 1, 1)>>, <<Perturb("patch_shuffle", size, FALSE, <<1, 2>>)>>,
                 <<Control("g", 1)>>, None, 2, 1, FALSE) : size \in {2, 9}}

-----------------------------------------------------------------------------
(* Adapters: every provider, sizes that leave a rest, layouts out of order.*)

Resizing(h, w) == [op |-> "resize", size |-> [h |-> h, w |-> w]]
Cropped(h, w) == [op |-> "crop", h |-> h, w |-> w]
Op(name) == [op |-> name]
Normal(n) == [op |-> "normalize", channels |-> n]
Ten(n) == [type |-> "TenCrop", n |-> n]
Sample(n) == [type |-> "SampleFrames", n |-> n]
Centered(n) == [type |-> "CenterCrop", n |-> n]
Scale2(w, h) == [type |-> "Resize", scale |-> [w |-> w, h |-> h]]
ShapeOf(format) == [type |-> "FormatShape", format |-> format]

Built(provider, weights, checkpoint, seed, declared, pipeline) ==
    [provider |-> provider, model_name |-> "m", model_id |-> None, weights |-> weights,
     checkpoint |-> checkpoint, weights_hash |-> None, seed |-> seed, declared |-> declared,
     pipeline |-> pipeline, resize |-> 3, crop |-> 2, segments |-> 2, classes |-> 2,
     shift_div |-> 2, max_batch_size |-> None,
     mode |-> CASE provider = "timm" -> "model_default" [] provider = "torchvision_tsm" -> "mmaction2_val"
                [] OTHER -> "preset"]
Saved(name, hashed, loaded, key) ==
    [name |-> name, hashed |-> hashed, loaded |-> loaded, key |-> key,
     holds |-> {"model", "ema"}, complete |-> TRUE, strict |-> TRUE]
FileOf(content) == Saved("f", content, content, "model")

ToChannels == <<Op("channels_first"), Op("squeeze_time")>>
Declared ==
    {<<Resizing(2, 5)>> \o ToChannels, <<Cropped(4, 3), Resizing(3, 2), Normal(3)>> \o ToChannels,
     <<Edge(2), Normal(1)>> \o ToChannels, <<Op("squeeze_time"), Op("channels_first")>>,
     <<Op("channels_first"), Cropped(1, 1)>>, <<Op("to_float")>>, <<>>, <<Cropped(0, 1)>>}
Pipes ==
    {<<Sample(1), Scale2(-1, 3), Centered(2), ShapeOf("NCHW")>>, <<Ten(2), ShapeOf("NCHW")>>,
     <<Sample(2), ShapeOf("NTCHW")>>, <<ShapeOf("NCHW"), Scale2(2, 2)>>, <<Scale2(-1, -1)>>,
     <<ShapeOf("NTCHW"), Scale2(2, -1)>>, <<Sample(2), Centered(5), ShapeOf("NTCHW")>>}

MCAdapterFrames ==
    {[t |-> 1, h |-> 3, w |-> 5, c |-> 3], [t |-> 1, h |-> 1, w |-> 4, c |-> 3],
     [t |-> 2, h |-> 5, w |-> 4, c |-> 3], [t |-> 3, h |-> 2, w |-> 2, c |-> 1]}
MCAdapterConfigs ==
    {Built("torchvision", None, None, 0, d, None) : d \in Declared}
    \cup {Built(kind, None, None, 0, None, steps) :
             kind \in {"torchvision", "torchvision_video"}, steps \in Pipes}
    \cup {Built(kind, None, FileOf(x), 0, None, None) : kind \in Providers, x \in {"x", "y"}}
    \cup {Built(kind, w, None, seed, None, None) :
             kind \in Providers, w \in {None, "best", "DEFAULT", "pretrained"}, seed \in 0..1}
    \cup {[Built(kind, None, FileOf("x"), 0, None, None) EXCEPT !.model_id = "mine", !.weights_hash = h,
                !.checkpoint = IF h = None THEN @ ELSE None, !.segments = n,
                !.mode = IF kind = "timm" THEN "squash" ELSE "crop_free"] :
             kind \in {"timm", "torchvision_tsm"}, h \in {None, "x"}, n \in {2, 3}}
    \cup {[Built("torchvision_tsm", None, None, 0, None, None) EXCEPT !.segments = n, !.shift_div = d] :
             n \in {2, 3}, d \in {0, 2, 3}}
    \cup {[Built("timm", None, None, 0, None, None) EXCEPT !.checkpoint = c, !.seed = seed] :
             seed \in 0..1,
             c \in {Saved("f", "x", "y", "model"), Saved("f", "x", "x", "ema"), Saved("g", "x", "x", "model"),
                    Saved("f", "x", "x", "other"), [FileOf("z") EXCEPT !.complete = FALSE],
                    [FileOf("z") EXCEPT !.complete = FALSE, !.strict = FALSE]}}
    \cup {[Built("timm", "pretrained", FileOf("x"), 0, None, None) EXCEPT !.resize = r, !.crop = 4] : r \in {2, 5}}
    \cup {[Built(kind, None, None, 0, None, None) EXCEPT !.resize = r, !.crop = k] :
             kind \in Providers, r \in {2, 4}, k \in {1, 2, 3}}

-----------------------------------------------------------------------------
(* Sources: every provider, rows that cannot be used, splits and classes.*)

Listed(id, path, label) == [id |-> id, path |-> path, label |-> label]
Line(path, label) == [path |-> path, label |-> label]
Clip(id, start, label, split) ==
    [youtube_id |-> id, start |-> start, end |-> 9, label |-> label, split |-> split]
Section(kind, at, rows) ==
    [kind |-> kind, at |-> at, rows |-> rows, root |-> "r", num_frames |-> 2,
     sampling |-> "uniform", split |-> None, classes |-> None, has_columns |-> TRUE]
MCSourceConfigs ==
    {Section("image_manifest", at, rows) :
        at \in {"m", "n"}, rows \in {<<Listed(1, "a", None), Listed(2, "a", 0)>>, <<>>,
                                     <<Listed(1, "a", 0), Listed(1, "b", 0)>>}}
    \cup {[Section("video_manifest", "m", <<Listed(1, "a", 0)>>) EXCEPT !.num_frames = n, !.sampling = s] :
             n \in 1..3, s \in Samplings}
    \cup {[Section("imagenet", "m", rows) EXCEPT !.root = r] :
             r \in {"r", "s"},
             rows \in {<<Line("a", 0), Line(None, None), Line("b", 1)>>, <<Line("a", 0), Line("a", 1)>>,
                       <<Line("a", None)>>, <<Line("a", -1)>>, <<Line(None, None)>>}}
    \cup {[Section("kinetics400", "m", <<Clip("u", 1, 3, "val"), Clip("u", 2, 5, "train"),
                                         Clip("v", 1, 4, "train"), Clip("w", s, 5, "val")>>)
             EXCEPT !.split = split, !.classes = classes, !.has_columns = split # "test" \/ s = 0] :
             s \in {0, None}, split \in {None, "train", "val", "test"},
             classes \in {None, <<5, 3, 4>>, <<4, 5>>}}
Provider(name, has_kind, allowed, default) ==
    [name |-> name, has_kind |-> has_kind, allowed |-> allowed, default |-> default]
MCRegistrations ==
    <<Provider("image_manifest", TRUE, {"image_manifest"}, "image_manifest"),
      Provider("imagenet", TRUE, {"imagenet"}, "imagenet"),
      Provider("image_manifest", TRUE, {}, None), Provider("mine", TRUE, {}, None),
      Provider("other", TRUE, {"mine"}, "mine"), Provider("nameless", FALSE, {}, None),
      Provider("both", TRUE, {"both", "mine"}, None)>>

-----------------------------------------------------------------------------
(* Strategies: parameters of every kind and range, reserved kinds.       *)

Integral(n) == [type |-> "int", items |-> <<n>>]
Float(n) == [type |-> "float", items |-> <<n>>]
Text(n) == [type |-> "text", items |-> <<n>>]
List(values) == [type |-> "list", items |-> values]
Values ==
    {Integral(0), Integral(10), Integral(2550), Integral(2560), Integral(-10), Integral(NotANumber), Float(5), Float(15), Float(1),
     Float(NotANumber), Text(0), Text(1), List(<<>>), List(<<0, 25, 2550>>), List(<<7>>),
     List(<<2551, 0>>), List(<<NotANumber>>)}
FewValues ==
    {Integral(0), Integral(20), Integral(-10), Integral(NotANumber), Float(15), Text(0), Text(1), List(<<7>>)}
Named(names, values) == UNION {[known -> values] : known \in names}
MCRawPerturbations ==
    {[op |-> op, params |-> params] :
        op \in {"constant_fill", "mean_fill", "blur", "gaussian_noise", "patch_shuffle"},
        params \in Named({{}, {"value"}, {"sigma"}, {"patch_size"}}, Values)}
    \cup {[op |-> op, params |-> [name \in {"sigma", "value"} |-> Integral(10)]] :
             op \in {"blur", "constant_fill"}}
MCRawRegions ==
    {[kind |-> kind, params |-> params, ref |-> ref, ref_hash |-> None] :
        kind \in RegionKinds, ref \in {None, "f"},
        params \in Named({{}, {"rows", "cols"}, {"body_part"}, {"body_part", "bbox_scale"},
                          {"bbox_scale"}}, FewValues)}
MCStrategyTypes ==
    {[proper |-> TRUE, serves |-> serves, support |-> support, runs |-> runs] :
        serves \in {{"grid"}, {"explicit", "grid"}},
        support \in {"bool", "exception", "not_bool"}, runs \in {"value", "exception"}}
    \cup {[proper |-> FALSE, serves |-> {"grid"}, support |-> "bool", runs |-> "value"]}
=============================================================================
