------------------------------- MODULE Adapter ------------------------------
(***************************************************************************)
(* Model adapters (ssat/core/adapter): what a configuration is built into, *)
(* how an adapter answers a batch or reports why it cannot, and what it    *)
(* says of its own identity.                                               *)
(***************************************************************************)
EXTENDS Transforms

CONSTANTS
    AdapterConfigs,  \* the adapter section of a configuration
    AdapterFrames    \* shapes [t, h, w, c] of the samples of a batch

Providers == {"torchvision", "torchvision_video", "timm", "torchvision_tsm"}

\* Configurations, by provider.  The weights are named, or "pretrained" (timm).
OneSource(c) ==
    /\ c.weights = None \/ c.checkpoint = None
    /\ c.checkpoint = None \/ c.weights_hash = None
TorchvisionConfig(c) ==
    /\ OneSource(c) /\ c.mode = "preset"
    /\ c.declared # None => c.declared # <<>> /\ Declarable(c.declared)
    /\ c.pipeline # None => c.declared = None /\ PipelineOK(c.pipeline)
VideoConfig(c) ==
    /\ OneSource(c) /\ c.mode = "preset" /\ c.declared = None
    /\ c.resize > 0 /\ c.crop > 0
    /\ c.pipeline # None => PipelineOK(c.pipeline)
TimmConfig(c) ==
    /\ OneSource(c) /\ c.weights \in {None, "pretrained"} /\ c.mode \in {"model_default", "squash"}
    /\ c.declared = None /\ c.pipeline = None
TSMConfig(c) ==
    /\ c.checkpoint = None \/ c.weights_hash = None
    /\ c.weights = None /\ c.mode \in {"mmaction2_val", "crop_free"}
    /\ c.declared = None /\ c.pipeline = None
    /\ c.segments > 0 /\ c.classes > 0 /\ c.shift_div > 0
ConfigAccepted(c) ==
    /\ c.max_batch_size = None \/ c.max_batch_size > 0
    /\ CASE c.provider = "torchvision" -> TorchvisionConfig(c)
         [] c.provider = "torchvision_video" -> VideoConfig(c)
         [] c.provider = "timm" -> TimmConfig(c)
         [] c.provider = "torchvision_tsm" -> TSMConfig(c)
         [] OTHER -> FALSE

\* The presets of the libraries (external: resize and crop are theirs) leave
\* the layout they need; video and TSM declare their steps.
Photometric == <<[op |-> "to_float"], [op |-> "normalize", channels |-> 3], [op |-> "channels_first"]>>
ImageLayout == Append(Photometric, [op |-> "squeeze_time"])
Crop(op, n) == [op |-> op, h |-> n, w |-> n]
Edge(n) == [op |-> "resize", size |-> [edge |-> n]]
Exactly(n) == [op |-> "resize", size |-> [h |-> n, w |-> n]]

TorchvisionPreprocessor(c) ==
    Preprocessor("torchvision", <<Edge(c.resize), Crop("torch_crop", c.crop)>> \o ImageLayout,
                 "antialias", <<"preset", c.resize, c.crop>>, TRUE)
TimmPreprocessor(c) ==
    Preprocessor("timm", <<Edge(c.resize), Crop("torch_crop", c.crop)>> \o ImageLayout,
                 "antialias", <<"data_config", c.resize, c.crop>>, TRUE)
TimmSquashPreprocessor(c) ==
    Preprocessor("timm_squash", <<Exactly(c.crop)>> \o ImageLayout, "antialias",
                 <<"squash", c.crop>>, TRUE)
TSMPreprocessor(c) ==
    DeclarativePreprocessor((IF c.mode = "crop_free" THEN <<Exactly(c.crop)>>
                             ELSE <<Edge(c.resize), Crop("crop", c.crop)>>) \o Photometric)
PreprocessorOf(c) ==
    CASE c.pipeline # None -> PipelinePreprocessor(c.pipeline)
      [] c.declared # None -> DeclarativePreprocessor(c.declared)
      [] c.pipeline = None /\ c.declared = None /\ c.provider = "torchvision" -> TorchvisionPreprocessor(c)
      [] c.pipeline = None /\ c.provider = "torchvision_video" ->
            DeclarativePreprocessor(<<Edge(c.resize), Crop("crop", c.crop)>> \o Photometric)
      [] c.provider = "timm" ->
            IF c.mode = "squash" THEN TimmSquashPreprocessor(c) ELSE TimmPreprocessor(c)
      [] c.provider = "torchvision_tsm" -> TSMPreprocessor(c)
StepsOf(c) == PreprocessorOf(c).steps

\* What the parameters of the model are: from the file, the library or a
\* seed.  A file that does not name every parameter leaves those of the seed.
LibraryWeights == {"best", "latest"}
ResolvedWeights(c) == IF c.weights = "DEFAULT" THEN "latest" ELSE c.weights
Pretrained(c) == c.weights # None
CheckpointLoads(file) ==
    file.key \in {None} \cup file.holds /\ (file.strict => file.complete)
Initialised(c) ==
    /\ c.provider \in {"torchvision", "torchvision_video"} => ResolvedWeights(c) \in {None} \cup LibraryWeights
    /\ c.checkpoint # None => CheckpointLoads(c.checkpoint)
LoadedWeights(c) ==
    [model |-> IF c.provider = "torchvision_tsm" THEN <<c.segments, c.classes, c.shift_div>>
               ELSE <<c.model_name>>,
     from |-> IF c.checkpoint # None THEN <<c.checkpoint.loaded, c.checkpoint.key>>
              ELSE IF Pretrained(c) THEN <<ResolvedWeights(c)>> ELSE <<"seed">>,
     seed |-> IF Pretrained(c) \/ (c.checkpoint # None /\ c.checkpoint.complete)
              THEN None ELSE c.seed]

\* The checkpoint is hashed first and read later.
WeightsHash(c) == IF c.checkpoint # None THEN c.checkpoint.hashed ELSE c.weights_hash
NotLoaded(c) == <<"none", c.seed>>
CheckpointId(c) == <<"checkpoint", c.checkpoint.name>>
WeightsId(c) ==
    IF c.checkpoint # None THEN CheckpointId(c)
    ELSE IF Pretrained(c) THEN <<"weights", ResolvedWeights(c)>> ELSE NotLoaded(c)
TimmWeightsId(c) ==
    IF c.checkpoint # None THEN CheckpointId(c)
    ELSE IF Pretrained(c) THEN <<"pretrained", c.model_name>> ELSE NotLoaded(c)
DefaultId(c) == <<c.provider, c.model_name>> \o WeightsId(c)
TimmDefaultId(c) ==
    <<"timm", c.model_name>>
      \o (IF c.checkpoint # None THEN CheckpointId(c) ELSE <<"pretrained", Pretrained(c)>>)
      \o (IF c.checkpoint = None /\ ~Pretrained(c) THEN NotLoaded(c) ELSE <<>>)
TSMDefaultId(c) == <<"torchvision_tsm", c.segments, c.classes>> \o WeightsId(c)

Described(c, default_id, weights_id, pre) ==
    [model_id |-> IF c.model_id # None THEN <<c.model_id>> ELSE default_id,
     adapter_kind |-> c.provider, model_name |-> c.model_name,
     max_batch_size |-> c.max_batch_size, weights_id |-> weights_id,
     weights_hash |-> WeightsHash(c), preprocessing_fingerprint |-> pre.fingerprint,
     mask_transform_available |-> pre.mask]
TorchvisionAdapter(c) == Described(c, DefaultId(c), WeightsId(c), PreprocessorOf(c))
VideoAdapter(c) == Described(c, DefaultId(c), WeightsId(c), PreprocessorOf(c))
TimmAdapter(c) == Described(c, TimmDefaultId(c), TimmWeightsId(c), PreprocessorOf(c))
TSMAdapter(c) ==
    [Described(c, TSMDefaultId(c), WeightsId(c), TSMPreprocessor(c))
        EXCEPT !.mask_transform_available = TRUE]
AdapterSpec(c) ==
    CASE c.provider = "torchvision" -> TorchvisionAdapter(c)
      [] c.provider = "torchvision_video" -> VideoAdapter(c)
      [] c.provider = "timm" -> TimmAdapter(c)
      [] c.provider = "torchvision_tsm" -> TSMAdapter(c)

-----------------------------------------------------------------------------
(* Predictions.                                                            *)

Errors == {"cuda_oom", "adapter_oom", "adapter", "other"}
\* What the caller sees of an exception of a stage: a stage passes on the
\* errors of the adapter, and inference those of a device out of memory.
Wrapped(error) == IF error = "adapter_oom" THEN error ELSE "adapter"
Inferred(error, passthrough) ==
    IF error = "cuda_oom" \/ (passthrough /\ error = "adapter_oom") THEN "adapter_oom" ELSE "adapter"
\* TSM preprocesses where it infers, and passes on what its decoder raises
Surface(kind, stage, error) ==
    IF kind = "torchvision_tsm"
    THEN IF stage = "decode" THEN error ELSE Inferred(error, TRUE)
    ELSE IF kind \in Providers /\ stage = "infer" THEN Inferred(error, FALSE)
    ELSE Wrapped(error)

\* one result per input, of the same classes
DecodesTo(widths, n, classes) ==
    /\ Len(widths) = n
    /\ \A i, j \in 1..n : widths[i] = widths[j] /\ widths[i] > 0
    /\ classes = None \/ \A i \in 1..n : widths[i] = classes

BatchOK(c, n) == c.max_batch_size = None \/ n <= c.max_batch_size
ImageBatchOK(shape) == shape.t = 1 /\ shape.c = 3
ClipBatchOK(c, shape) == shape.t = c.segments /\ shape.c = 3

Answers == Errors \cup {"ok", "any"}
\* the stages after the batch was accepted; a model that finds another axis
\* of the size of the one it expects says something, of nothing
Staged(c, image, n, layout, misread) ==
    CASE image.error -> Surface(c.provider, "preprocess", "other")
      [] ~image.error /\ (image.mangled \/ (image.layout = misread /\ image.views[1].shape.h = 3)) -> "any"
      [] OTHER ->
            IF image.layout # layout \/ image.channels # 3 THEN Surface(c.provider, "infer", "other")
            ELSE IF DecodesTo([i \in 1..(n * Len(image.views)) |-> c.classes], n, None) THEN "ok"
            ELSE Surface(c.provider, "decode", "adapter")
Prepared(c, shape) == Preprocess(shape, StepsOf(c), PreprocessorOf(c).interpolation)
TorchvisionPredict(c, shape, n) ==
    IF ~BatchOK(c, n) \/ ~ImageBatchOK(shape) THEN "adapter"
    ELSE IF n = 0 THEN "ok" ELSE Staged(c, Prepared(c, shape), n, "CHW", "HWC")
TimmPredict(c, shape, n) ==
    IF ~BatchOK(c, n) \/ ~ImageBatchOK(shape) THEN "adapter"
    ELSE IF n = 0 THEN "ok" ELSE Staged(c, Prepared(c, shape), n, "CHW", "HWC")
VideoPredict(c, shape, n) ==
    IF ~BatchOK(c, n) THEN "adapter"
    ELSE IF n = 0 THEN "ok" ELSE Staged(c, Prepared(c, shape), n, "TCHW", "THWC")
TSMPredict(c, shape, n) ==
    IF ~BatchOK(c, n) \/ ~ClipBatchOK(c, shape) THEN "adapter"
    ELSE IF n = 0 THEN "ok" ELSE Staged(c, Prepared(c, shape), n, "TCHW", "none")
Predict(c, shape, n) ==
    CASE c.provider = "torchvision" -> TorchvisionPredict(c, shape, n)
      [] c.provider = "timm" -> TimmPredict(c, shape, n)
      [] c.provider = "torchvision_video" -> VideoPredict(c, shape, n)
      [] c.provider = "torchvision_tsm" -> TSMPredict(c, shape, n)

\* A preprocessor that does not transform masks returns none.  An adapter of
\* torch or torchvision raises then, a callable one passes that on.
Masked(pre, mask, shape) == IF pre.mask THEN TransformMask(mask, shape, pre.steps) ELSE None
AdapterMask(c, mask, shape) ==
    LET to == Masked(PreprocessorOf(c), mask, shape) IN IF to = None THEN Failed ELSE to
CallableMask(pre, mask, shape) == Masked(pre, mask, shape)

-----------------------------------------------------------------------------
(* The temporal shift of TSM, on the frames of all clips in one line, and  *)
(* the names its parameters have in a checkpoint of MMAction.              *)

\* faulty: the frames of all clips of a batch are shifted as one
ShiftedFromBatch(k, ch, segments, channels, div) ==
    LET fold == channels \div div IN
    IF fold = 0 \/ ch >= 2 * fold THEN {k}
    ELSE IF ch < fold THEN {k + 1}
    ELSE IF k > 0 THEN {k - 1} ELSE {}

\* the frame that channel ch of frame k is taken from, or none
ShiftedFrom(k, ch, segments, channels, div) ==
    LET fold == channels \div div
        seg == k % segments IN
    IF fold = 0 \/ ch >= 2 * fold THEN {k}
    ELSE IF ch < fold THEN IF seg < segments - 1 THEN {k + 1} ELSE {}
    ELSE IF seg > 0 THEN {k - 1} ELSE {}

BlockNames == {"conv1", "conv2", "conv3"}
BatchNorm(conv) == CASE conv = "conv1" -> "bn1" [] conv = "conv2" -> "bn2" [] conv = "conv3" -> "bn3"
\* keys are sequences of names; the first convolution of the network has no block
NativeKey(key) ==
    LET k == CHOOSE i \in DOMAIN key : key[i] \in BlockNames \cup {"downsample", "fc_cls"}
        front == SubSeq(key, 1, k - 1)
        rest == SubSeq(key, k + 2, Len(key)) IN
    IF key[k] = "fc_cls" THEN <<"backbone", "fc">> \o Tail(SubSeq(key, k, Len(key)))
    ELSE IF key[k] = "downsample"
    THEN front \o <<"downsample", IF key[k + 1] = "conv" THEN "0" ELSE "1">> \o rest
    ELSE front \o <<IF key[k + 1] = "conv" THEN key[k] ELSE BatchNorm(key[k])>> \o rest
MMActionKeys ==
    {<<"cls_head", "fc_cls", name>> : name \in {"weight", "bias"}}
    \cup {<<"backbone", "conv1", "conv", "weight">>, <<"backbone", "conv1", "bn", "weight">>}
    \cup {<<"backbone", layer, conv, part, "weight">> :
             layer \in {"layer1", "layer2"}, conv \in BlockNames \cup {"downsample"},
             part \in {"conv", "bn"}}
ConvertedKeys == {NativeKey(key) : key \in MMActionKeys}

-----------------------------------------------------------------------------
(* Properties.                                                             *)

Accepted == {c \in AdapterConfigs : ConfigAccepted(c) /\ Initialised(c)}

\* The mask a region is measured by goes where the image goes: it has the
\* size and the frames of the image the model sees, each of its pixels comes
\* from the cell of the frame that the same pixel of the image covers, and a
\* pixel of the image is made of that cell too, whatever the sizes, the
\* padding and the rounding (adapter/preprocessing.py:245-349).
MasksFollowTheImage ==
    \A c \in Accepted : MaskSupported(StepsOf(c)) => \A shape \in AdapterFrames :
        LET image == Prepared(c, shape)
            cells == Preprocess(shape, StepsOf(c), "cell").views[1].at
            at == image.views[1].at
            moving == [per_frame |-> TRUE, at |-> [i \in 1..shape.t |-> {<<0, 0>>}]]
            mask == TransformMask(moving, shape, StepsOf(c)) IN
        (~image.error /\ ~image.mangled) =>
            /\ mask.shape = image.views[1].shape /\ Len(mask.at) = Len(image.frames)
            /\ \A p \in DOMAIN at :
                  /\ Preprocess(shape, StepsOf(c), "nearest").views[1].at[p] \subseteq cells[p]
                  /\ (cells[p] = {}) => (p \notin UNION Range(mask.at))
                  /\ (at[p] # {} /\ cells[p] # {}) => at[p] \cap cells[p] # {}

\* What was declared, and so checked for its order, never mangles an image;
\* an adapter that says masks can be transformed transforms every mask of a
\* sample it can answer (adapter/preprocessing.py:201-216, types.py:60).
DeclaredMasksWork ==
    /\ \A c \in Accepted, shape \in AdapterFrames :
          LET image == Preprocess(shape, StepsOf(c), "cell") IN
          /\ c.pipeline = None => ~image.mangled
          /\ (AdapterSpec(c).mask_transform_available /\ ~image.error) =>
                \A per_frame \in BOOLEAN :
                    AdapterMask(c, [per_frame |-> per_frame,
                                    at |-> [i \in 1..(IF per_frame THEN shape.t ELSE 1) |-> {}]],
                                shape) # Failed
          /\ Predict(c, shape, 2) = "ok" => AdapterSpec(c).mask_transform_available
    /\ \A pre \in {IdentityPreprocessor, CallablePreprocessor(<<>>, FALSE, None),
                    CallablePreprocessor(<<Exactly(2)>>, TRUE, "f")}, shape \in AdapterFrames :
          LET mask == CallableMask(pre, [per_frame |-> FALSE, at |-> <<{}>>], shape) IN
          pre.mask <=> mask # None

\* A resize to the short edge and a crop no larger keep the middle of the
\* frame: no padding, and as much is lost at one side as at the other, to
\* within the cells of a pixel (adapter/preprocessing.py:298-305, 329-349).
CropsKeepTheMiddle ==
    \A c \in Accepted : \A shape \in AdapterFrames :
        LET steps == StepsOf(c)
            cells == Preprocess(shape, steps, "cell").views[1].at
            kept(axis) == {q[axis] : q \in UNION Range(cells)}
            scale(n) == Ceiling(n, c.resize) IN
        (c.pipeline = None /\ c.declared = None /\ c.mode \notin {"squash", "crop_free"} /\ c.crop <= c.resize) =>
            /\ \A p \in DOMAIN cells : cells[p] # {}
            /\ \A axis \in 1..2 :
                  LET n == IF axis = 1 THEN shape.h ELSE shape.w
                      first == Min(kept(axis))
                      last == n - 1 - Max(kept(axis))
                      step == scale(Min({shape.h, shape.w})) IN
                  Max({first - last, last - first}) <= step + 1

\* A device that runs out of memory while a model runs is reported as that by
\* every torch adapter, so that the batch is split and asked again; nothing
\* else is taken for it, and but for the decoder of TSM every error is one of
\* the adapter (adapter/_torch_adapter_mixin.py:121-152).
OutOfMemoryIsToldApart ==
    \A kind \in Providers \cup {"callable"}, stage \in {"preprocess", "infer", "decode"}, e \in Errors :
        LET seen == Surface(kind, stage, e) IN
        /\ (kind \in Providers /\ stage = "infer" /\ e = "cuda_oom") => seen = "adapter_oom"
        /\ seen = "adapter_oom" => e \in {"cuda_oom", "adapter_oom"}
        /\ seen \in {"other", "cuda_oom"} => kind = "torchvision_tsm" /\ stage = "decode"

\* What of a model is in no description of it: the key under which a file holds
\* the weights, the seed of those it lacks, the shift, and with an identifier of
\* the user's own the size of a TSM (external: nor the arguments of a library).
Undescribed(c) ==
    [key |-> IF c.checkpoint = None THEN None ELSE c.checkpoint.key,
     seed |-> IF c.checkpoint # None THEN LoadedWeights(c).seed ELSE None,
     shift_div |-> c.shift_div,
     size |-> IF c.model_id = None THEN None ELSE <<c.segments, c.classes>>]

\* Models that may differ, in their parameters or their preprocessing, have
\* different descriptions, but for what is in none and for a file that was
\* replaced after it was hashed: a dump is continued only with the adapter it
\* was begun with (application/_session_service.py:149).
DescriptionsTellModelsApart ==
    \A c, d \in Accepted :
        (/\ AdapterSpec(c) = AdapterSpec(d) /\ Undescribed(c) = Undescribed(d)
         /\ \A x \in {c, d} : x.checkpoint # None => x.checkpoint.hashed = x.checkpoint.loaded)
            => LoadedWeights(c) = LoadedWeights(d) /\ StepsOf(c) = StepsOf(d)

\* The temporal shift mixes no two clips: what is predicted of a clip does not
\* depend on the batch it is in, so that batches may be split and rejoined;
\* and no feature is used twice (adapter/torchvision_tsm_adapter.py:33-53).
ClipsStayApart ==
    \A segments \in 1..3, channels \in 1..5, div \in 1..4, clips \in 1..2 :
        LET nt == segments * clips
            from == [k \in 0..(nt - 1), ch \in 0..(channels - 1) |->
                       ShiftedFrom(k, ch, segments, channels, div)] IN
        \A k \in 0..(nt - 1), ch \in 0..(channels - 1) :
            /\ \A j \in from[k, ch] : j \in 0..(nt - 1) /\ j \div segments = k \div segments
            /\ \A l \in (0..(nt - 1)) \ {k} : from[k, ch] \cap from[l, ch] = {}

\* No two parameters of a checkpoint take the same name, so a conversion never
\* stops at a collision (adapter/mmaction_checkpoint.py:153-164).
KeysStayApart == Cardinality(ConvertedKeys) = Cardinality(MMActionKeys)

AdaptersAreSound ==
    /\ MasksFollowTheImage /\ DeclaredMasksWork /\ CropsKeepTheMiddle
    /\ OutOfMemoryIsToldApart /\ DescriptionsTellModelsApart /\ ClipsStayApart /\ KeysStayApart

=============================================================================
