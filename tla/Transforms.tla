----------------------------- MODULE Transforms -----------------------------
(***************************************************************************)
(* What preprocessing does to an image and to the mask that goes with it   *)
(* (ssat/core/adapter/preprocessing.py, transforms.py,                     *)
(* transform_registry.py, preprocessor.py).                                *)
(*                                                                         *)
(* A view of a frame maps each of its pixels to the pixels of the frame it *)
(* is made of (none: padding).  The pixels an image blends are not those a *)
(* mask is picked from, both lie about the cell the pixel covers.          *)
(***************************************************************************)
EXTENDS Masks, Plan

Kinds == {"linear", "antialias", "nearest", "cell"}
Clamped(i, n) == Max({0, Min({i, n - 1})})

\* The pixels of a line of n that pixel i of m is made of.  External: OpenCV
\* and torchvision, in exact arithmetic.
Taps(kind, n, m, i) ==
    CASE kind = "linear" ->
            LET at == (2 * i + 1) * n - m IN
            {Clamped(at \div (2 * m), n)}
              \cup IF at % (2 * m) = 0 THEN {} ELSE {Clamped(at \div (2 * m) + 1, n)}
      [] kind = "antialias" ->
            {j \in 0..(n - 1) : LET d == (2 * j + 1) * m - (2 * i + 1) * n IN
                                 Max({d, -d}) < 2 * Max({n, m})}
      [] kind = "nearest" -> {(i * n) \div m}
      [] kind = "cell" -> {j \in 0..(n - 1) : j * m < (i + 1) * n /\ i * n < (j + 1) * m}

\* a size is a pair, or the length of the short edge
OutputSize(shape, size) ==
    IF "h" \in DOMAIN size THEN size
    ELSE IF shape.h <= shape.w
    THEN [h |-> size.edge, w |-> Max({1, (size.edge * shape.w) \div shape.h})]
    ELSE [h |-> Max({1, (size.edge * shape.h) \div shape.w}), w |-> size.edge]

Resize(view, size, kind) ==
    LET to == OutputSize(view.shape, size) IN
    [shape |-> to,
     at |-> [p \in Pixels(to) |->
               UNION {view.at[q] : q \in Taps(kind, view.shape.h, to.h, p[1])
                                         \X Taps(kind, view.shape.w, to.w, p[2])}]]

\* pad what is too small, the smaller half first, then cut what is too large
CropOffset(n, m) == IF m > n THEN -((m - n) \div 2) ELSE (n - m) \div 2
\* external: torchvision rounds where the declared crop cuts off
TorchOffset(n, m) == IF m > n THEN -((m - n) \div 2) ELSE HalfEven(n - m, 2)
CutAt(view, h, w, top, left) ==
    [shape |-> [h |-> h, w |-> w],
     at |-> [p \in Pixels([h |-> h, w |-> w]) |->
               LET q == <<p[1] + top, p[2] + left>> IN
               IF q \in DOMAIN view.at THEN view.at[q] ELSE {}]]
CenterCrop(view, h, w) ==
    CutAt(view, h, w, CropOffset(view.shape.h, h), CropOffset(view.shape.w, w))
TorchCrop(view, h, w) ==
    CutAt(view, h, w, TorchOffset(view.shape.h, h), TorchOffset(view.shape.w, w))
Mirrored(view) ==
    [view EXCEPT !.at = [p \in DOMAIN @ |-> @[<<p[1], view.shape.w - 1 - p[2]>>]]]

\* the corners and the centre, each with its mirror image
TenCrop(view, size) ==
    LET padded == CenterCrop(view, Max({view.shape.h, size}), Max({view.shape.w, size}))
        down == padded.shape.h - size
        right == padded.shape.w - size
        origins == <<<<0, 0>>, <<0, right>>, <<down, 0>>, <<down, right>>,
                     <<down \div 2, right \div 2>>>>
        crop(k) == CutAt(padded, size, size, origins[k][1], origins[k][2]) IN
    [k \in 1..10 |-> IF k % 2 = 1 THEN crop((k + 1) \div 2) ELSE Mirrored(crop(k \div 2))]

\* the middle frames
SampleFrames(frames, n) ==
    LET start == (Len(frames) - n) \div 2 IN SubSeq(frames, start + 1, start + n)

-----------------------------------------------------------------------------
(* Steps.  A declared sequence has its layout steps last; a pipeline is    *)
(* not asked for an order, and a step that finds the axes elsewhere makes  *)
(* a mess of the image without an error.                                   *)

Layout == {"channels_first", "squeeze_time"}
StepOK(step) ==
    CASE step.op = "resize" -> \A name \in DOMAIN step.size : step.size[name] > 0
      [] step.op = "crop" -> step.h > 0 /\ step.w > 0
      [] step.op \in {"ten_crop", "sample_frames"} -> step.n > 0
      [] step.op = "normalize" -> step.channels > 0
      [] OTHER -> step.op \in Layout \cup {"to_float"}
OrderOK(steps) ==
    \A i, j \in DOMAIN steps : (i < j /\ steps[i].op \in Layout) =>
        steps[i].op = "channels_first" /\ steps[j].op = "squeeze_time"
Declarable(steps) ==
    /\ \A k \in DOMAIN steps : StepOK(steps[k]) /\ steps[k].op \notin {"ten_crop", "sample_frames"}
    /\ OrderOK(steps)

\* The steps of a pipeline are transforms of their own, made of those above.
\* A size is given as width and height, -1 where it follows from the other.
TransformOK(t) ==
    CASE t.type = "SampleFrames" -> t.n > 0
      [] t.type = "Resize" -> /\ \E name \in DOMAIN t.scale : t.scale[name] # -1
                              /\ \A name \in DOMAIN t.scale : t.scale[name] = -1 \/ t.scale[name] > 0
      [] t.type \in {"CenterCrop", "TenCrop"} -> t.n > 0
      [] t.type = "Normalize" -> t.channels > 0
      [] t.type = "FormatShape" -> t.format \in {"NCHW", "NTCHW"}
      [] OTHER -> t.type = "ToFloat"
Scaled(scale) ==
    IF "edge" \in DOMAIN scale THEN scale
    ELSE IF scale.w = -1 THEN [edge |-> scale.h]
    ELSE IF scale.h = -1 THEN [edge |-> scale.w] ELSE [h |-> scale.h, w |-> scale.w]
Formatted(format) ==
    <<[op |-> "channels_first"]>> \o IF format = "NCHW" THEN <<[op |-> "squeeze_time"]>> ELSE <<>>
OpsOf(t) ==
    CASE t.type = "SampleFrames" -> <<[op |-> "sample_frames", n |-> t.n]>>
      [] t.type = "Resize" -> <<[op |-> "resize", size |-> Scaled(t.scale)]>>
      [] t.type = "CenterCrop" -> <<[op |-> "crop", h |-> t.n, w |-> t.n]>>
      [] t.type = "TenCrop" -> <<[op |-> "ten_crop", n |-> t.n]>>
      [] t.type = "Normalize" -> <<[op |-> "normalize", channels |-> t.channels]>>
      [] t.type = "FormatShape" -> Formatted(t.format)
      [] t.type = "ToFloat" -> <<[op |-> "to_float"]>>
PipelineOK(pipeline) == pipeline # <<>> /\ \A k \in DOMAIN pipeline : TransformOK(pipeline[k])
PipelineOps(pipeline) == FlattenSeq([k \in DOMAIN pipeline |-> OpsOf(pipeline[k])])
MaskSupported(steps) == \A k \in DOMAIN steps : steps[k].op # "ten_crop"

Identity(shape) ==
    [shape |-> [h |-> shape.h, w |-> shape.w], at |-> [p \in Pixels(shape) |-> {p}]]
Raw(shape) == [views |-> <<Identity(shape)>>, frames |-> [i \in 1..shape.t |-> i],
               channels |-> shape.c, layout |-> "THWC", error |-> FALSE, mangled |-> FALSE]

ImageStep(image, step, kind) ==
    IF image.error THEN image
    ELSE IF image.layout # "THWC" /\ step.op \notin {"to_float", "squeeze_time"}
    THEN [image EXCEPT !.mangled = TRUE]
    ELSE CASE step.op = "resize" ->
                 [image EXCEPT !.views = [k \in DOMAIN @ |-> Resize(@[k], step.size, kind)]]
           [] step.op = "crop" ->
                 [image EXCEPT !.views = [k \in DOMAIN @ |-> CenterCrop(@[k], step.h, step.w)]]
           [] step.op = "torch_crop" ->
                 [image EXCEPT !.views = [k \in DOMAIN @ |-> TorchCrop(@[k], step.h, step.w)]]
           [] step.op = "ten_crop" ->
                 [image EXCEPT !.views = [k \in 1..(10 * Len(@)) |->
                     TenCrop(@[((k - 1) \div 10) + 1], step.n)[((k - 1) % 10) + 1]]]
           [] step.op = "sample_frames" ->
                 IF step.n > Len(image.frames) THEN [image EXCEPT !.error = TRUE]
                 ELSE [image EXCEPT !.frames = SampleFrames(@, step.n)]
           [] step.op = "normalize" -> [image EXCEPT !.error = step.channels # image.channels]
           [] step.op = "channels_first" -> [image EXCEPT !.layout = "TCHW"]
           [] step.op = "squeeze_time" ->
                 IF Len(image.frames) # 1 THEN [image EXCEPT !.error = TRUE]
                 ELSE [image EXCEPT !.layout = IF @ = "TCHW" THEN "CHW" ELSE "HWC"]
           [] OTHER -> image

Preprocess(shape, steps, kind) ==
    LET image[k \in 0..Len(steps)] ==
          IF k = 0 THEN Raw(shape) ELSE ImageStep(image[k - 1], steps[k], kind) IN
    image[Len(steps)]

\* a mask goes through the steps that move pixels or drop frames
MaskStep(mask, step) ==
    IF ~IsMask(mask) THEN mask
    ELSE CASE step.op = "resize" -> [mask EXCEPT !.view = Resize(@, step.size, "nearest")]
           [] step.op = "crop" -> [mask EXCEPT !.view = CenterCrop(@, step.h, step.w)]
           [] step.op = "torch_crop" -> [mask EXCEPT !.view = TorchCrop(@, step.h, step.w)]
           [] step.op = "sample_frames" ->
                 IF ~mask.per_frame THEN mask
                 ELSE IF step.n > Len(mask.at) THEN Failed
                 ELSE [mask EXCEPT !.at = SampleFrames(@, step.n)]
           [] OTHER -> mask
TransformMask(mask, shape, steps) ==
    LET start == [per_frame |-> mask.per_frame, at |-> mask.at, view |-> Identity(shape)]
        after[k \in 0..Len(steps)] == IF k = 0 THEN start ELSE MaskStep(after[k - 1], steps[k])
        end == after[Len(steps)] IN
    IF ~IsMask(end) THEN Failed
    ELSE [per_frame |-> end.per_frame, shape |-> end.view.shape,
          at |-> [i \in DOMAIN end.at |->
                    {p \in DOMAIN end.view.at :
                        end.view.at[p] # {} /\ end.view.at[p] \subseteq end.at[i]}]]

-----------------------------------------------------------------------------
(* Preprocessors: their steps, how they interpolate, what they hash of     *)
(* themselves and whether they transform masks.                            *)

Preprocessor(kind, steps, interpolation, payload, mask) ==
    [kind |-> kind, steps |-> steps, interpolation |-> interpolation,
     fingerprint |-> payload, mask |-> mask]
DeclarativePreprocessor(ops) == Preprocessor("declarative", ops, "linear", <<"ops", ops>>, TRUE)
PipelinePreprocessor(pipeline) ==
    Preprocessor("pipeline", PipelineOps(pipeline), "linear", <<"config", pipeline>>,
                 MaskSupported(PipelineOps(pipeline)))
IdentityPreprocessor == Preprocessor("identity", <<>>, "linear", None, FALSE)
\* what a caller's functions do is theirs; the steps are those for masks
CallablePreprocessor(steps, transforms_masks, fingerprint) ==
    Preprocessor("callable", steps, "linear", fingerprint, transforms_masks)

=============================================================================
