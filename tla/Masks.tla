------------------------------- MODULE Masks --------------------------------
(***************************************************************************)
(* Regions in the frame (ssat/core/region, ssat/core/perturb): the pixels  *)
(* each kind of region selects, and what a perturbation does to them.      *)
(*                                                                         *)
(* A mask is a sequence of pixel sets, one per frame of the sample, or a   *)
(* single one for all frames (per_frame = FALSE).  The coordinates of a    *)
(* box are in SubPixels per pixel, its scale is in halves.                 *)
(***************************************************************************)
EXTENDS Rounding, Sequences, FiniteSets, FiniteSetsExt, Functions

CONSTANTS
    SubPixels,   \* resolution of the coordinates of a box
    Bitmap,      \* content of a mask file -> [shape, pixels], or Undecodable
    Tracks,      \* <<sample, part>> -> [frame_size, joints], joints by frame
    MarginPercent,
    MinValidJoints,
    Undecodable,
    New,         \* a pixel whose content is computed
    Untracked    \* no box in this frame

Pixels(shape) == (0..(shape.h - 1)) \X (0..(shape.w - 1))
Whole(pixels) == [per_frame |-> FALSE, at |-> <<pixels>>]
Failed == [per_frame |-> FALSE, at |-> <<>>]
IsMask(mask) == mask # Failed

-----------------------------------------------------------------------------
(* Grid cells: exact integer boundaries.                                   *)

GridMask(shape, params) ==
    Whole({p \in Pixels(shape) :
             /\ (params.row * shape.h) \div params.rows <= p[1]
             /\ p[1] < ((params.row + 1) * shape.h) \div params.rows
             /\ (params.col * shape.w) \div params.cols <= p[2]
             /\ p[2] < ((params.col + 1) * shape.w) \div params.cols})

ExplicitMask(shape, content) ==
    IF content = Undecodable \/ Bitmap[content].shape # [h |-> shape.h, w |-> shape.w]
    THEN Failed ELSE Whole(Bitmap[content].pixels)

-----------------------------------------------------------------------------
(* Tracked body parts: a box per frame, scaled about its centre, clipped.  *)

\* the offline builder: the joints of a part, widened by a margin, clamped; the
\* margin is rounded up, so that it is 0 only where the code has it 0
PartBox(joints, frame) ==
    LET side(axis, limit) ==
          LET low == Min({j[axis] : j \in joints})
              high == Max({j[axis] : j \in joints})
              share == Ceiling((high - low) * MarginPercent, 100)
              margin == IF share = 0 THEN SubPixels ELSE share IN
          [low |-> Max({0, low - margin}), high |-> Min({limit * SubPixels, high + margin})]
        x == side(1, frame.w)
        y == side(2, frame.h) IN
    IF x.low >= x.high \/ y.low >= y.high THEN Untracked
    ELSE [x1 |-> x.low, x2 |-> x.high, y1 |-> y.low, y2 |-> y.high]

\* what the builder writes and the store loads
Boxes ==
    [key \in DOMAIN Tracks |->
        LET track == Tracks[key] IN
        [frame_size |-> track.frame_size,
         boxes |-> [i \in DOMAIN track.joints |->
                      IF Cardinality(track.joints[i]) < MinValidJoints THEN Untracked
                      ELSE PartBox(track.joints[i], track.frame_size)]]]

\* faulty: both ends of an interval are cut off to whole pixels
BetweenTruncated(low, high, scale, limit) ==
    LET sum == 2 * (low + high)
        span == (high - low) * scale
        unit == 4 * SubPixels IN
    {i \in 0..(limit - 1) : Ceiling(sum - span, unit) <= i /\ i < (sum + span) \div unit}

Between(low, high, scale, limit) ==
    LET sum == 2 * (low + high)
        span == (high - low) * scale
        unit == 4 * SubPixels IN
    {i \in 0..(limit - 1) : (sum - span) \div unit <= i /\ i < Ceiling(sum + span, unit)}

BoxPixels(shape, box, scale) ==
    IF box = Untracked THEN {}
    ELSE Between(box.y1, box.y2, scale, shape.h) \X Between(box.x1, box.x2, scale, shape.w)

\* params carry the sample: the generator is not told which one it works on
SkeletonMask(shape, params) ==
    LET key == <<params.sample, params.part>> IN
    IF key \notin DOMAIN Boxes THEN Failed
    ELSE IF Boxes[key].frame_size # [h |-> shape.h, w |-> shape.w] THEN Failed
    ELSE [per_frame |-> TRUE,
          at |-> [i \in DOMAIN Boxes[key].boxes |->
                    BoxPixels(shape, Boxes[key].boxes[i], params.scale)]]

-----------------------------------------------------------------------------
(* Controls: the shape of the target moved to any place in the frame.      *)

Moved(pixels, by) == {<<p[1] + by[1], p[2] + by[2]>> : p \in pixels}

Offsets(shape, pixels) ==
    LET rows == {p[1] : p \in pixels}
        cols == {p[2] : p \in pixels} IN
    {<<r - Min(rows), c - Min(cols)>> :
       r \in 0..(shape.h - Max(rows) + Min(rows) - 1),
       c \in 0..(shape.w - Max(cols) + Min(cols) - 1)}

\* a target of every frame, or of no pixel, has no controls
ControlMasks(shape, target) ==
    IF ~IsMask(target) \/ target.per_frame \/ target.at[1] = {} THEN {Failed}
    ELSE IF Offsets(shape, target.at[1]) = {} THEN {Failed}
    ELSE {Whole(Moved(target.at[1], by)) : by \in Offsets(shape, target.at[1])}

-----------------------------------------------------------------------------
(* What every mask goes through.                                           *)

\* a mask that varies by frame has exactly the frames of the sample
FitsSample(shape, mask) == IsMask(mask) /\ (mask.per_frame => Len(mask.at) = shape.t)

Inverted(shape, mask) ==
    [mask EXCEPT !.at = [i \in DOMAIN mask.at |-> Pixels(shape) \ mask.at[i]]]

TotalArea(mask) == MapThenSumSet(LAMBDA i : Cardinality(mask.at[i]), DOMAIN mask.at)
\* the mean over the frames, rounded
IntendedArea(mask) == HalfEven(TotalArea(mask), Len(mask.at))

-----------------------------------------------------------------------------
(* Perturbations: where the content of each pixel comes from.              *)

\* whole tiles change places, what is left at the edges stays
Shuffled(shape, size, permutation) ==
    LET rows == shape.h \div size
        cols == shape.w \div size
        source(p) == permutation[(p[1] \div size) * cols + p[2] \div size] IN
    [p \in Pixels(shape) |->
        IF p[1] >= rows * size \/ p[2] >= cols * size THEN p
        ELSE <<(source(p) \div cols) * size + (p[1] % size),
               (source(p) % cols) * size + (p[2] % size)>>]

\* fills, blur and noise give every pixel a new value
Candidates(shape, op, value) ==
    IF op # "patch_shuffle" THEN {[p \in Pixels(shape) |-> New]}
    ELSE LET tiles == 0..((shape.h \div value) * (shape.w \div value) - 1) IN
         {Shuffled(shape, value, permutation) : permutation \in Bijection(tiles, tiles)}

\* one candidate for all frames, taken over where the mask selects
Composite(shape, mask, candidate) ==
    [i \in DOMAIN mask.at |->
        [p \in Pixels(shape) |-> IF p \in mask.at[i] THEN candidate[p] ELSE p]]

=============================================================================
