----------------------------- MODULE Strategies -----------------------------
(***************************************************************************)
(* Strategies (ssat/core/_strategy_registry.py, perturb, region, plan):    *)
(* registries searched in order, and the parameters a configuration gives  *)
(* them, checked once when it is resolved and again, by other code, when   *)
(* they are used.                                                          *)
(*                                                                         *)
(* A parameter is [type, items]: one item, or those of a list; a text is   *)
(* the number of its letters.  Numbers are in Tenths; NotANumber stands    *)
(* for a boolean, a NaN or an infinity.                                    *)
(***************************************************************************)
EXTENDS Masks, Plan

CONSTANTS
    StrategyTypes,     \* [proper, serves, support, runs]
    RawPerturbations,  \* [op, params] as written: params by name
    RawRegions,        \* [kind, params, ref, ref_hash] as written
    Tenths,
    NotANumber

-----------------------------------------------------------------------------
(* Registries.                                                             *)

\* of the right class, and once
Enrol(enrolled, type) ==
    IF type.proper /\ type \notin Range(enrolled) THEN Append(enrolled, type) ELSE enrolled
Enrolled(types) == FoldLeft(Enrol, <<>>, types)

\* the first to answer yes, 0 for none; a bad answer ends the search
Found(types, kind) ==
    LET answers == {i \in DOMAIN types : types[i].support # "bool" \/ kind \in types[i].serves} IN
    IF answers = {} \/ types[Min(answers)].support # "bool" THEN 0 ELSE Min(answers)
Dispatched(types, kind) ==
    IF Found(types, kind) = 0 \/ types[Found(types, kind)].runs # "value"
    THEN "domain_error" ELSE "value"

-----------------------------------------------------------------------------
(* Perturbations.                                                          *)

Names(op) ==
    CASE op = "constant_fill" -> {"value"} [] op = "mean_fill" -> {}
      [] op \in {"blur", "gaussian_noise"} -> {"sigma"} [] op = "patch_shuffle" -> {"patch_size"}

IsLevel(x) == x # NotANumber /\ x >= 0 /\ x <= 255 * Tenths
PositiveReal(v) == v.type \in {"int", "float"} /\ v.items[1] # NotANumber /\ v.items[1] > 0
PositiveInt(v) == v.type = "int" /\ PositiveReal(v)

\* when the configuration is resolved
FillConfigured(v) == v.type # "text" /\ v.items # <<>> /\ \A x \in Range(v.items) : IsLevel(x)
Validates(op, params) ==
    /\ DOMAIN params = Names(op)
    /\ op = "constant_fill" => FillConfigured(params["value"])
    /\ op \in {"blur", "gaussian_noise"} => PositiveReal(params["sigma"])
    /\ op = "patch_shuffle" => PositiveInt(params["patch_size"])

RequiresStats(op) == op = "mean_fill"
ResolvedParams(op, params, channel_mean) ==
    IF RequiresStats(op) THEN [name \in {"value"} |-> [type |-> "list", items |-> channel_mean]]
    ELSE params

\* when it is applied to a frame; None for an error
FillValue(v, channels) ==
    LET values == IF v.type = "list" THEN v.items ELSE [c \in 1..channels |-> v.items[1]] IN
    IF v.type = "text" \/ Len(values) # channels \/ \E x \in Range(values) : ~IsLevel(x) THEN None
    ELSE [c \in 1..channels |-> HalfEven(values[c], Tenths)]
Applies(op, params, channels) ==
    IF op \in {"constant_fill", "mean_fill"}
    THEN DOMAIN params = {"value"} /\ FillValue(params["value"], channels) # None
    ELSE Validates(op, params)

\* noise is rounded and then kept in range, before it is cast to eight bits
Noisy(level, noise) == Max({0, Min({255, HalfEven(level * Tenths + noise, Tenths)})})

\* a fill writes into the frames of its mask, the others are composed
Filled(shape, mask) ==
    [i \in 1..shape.t |-> [p \in Pixels(shape) |->
        IF p \in mask.at[IF mask.per_frame THEN i ELSE 1] THEN New ELSE p]]

-----------------------------------------------------------------------------
(* Region families.                                                        *)

RegionKinds ==
    {"grid", "explicit", "skeleton_parts", "bbox_partition", "gt_bbox", "random_area_match"}
ExpandersServe ==
    <<{"grid"}, {"explicit"}, {"bbox_partition", "skeleton_parts", "gt_bbox"},
      {"random_area_match"}>>
GeneratorsServe == <<{"grid"}, {"explicit"}, {"skeleton_parts"}, {"random_area_match"}>>
Servants(serve, kind) == {i \in DOMAIN serve : kind \in serve[i]}

ReferenceOK(region) ==
    IF region.kind = "explicit" THEN region.ref # None
    ELSE region.ref = None /\ region.ref_hash = None
IsName(v) == v.type = "text" /\ v.items[1] > 0
PartOK(params) ==
    /\ IsName(params["body_part"])
    /\ "bbox_scale" \in DOMAIN params => PositiveReal(params["bbox_scale"])
GridOK(params) == DOMAIN params = {"rows", "cols"} /\ \A n \in DOMAIN params : PositiveInt(params[n])

\* an explicit family is not checked; the kinds left out are reserved or internal
ExpanderAccepts(region) ==
    \/ region.kind = "explicit"
    \/ region.kind = "grid" /\ GridOK(region.params)
    \/ /\ region.kind = "skeleton_parts"
       /\ "body_part" \in DOMAIN region.params
       /\ DOMAIN region.params \subseteq {"body_part", "bbox_scale"}
       /\ PartOK(region.params)
FamilyAccepted(region) ==
    ReferenceOK(region) /\ Servants(ExpandersServe, region.kind) # {} /\ ExpanderAccepts(region)

IntParam(n) == [type |-> "int", items |-> <<n * Tenths>>]
\* the parameters of the concrete regions of a family
ConcreteParams(region) ==
    CASE region.kind = "grid" ->
            {[name \in {"rows", "cols", "row_index", "col_index"} |->
                CASE name = "row_index" -> IntParam(r) [] name = "col_index" -> IntParam(c)
                  [] OTHER -> region.params[name]] :
                r \in 0..(region.params["rows"].items[1] \div Tenths - 1),
                c \in 0..(region.params["cols"].items[1] \div Tenths - 1)}
      [] region.kind = "skeleton_parts" ->
            {[name \in {"sample_id", "body_part", "bbox_scale"} |->
                IF name = "sample_id" THEN [type |-> "text", items |-> <<1>>]
                ELSE IF name \in DOMAIN region.params THEN region.params[name]
                ELSE [type |-> "float", items |-> <<Tenths>>]]}
      [] OTHER -> {region.params}

\* what the mask generator of the kind checks once more
NonNegativeInt(v) == v.type = "int" /\ v.items[1] # NotANumber /\ v.items[1] >= 0
GeneratorTakes(kind, params) ==
    CASE kind = "grid" ->
            /\ DOMAIN params = {"rows", "cols", "row_index", "col_index"}
            /\ PositiveInt(params["rows"]) /\ NonNegativeInt(params["row_index"])
            /\ PositiveInt(params["cols"]) /\ NonNegativeInt(params["col_index"])
            /\ params["row_index"].items[1] < params["rows"].items[1]
            /\ params["col_index"].items[1] < params["cols"].items[1]
      [] kind = "explicit" -> params = <<>>
      [] kind = "skeleton_parts" ->
            /\ DOMAIN params = {"sample_id", "body_part", "bbox_scale"}
            /\ IsName(params["sample_id"]) /\ PartOK(params)

-----------------------------------------------------------------------------
(* The file of tracked boxes.                                              *)

\* a box is Untracked or its four coordinates
BoxOK(box) ==
    box = Untracked \/ (/\ Len(box) = 4 /\ NotANumber \notin Range(box)
                        /\ 0 <= box[1] /\ box[1] < box[3] /\ 0 <= box[2] /\ box[2] < box[4])
PartsOK(parts) ==
    /\ DOMAIN parts # {}
    /\ \A p, q \in DOMAIN parts : parts[p] # <<>> /\ Len(parts[p]) = Len(parts[q])
    /\ \A p \in DOMAIN parts : \A box \in Range(parts[p]) : BoxOK(box)
EntryOK(entry) ==
    /\ Len(entry.frame_size) = 2 /\ \A n \in Range(entry.frame_size) : n > 0
    /\ PartsOK(entry.parts)

Written(box) == IF box = Untracked THEN Untracked ELSE <<box.x1, box.y1, box.x2, box.y2>>

-----------------------------------------------------------------------------
(* Properties.                                                             *)

\* A strategy that is registered later never takes over a kind that is
\* served, and serves one that is not unless an earlier one fails to answer;
\* a registry has no class twice (_strategy_registry.py:102-123,
\* perturb/dispatch.py:34-50).
LaterStrategiesYield ==
    \A s, t, u \in StrategyTypes :
        LET before == Enrolled(<<s, t>>)
            after == Enrolled(<<s, t, u>>) IN
        /\ Distinct(after)
        /\ \A kind \in RegionKinds :
              /\ Found(before, kind) # 0 =>
                    Found(after, kind) = Found(before, kind)
                    /\ Dispatched(after, kind) = Dispatched(before, kind)
              /\ Found(before, kind) = 0 /\ Found(after, kind) # 0 =>
                    \A i \in DOMAIN before : before[i].support = "bool"

\* A perturbation that was resolved runs on every frame, unless its fill is a
\* list for another number of channels, and one that was refused would have
\* failed: the two checks, one per configuration and one per item, agree
\* (perturb/_helpers.py:40-101, perturb/operators.py).
AcceptedPerturbationsRun ==
    \A raw \in RawPerturbations, channels \in 1..3 :
        LET runs(params) == Applies(raw.op, params, channels) IN
        IF ~Validates(raw.op, raw.params) THEN RequiresStats(raw.op) \/ ~runs(raw.params)
        ELSE \A n \in 1..3 :
                LET params == ResolvedParams(raw.op, raw.params, [c \in 1..n |-> 3 * n + c]) IN
                runs(params) <=>
                    ("value" \in DOMAIN params /\ params["value"].type = "list" =>
                        Len(params["value"].items) = channels)

\* Noise and fills leave no pixel outside its eight bits, and a fill is off by
\* half a level at most (perturb/operators.py:304-307).
LevelsStayInRange ==
    /\ \A level \in {0, 1, 127, 255}, noise \in {-3000, -6, -5, 0, 4, 5, 15, 3000} :
          Noisy(level, noise) \in 0..255
    /\ \A raw \in RawPerturbations, channels \in 1..3 :
          (raw.op = "constant_fill" /\ Validates(raw.op, raw.params)) =>
              LET v == raw.params["value"]
                  fill == FillValue(v, channels) IN
              fill # None => \A c \in 1..channels :
                  LET off == fill[c] * Tenths - v.items[IF v.type = "list" THEN c ELSE 1] IN
                  fill[c] \in 0..255 /\ -Tenths <= 2 * off /\ 2 * off <= Tenths

\* A region family that was accepted is expanded by one expander into regions
\* that one generator takes, except that parameters of an explicit region,
\* which no check refuses, fail every item
\* (plan/region_expanders.py:127, region/mask_generators.py:197).
AcceptedFamiliesAreServed ==
    \A region \in RawRegions : FamilyAccepted(region) =>
        /\ Cardinality(Servants(ExpandersServe, region.kind)) = 1
        /\ Cardinality(Servants(GeneratorsServe, region.kind)) = 1
        /\ ConcreteParams(region) # {}
        /\ \A params \in ConcreteParams(region) :
              GeneratorTakes(region.kind, params) <=> ~(region.kind = "explicit" /\ params # <<>>)

\* What the offline builder writes of any joints, also those outside the
\* frame, is loaded (region/skeleton_bbox_builder.py:116-140,
\* region/skeleton_store.py:218-254).
BuiltBoxesLoad ==
    LET ends == {-2, 0, 1, 2 * SubPixels - 1, 2 * SubPixels, 2 * SubPixels + 2}
        frame == [h |-> 2, w |-> 2] IN
    \A a, b \in ends \X ends :
        EntryOK([frame_size |-> <<2, 2>>,
                 parts |-> [p \in {"part"} |-> <<Written(PartBox({a, b}, frame)), Untracked>>]])

\* Filling in place, in every frame or frame by frame, is composing a filled
\* candidate (perturb/operators.py:46-49, perturb/_helpers.py:34-36).
FillsAreComposites ==
    LET shape == [t |-> 2, h |-> 1, w |-> 2]
        filled == [p \in Pixels(shape) |-> New] IN
    \A x, y \in SUBSET Pixels(shape) :
        /\ Filled(shape, [per_frame |-> TRUE, at |-> <<x, y>>]) =
              Composite(shape, [per_frame |-> TRUE, at |-> <<x, y>>], filled)
        /\ \A i \in 1..2 : Filled(shape, Whole(x))[i] = Composite(shape, Whole(x), filled)[1]

StrategiesAreSound ==
    /\ LaterStrategiesYield /\ AcceptedPerturbationsRun /\ LevelsStayInRange
    /\ AcceptedFamiliesAreServed /\ BuiltBoxesLoad /\ FillsAreComposites
=============================================================================
