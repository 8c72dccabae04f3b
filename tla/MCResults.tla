----------------------------- MODULE MCResults -----------------------------
(* Small dumps for Results: what is left of a plan, in ten shapes. *)
EXTENDS Studies, TLC

MCClasses == 1..2
\* 0 and 1 are too close for their probabilities to differ
MCProb == (0 :> 0) @@ (1 :> 0) @@ (2 :> 1) @@ (3 :> 2)
MCOperators == <<"blur", "constant_fill", "mean_fill">>
MCDeclared == [o \in {"blur", "mean_fill"} |-> TRUE] @@ [o \in {"constant_fill"} |-> FALSE]

MCFollowed == {"margin_drop", "flip_correct_to_wrong"}

Gone == <<"gone">>
Unprepared == <<"unprepared">>
Unpredicted == <<"unpredicted">>
\* the label of every sample is class 1
Few == {Gone, Unprepared, Unpredicted, <<3, 0>>}

\* region g of sample s, or control i of it, under one operator and salt
Place(s, g, i, op, params, salt) ==
    [sample |-> s, region |-> g, control |-> i, op |-> op, params |-> params, salt |-> salt,
     invert |-> FALSE]
Inverted(p) == [p EXCEPT !.invert = TRUE]

\* pixels of a frame; region 3 is half of it
Frame == 60
\* of an inverted item both areas are those of the complement
Row(p, outcome) ==
    LET region == IF p.region = 3 THEN Frame \div 2 ELSE 20 * p.sample
        drawn == IF p.control = 0 THEN region ELSE region + p.control + 2 * p.salt - 1
        recorded(area) == IF p.invert THEN Frame - area ELSE area IN
    [item |-> p, sample |-> p.sample, region |-> 10 * p.control + p.region,
     kind |-> IF p.control > 0 THEN "random_area_match"
              ELSE IF p.region >= 100 THEN "skeleton_parts" ELSE "grid",
     intended |-> IF outcome = Unprepared THEN None ELSE recorded(region),
     effective |-> IF outcome \in {Unprepared, Unpredicted} THEN None ELSE recorded(drawn),
     invert |-> p.invert, op |-> p.op, params |-> p.params, salt |-> p.salt,
     index |-> IF p.control = 0 THEN None ELSE p.control - 1,
     control |-> p.control > 0, target |-> IF p.control > 0 THEN p.region ELSE None,
     status |-> IF outcome \in {Unprepared, Unpredicted} THEN "failed" ELSE "ok",
     logits |-> IF outcome \in {Unprepared, Unpredicted} THEN None ELSE outcome]

Rows(f) == {Row(p, f[p]) : p \in {q \in DOMAIN f : f[q] # Gone}}
Clean(status, label, logits) == [status |-> status, label |-> label, logits |-> logits]
Good == {Clean("ok", 1, <<2, 0>>)}
Wrong == Clean("ok", 1, <<0, 2>>)
\* two samples, and what may have become of them
CleanPairs ==
    LET unlabelled == Clean("ok", None, <<2, 0>>)
        failed == Clean("failed", 1, None)
        good == Clean("ok", 1, <<2, 0>>) IN
    {<<good, c>> : c \in {good, unlabelled, failed}} \cup {<<unlabelled, failed>>}

\* one fragment, whose rows may come in any order
Loose(outcomes, cleans) ==
    {[clean |-> c, fragments |-> IF Rows(f) = {} THEN <<>> ELSE <<Rows(f)>>] :
        c \in cleans, f \in outcomes}
\* a fragment for each row
OrderedOf(places, outcomes, cleans) ==
    {[clean |-> clean,
      fragments |-> SelectSeq([k \in DOMAIN places |-> Rows((places[k] :> outcome[k]))],
                              LAMBDA f : f # {})] :
        outcome \in outcomes, clean \in cleans}
Ordered(places, outcomes) == OrderedOf(places, outcomes, {[s \in {1} |-> Clean("ok", 1, <<2, 0>>)]})
\* two regions, two controls of the first
TwoRegions == {Place(1, 1, 0, "blur", 1, 0), Place(1, 2, 0, "blur", 1, 0),
               Place(1, 1, 1, "blur", 1, 0), Place(1, 1, 2, "blur", 1, 0)}
\* two samples, two operators
TwoSamples == [k \in 1..4 |-> Place((k + 1) \div 2, 1, 0, IF k % 2 = 1 THEN "blur" ELSE "mean_fill", 1, 0)]
SampleOutcomes == {f \in [1..4 -> {<<0, 2>>, <<3, 0>>, Gone}] : f[1] # Gone}
\* a region and its control, two salts
TwoSalts == {Place(1, 1, i, "blur", 1, salt) : i \in 0..1, salt \in 1..2}
SaltOutcomes == {f \in [TwoSalts -> Few] : \A p \in TwoSalts : f[p] = Unprepared => p.salt = 1}
\* two operators, two parameters of the first, two controls
TwoOperators == <<Place(1, 1, 0, "blur", 1, 0), Place(1, 1, 0, "blur", 2, 0),
                  Place(1, 1, 0, "mean_fill", 1, 0), Place(1, 1, 1, "blur", 1, 0),
                  Place(1, 1, 2, "blur", 1, 0), Place(1, 1, 1, "mean_fill", 1, 0)>>
OperatorOutcomes ==
    {f \in [1..6 -> {<<0, 2>>, <<2, 0>>, <<3, 0>>, Gone}] :
        /\ f[1] \in {<<0, 2>>, <<3, 0>>} /\ f[2] \in {<<0, 2>>, Gone} /\ f[3] # <<2, 0>>
        /\ \A k \in 4..6 : f[k] # <<0, 2>>}
\* three operators on three regions, which each operator ranks in some way
ThreeOperators == [k \in 1..9 |-> Place(1, ((k - 1) % 3) + 1, 0, MCOperators[((k - 1) \div 3) + 1], 1, 0)]
Ranks == Permutations(1..3) \cup {[g \in 1..3 |-> 2]}
OperatorRanks == {[k \in 1..9 |-> <<q[((k - 1) \div 3) + 1][((k - 1) % 3) + 1], 0>>] :
               q \in {<<u, v, w>> : u \in {<<1, 2, 3>>, <<2, 2, 2>>}, v \in {<<1, 2, 3>>, <<2, 1, 3>>, <<3, 1, 2>>}, w \in Ranks}}

\* two samples of two classes, two parts of the skeleton of each
TwoSkeletons == [k \in 1..4 |-> LET s == (k + 1) \div 2 IN Place(s, 100 * s + (k % 2), 0, "blur", 1, 0)]
SkeletonOutcomes == {f \in [1..4 -> {<<0, 2>>, <<3, 0>>, Gone}] : f[1] # Gone}
SkeletonCleans ==
    LET right == Clean("ok", 1, <<2, 0>>) IN
    {<<right, c>> : c \in {right, Clean("ok", 2, <<1, 2>>), Clean("ok", None, <<2, 0>>)}}

MCFamily == [g \in {1, 2} |-> 1] @@ (3 :> 2) @@ (101 :> 3) @@ (201 :> 3) @@ (100 :> 4) @@ (200 :> 4)
MCGroup == (1 :> 1) @@ (2 :> 2) @@ (3 :> 3) @@ (4 :> 4)
MCKnobs == {[top |-> 1, bottom |-> 0], [top |-> 2, bottom |-> 1]}

\* two regions with two controls each
TwoPairs == [k \in 1..6 |-> Place(1, ((k - 1) % 2) + 1, (k - 1) \div 2, "blur", 1, 0)]
PairOutcomes ==
    {f \in [1..6 -> {<<0, 2>>, <<2, 0>>, <<3, 0>>, Gone}] :
        /\ f[1] = <<0, 2>> /\ f[2] \in {<<0, 2>>, <<2, 0>>}
        /\ \A k \in 3..5 : f[k] \in {<<2, 0>>, <<3, 0>>}}

\* a region with three controls, which behave alike under two operators
ThreeControls == [k \in 1..8 |-> Place(1, 1, (k - 1) % 4, IF k > 4 THEN "mean_fill" ELSE "blur", 1, 0)]
ControlOutcomes ==
    {[k \in 1..8 |-> IF k % 4 = 1 THEN <<0, 2>> ELSE f[(k - 1) % 4]] :
        f \in [1..3 -> {<<0, 2>>, <<2, 0>>, <<3, 0>>}]}

\* a region and its complement, each with a control
BothPolarities(g) ==
    LET plain == {Place(1, g, i, "blur", 1, 0) : i \in 0..1} IN
    plain \cup {Inverted(p) : p \in plain}
PolarityOutcomes(g) ==
    {f \in [BothPolarities(g) -> {Gone, Unprepared, Unpredicted, <<0, 2>>, <<3, 0>>}] :
        \A p \in BothPolarities(g) : p.control > 0 => f[p] \in {Gone, <<2, 0>>, <<0, 2>>, <<3, 0>>}}
\* a region of the first sample, and a region and its complement of the second
SecondInverted == <<Place(1, 1, 0, "blur", 1, 0), Place(2, 1, 0, "blur", 1, 0),
                    Inverted(Place(2, 1, 0, "blur", 1, 0)), Inverted(Place(1, 2, 0, "blur", 1, 0))>>
SecondOutcomes == [1..4 -> {Unprepared, Unpredicted, <<0, 2>>, Gone}]

\* every threshold at, above and below its default
MCSettings ==
    [z_threshold : {1, 2}, sign_epsilon : {0}, min_multi_strategy : {1, 2},
     ci_level : {2, 3}, ddof : {0, 1}, std_floor : {0}, zero_abstain : {FALSE}]
    \cup [z_threshold : {2}, sign_epsilon : {12}, min_multi_strategy : {1, 2},
          ci_level : {2}, ddof : {0, 1}, std_floor : {6}, zero_abstain : {TRUE}]

MCDumps ==
    Loose([TwoRegions -> {Gone, Unprepared, <<0, 2>>, <<3, 0>>}], [{1} -> Good])
    \cup OrderedOf(TwoSamples, SampleOutcomes, CleanPairs)
    \cup Loose(SaltOutcomes, [{1} -> Good \cup {Wrong}])
    \cup Ordered(TwoOperators, OperatorOutcomes)
    \cup Ordered(TwoPairs, PairOutcomes)
    \cup Ordered(ThreeControls, ControlOutcomes)
    \cup Ordered(ThreeOperators, OperatorRanks)
    \cup UNION {Loose(PolarityOutcomes(g), [{1} -> Good]) : g \in {1, 3}}
    \cup OrderedOf(SecondInverted, SecondOutcomes, CleanPairs)
    \cup OrderedOf(TwoSkeletons, SkeletonOutcomes, SkeletonCleans)
=============================================================================
