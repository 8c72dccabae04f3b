--------------------------- MODULE Reference_proofs ---------------------------
(***************************************************************************)
(* The store of the reference workflows stays one audit: theorems about    *)
(* Reference for any plan, limits, kills and edits.                        *)
(***************************************************************************)
EXTENDS Reference, SequenceLemmas, FiniteSetTheorems

-----------------------------------------------------------------------------
(* The plan: every row is in one unit, once.                               *)

Different == {pair \in Rows \X Rows : pair[1] # pair[2]}
Apart == {pair \in Seq(Rows) \X Seq(Rows) : Members(pair[1]) \cap Members(pair[2]) = {}}
\* a sequence of units that share no row and have none twice
UnitSeq(us) ==
    /\ us \in Seq(Seq(Rows)) /\ Pairwise(Apart, us)
    /\ \A i \in 1..Len(us) : Pairwise(Different, us[i])
RowsOf(us) == UNION {Members(us[i]) : i \in 1..Len(us)}

\* joining all members of a sequence flattens it
LEMMA EachFlattens ==
    ASSUME NEW A, NEW f \in Seq(A)
    PROVE  Each(f) = FlattenSeq(f)
<1>1. f = [i \in DOMAIN f |-> f[i]]
  BY LenProperties
<1> QED BY <1>1 DEF Each

\* the rows of a unit are among the rows of the units
LEMMA UnitsHoldRows ==
    ASSUME NEW us, NEW u \in Members(us)
    PROVE  Members(u) \subseteq RowsOf(us)
<1>1. PICK k \in 1..Len(us) : u = us[k]
  BY DEF Members
<1> QED BY <1>1 DEF RowsOf

\* sequences of rows that share none make one without repetition
LEMMA JoinRows ==
    ASSUME NEW F \in Seq(Seq(Rows)), \A i \in 1..Len(F) : Pairwise(Different, F[i]),
           \A i, j \in 1..Len(F) : i # j => Members(F[i]) \cap Members(F[j]) = {}
    PROVE  /\ Each(F) \in Seq(Rows) /\ Pairwise(Different, Each(F))
           /\ Members(Each(F)) = RowsOf(F)
<1>1. ASSUME NEW i \in 1..Len(F), NEW j \in 1..Len(F), i # j,
             NEW x \in Members(F[i]), NEW y \in Members(F[j])
      PROVE  <<x, y>> \in Different
  <2>1. F[i] \in Seq(Rows) /\ F[j] \in Seq(Rows)
    BY ElementOfSeq
  <2>2. x \in Rows /\ y \in Rows
    BY <2>1, MembersType
  <2>3. x # y
    BY <1>1
  <2> QED BY <2>2, <2>3 DEF Different
<1>2. Each(F) = FlattenSeq(F)
  BY EachFlattens
<1> QED BY <1>1, <1>2, Flattened DEF RowsOf

\* so do sequences of units
LEMMA JoinUnits ==
    ASSUME NEW F \in Seq(Seq(Seq(Rows))), \A i \in 1..Len(F) : UnitSeq(F[i]),
           \A i, j \in 1..Len(F) : i # j => RowsOf(F[i]) \cap RowsOf(F[j]) = {}
    PROVE  /\ UnitSeq(Each(F))
           /\ RowsOf(Each(F)) = UNION {RowsOf(F[i]) : i \in 1..Len(F)}
<1> DEFINE us == Each(F)
<1>1. \A i \in 1..Len(F) : F[i] \in Seq(Seq(Rows)) /\ Pairwise(Apart, F[i])
  BY DEF UnitSeq
<1>2. ASSUME NEW i \in 1..Len(F), NEW j \in 1..Len(F), i # j,
             NEW x \in Members(F[i]), NEW y \in Members(F[j])
      PROVE  <<x, y>> \in Apart
  <2>1. x \in Seq(Rows) /\ y \in Seq(Rows)
    BY <1>1, MembersType
  <2>2. Members(x) \subseteq RowsOf(F[i]) /\ Members(y) \subseteq RowsOf(F[j])
    BY UnitsHoldRows
  <2>3. RowsOf(F[i]) \cap RowsOf(F[j]) = {}
    BY <1>2
  <2>4. Members(x) \cap Members(y) = {}
    BY <2>2, <2>3
  <2> QED BY <2>1, <2>4 DEF Apart
<1>3. us = FlattenSeq(F)
  BY EachFlattens
<1>4. /\ us \in Seq(Seq(Rows)) /\ Pairwise(Apart, us)
      /\ Members(us) = UNION {Members(F[i]) : i \in 1..Len(F)}
  <2> DEFINE A == Seq(Rows)
  <2>1. /\ F \in Seq(Seq(A)) /\ \A i \in 1..Len(F) : Pairwise(Apart, F[i])
        /\ \A i, j \in 1..Len(F) : i # j =>
              \A x \in Members(F[i]), y \in Members(F[j]) : <<x, y>> \in Apart
    BY <1>1, <1>2
  <2> HIDE DEF A, us
  <2>2. /\ FlattenSeq(F) \in Seq(A) /\ Pairwise(Apart, FlattenSeq(F))
        /\ Members(FlattenSeq(F)) = UNION {Members(F[i]) : i \in 1..Len(F)}
    BY <2>1, Flattened
  <2> QED BY <1>3, <2>2 DEF A
<1> HIDE DEF us
<1>5. ASSUME NEW k \in 1..Len(us)
      PROVE  /\ Pairwise(Different, us[k])
             /\ \E i \in 1..Len(F) : us[k] \in Members(F[i])
  <2>1. us[k] \in Members(us)
    BY DEF Members
  <2>2. PICK i \in 1..Len(F) : us[k] \in Members(F[i])
    BY <1>4, <2>1
  <2>3. PICK j \in 1..Len(F[i]) : us[k] = F[i][j]
    BY <2>2 DEF Members
  <2> QED BY <2>2, <2>3 DEF UnitSeq
<1>6. ASSUME NEW r \in RowsOf(us)
      PROVE  \E i \in 1..Len(F) : r \in RowsOf(F[i])
  <2>1. PICK k \in 1..Len(us) : r \in Members(us[k])
    BY <1>6 DEF RowsOf
  <2>2. PICK i \in 1..Len(F) : us[k] \in Members(F[i])
    BY <1>5
  <2> QED BY <2>1, <2>2, UnitsHoldRows
<1>7. ASSUME NEW i \in 1..Len(F), NEW r \in RowsOf(F[i])
      PROVE  r \in RowsOf(us)
  <2>1. PICK j \in 1..Len(F[i]) : r \in Members(F[i][j])
    BY <1>7 DEF RowsOf
  <2>2. F[i][j] \in Members(us)
    <3>1. F[i][j] \in Members(F[i])
      BY DEF Members
    <3> QED BY <1>4, <3>1
  <2>3. PICK k \in 1..Len(us) : us[k] = F[i][j]
    BY <2>2 DEF Members
  <2> QED BY <2>1, <2>3 DEF RowsOf
<1>8. RowsOf(us) = UNION {RowsOf(F[i]) : i \in 1..Len(F)}
  <2>1. RowsOf(us) \subseteq UNION {RowsOf(F[i]) : i \in 1..Len(F)}
    BY <1>6
  <2>2. UNION {RowsOf(F[i]) : i \in 1..Len(F)} \subseteq RowsOf(us)
    BY <1>7
  <2> QED BY <2>1, <2>2
<1> QED BY <1>4, <1>5, <1>8 DEF UnitSeq, us

\* and a unit before them
LEMMA AddUnit ==
    ASSUME NEW u \in Seq(Rows), Pairwise(Different, u), NEW us, UnitSeq(us),
           Members(u) \cap RowsOf(us) = {}
    PROVE  UnitSeq(<<u>> \o us) /\ RowsOf(<<u>> \o us) = Members(u) \cup RowsOf(us)
<1> DEFINE all == <<u>> \o us
<1>1. us \in Seq(Seq(Rows)) /\ Pairwise(Apart, us) /\ Len(us) \in Nat
  BY LenProperties DEF UnitSeq
<1>2. <<u>> \in Seq(Seq(Rows)) /\ Len(<<u>>) = 1 /\ <<u>>[1] = u
  OBVIOUS
<1>3. /\ Len(all) = 1 + Len(us) /\ all \in Seq(Seq(Rows))
      /\ \A i \in 1..Len(all) : all[i] = IF i <= 1 THEN <<u>>[i] ELSE us[i - 1]
  BY <1>1, <1>2, ConcatProperties
<1>4. Pairwise(Apart, <<u>>)
  BY <1>2 DEF Pairwise
<1>5. ASSUME NEW x \in Members(<<u>>), NEW y \in Members(us)
      PROVE  <<x, y>> \in Apart /\ <<y, x>> \in Apart
  <2>1. x = u /\ y \in Seq(Rows)
    BY <1>1, MembersOfOne, MembersType
  <2>2. Members(y) \subseteq RowsOf(us)
    BY UnitsHoldRows
  <2>3. Members(x) \cap Members(y) = {}
    BY <2>1, <2>2
  <2> QED BY <2>1, <2>3 DEF Apart
<1>6. Pairwise(Apart, all)
  BY <1>1, <1>2, <1>4, <1>5, PairwiseConcat
<1> HIDE DEF all
<1>7. ASSUME NEW i \in 1..Len(all)
      PROVE  \/ i = 1 /\ all[i] = u
             \/ i - 1 \in 1..Len(us) /\ all[i] = us[i - 1]
  BY <1>1, <1>2, <1>3
<1>8. \A i \in 1..Len(all) : Pairwise(Different, all[i])
  BY <1>7 DEF UnitSeq
<1>9. RowsOf(all) \subseteq Members(u) \cup RowsOf(us)
  BY <1>7 DEF RowsOf
<1>10. Members(u) \subseteq RowsOf(all)
  <2>1. 1 \in 1..Len(all) /\ all[1] = u
    BY <1>1, <1>2, <1>3
  <2> QED BY <2>1 DEF RowsOf
<1>11. RowsOf(us) \subseteq RowsOf(all)
  <2>1. ASSUME NEW i \in 1..Len(us)
        PROVE  Members(us[i]) \subseteq RowsOf(all)
    <3>1. i + 1 \in 1..Len(all) /\ all[i + 1] = us[(i + 1) - 1] /\ (i + 1) - 1 = i
      BY <1>1, <1>3
    <3> QED BY <3>1 DEF RowsOf
  <2> QED BY <2>1 DEF RowsOf
<1> QED BY <1>3, <1>6, <1>8, <1>9, <1>10, <1>11 DEF UnitSeq, all

-----------------------------------------------------------------------------
(* The units of the two workflows.                                         *)

\* rows of audit a and variant v, of samples in S, and with controls in C
Box(a, v, S, C) ==
    {r \in Rows : r.audit = a /\ r.variant = v /\ r.sample \in S /\ r.control \in C}

\* audits and cells are numbered and no cell occurs twice
LEMMA AuditFacts ==
    /\ Len(Audits) \in Nat /\ DOMAIN Audits = 1..Len(Audits) /\ 1 \in 1..Len(Audits)
    /\ Len(Cells) \in Nat /\ DOMAIN Cells = 1..Len(Cells)
    /\ \A j \in 1..Len(Cells) : Cells[j] \in Range(Cells)
    /\ \A i, j \in 1..Len(Cells) : Cells[i] = Cells[j] => i = j
    /\ Controls \in Nat
    /\ Len(Batches) \in Nat /\ DOMAIN Batches = 1..Len(Batches)
<1>1. Audits \in Seq(Range(Audits)) /\ Audits # <<>>
  BY InputAssumption
<1>2. Len(Audits) \in Nat /\ DOMAIN Audits = 1..Len(Audits) /\ Len(Audits) # 0
  BY <1>1, LenProperties, EmptySeq
<1>3. Cells \in Seq(Range(Cells)) /\ IsInjective(Cells)
  BY InputAssumption
<1>4. Len(Cells) \in Nat /\ DOMAIN Cells = 1..Len(Cells)
  BY <1>3, LenProperties
<1>5. Batches \in Seq(Seq(Samples))
  BY InputAssumption
<1> QED BY <1>2, <1>3, <1>4, <1>5, LenProperties, ReferenceAssumption DEF IsInjective, Range

\* no variant of an audit occurs twice
LEMMA VariantFacts ==
    ASSUME NEW a \in 1..Len(Audits)
    PROVE  LET vs == Audits[a].variants IN
           /\ Len(vs) \in Nat /\ DOMAIN vs = 1..Len(vs)
           /\ \A i \in 1..Len(vs) : vs[i] \in Variants
           /\ \A i, j \in 1..Len(vs) : vs[i] = vs[j] => i = j
           /\ Audits[a].controls \in BOOLEAN
<1> DEFINE vs == Audits[a].variants
<1>1. vs \in Seq(Range(vs)) /\ IsInjective(vs) /\ Audits[a].controls \in BOOLEAN
  BY AuditFacts, InputAssumption
<1>2. Len(vs) \in Nat /\ DOMAIN vs = 1..Len(vs)
  BY <1>1, LenProperties
<1>3. Range(vs) \subseteq Variants
  <2>1. Audits[a] \in Range(Audits)
    BY AuditFacts DEF Range
  <2> QED BY <2>1 DEF Variants
<1>4. \A i \in 1..Len(vs) : vs[i] \in Range(vs)
  BY <1>2 DEF Range
<1> QED BY <1>1, <1>2, <1>3, <1>4 DEF IsInjective

\* no sample is in two places of the batches
LEMMA BatchFacts ==
    /\ \A b \in 1..Len(Batches) : Batches[b] \in Seq(Samples) /\ Len(Batches[b]) \in Nat
    /\ \A b, c \in 1..Len(Batches) : \A i \in 1..Len(Batches[b]), j \in 1..Len(Batches[c]) :
          Batches[b][i] = Batches[c][j] => b = c /\ i = j
<1>1. Batches \in Seq(Seq(Samples))
  BY InputAssumption
<1>2. \A b \in 1..Len(Batches) : Batches[b] \in Seq(Samples)
  BY <1>1, ElementOfSeq
<1>3. \A b \in 1..Len(Batches) : Len(Batches[b]) \in Nat /\ DOMAIN Batches[b] = 1..Len(Batches[b])
  BY <1>2, LenProperties
<1>4. ASSUME NEW b \in 1..Len(Batches), NEW c \in 1..Len(Batches),
             NEW i \in 1..Len(Batches[b]), NEW j \in 1..Len(Batches[c]),
             Batches[b][i] = Batches[c][j]
      PROVE  b = c /\ i = j
  <2>1. /\ b \in DOMAIN Batches /\ c \in DOMAIN Batches
        /\ i \in DOMAIN Batches[b] /\ j \in DOMAIN Batches[c]
    BY <1>3, AuditFacts
  <2> QED BY <1>4, <2>1, InputAssumption
<1> QED BY <1>2, <1>3, <1>4

\* a key tells what it is a row of
LEMMA KeyFacts ==
    ASSUME NEW a \in 1..Len(Audits), NEW v \in Variants, NEW s \in Samples,
           NEW cell \in Range(Cells), NEW k \in 0..Controls
    PROVE  /\ Key(a, v, s, cell, k) \in Rows /\ Key(a, v, s, cell, k).audit = a
           /\ Key(a, v, s, cell, k).variant = v /\ Key(a, v, s, cell, k).sample = s
           /\ Key(a, v, s, cell, k).cell = cell /\ Key(a, v, s, cell, k).control = k
BY AuditFacts DEF Key, Rows

\* a sequence without the same value twice
Distinct(s) == \A i, j \in 1..Len(s) : s[i] = s[j] => i = j

\* the target rows of some samples differ
LEMMA TargetsFit ==
    ASSUME NEW a \in 1..Len(Audits), NEW v \in Variants, NEW samples \in Seq(Samples),
           Distinct(samples)
    PROVE  /\ TargetRows(a, v, samples) \in Seq(Rows)
           /\ Pairwise(Different, TargetRows(a, v, samples))
           /\ Members(TargetRows(a, v, samples)) \subseteq Box(a, v, Members(samples), {0})
<1> DEFINE key(i, j) == Key(a, v, samples[i], Cells[j], 0)
<1> DEFINE line(i) == [j \in DOMAIN Cells |-> key(i, j)]
<1> DEFINE F == [i \in DOMAIN samples |-> line(i)]
<1>1. Len(samples) \in Nat /\ DOMAIN samples = 1..Len(samples)
  BY LenProperties
<1>2. ASSUME NEW i \in 1..Len(samples), NEW j \in 1..Len(Cells)
      PROVE  /\ key(i, j) \in Box(a, v, Members(samples), {0}) /\ key(i, j) \in Rows
             /\ key(i, j).sample = samples[i] /\ key(i, j).cell = Cells[j]
  <2>1. samples[i] \in Samples /\ samples[i] \in Members(samples)
    BY ElementOfSeq DEF Members
  <2>2. Cells[j] \in Range(Cells) /\ 0 \in 0..Controls
    BY AuditFacts
  <2> QED BY <2>1, <2>2, KeyFacts DEF Box
<1> HIDE DEF key
<1>3. ASSUME NEW i \in 1..Len(samples)
      PROVE  /\ line(i) \in Seq(Rows) /\ Len(line(i)) = Len(Cells)
             /\ \A j \in 1..Len(Cells) : line(i)[j] = key(i, j)
  <2>1. line(i) \in [1..Len(Cells) -> Rows]
    BY <1>2, AuditFacts
  <2>2. \A j \in 1..Len(Cells) : line(i)[j] = key(i, j)
    BY AuditFacts
  <2> HIDE DEF line
  <2>3. line(i) \in Seq(Rows) /\ Len(line(i)) = Len(Cells)
    BY <2>1, FunctionAsSeq, AuditFacts
  <2> QED BY <2>2, <2>3
<1> HIDE DEF line
<1>4. /\ F \in Seq(Seq(Rows)) /\ Len(F) = Len(samples)
      /\ \A i \in 1..Len(samples) : F[i] = line(i)
  <2>1. F \in [1..Len(samples) -> Seq(Rows)]
    BY <1>1, <1>3
  <2>2. \A i \in 1..Len(samples) : F[i] = line(i)
    BY <1>1
  <2> HIDE DEF F
  <2>3. F \in Seq(Seq(Rows)) /\ Len(F) = Len(samples)
    BY <1>1, <2>1, FunctionAsSeq
  <2> QED BY <2>2, <2>3
<1>5. TargetRows(a, v, samples) = Each(F)
  BY DEF TargetRows, line, key
<1> HIDE DEF F
<1>6. \A i \in 1..Len(F) : Pairwise(Different, F[i])
  <2> SUFFICES ASSUME NEW i \in 1..Len(F), NEW p \in 1..Len(F[i]), NEW q \in 1..Len(F[i]), p # q
               PROVE  <<F[i][p], F[i][q]>> \in Different
    BY DEF Pairwise
  <2>1. i \in 1..Len(samples) /\ p \in 1..Len(Cells) /\ q \in 1..Len(Cells)
    BY <1>3, <1>4
  <2>2. F[i][p] = key(i, p) /\ F[i][q] = key(i, q)
    BY <1>3, <1>4, <2>1
  <2>3. key(i, p) \in Rows /\ key(i, q) \in Rows /\ key(i, p) # key(i, q)
    BY <1>2, <2>1, AuditFacts
  <2> QED BY <2>2, <2>3 DEF Different
<1>7. ASSUME NEW i \in 1..Len(F), NEW r \in Members(F[i])
      PROVE  r \in Box(a, v, Members(samples), {0}) /\ r.sample = samples[i]
  <2>1. i \in 1..Len(samples) /\ F[i] = line(i)
    BY <1>4
  <2>2. PICK j \in 1..Len(Cells) : r = key(i, j)
    BY <1>3, <1>7, <2>1 DEF Members
  <2> QED BY <1>2, <2>1, <2>2
<1>8. \A i, j \in 1..Len(F) : i # j => Members(F[i]) \cap Members(F[j]) = {}
  <2> SUFFICES ASSUME NEW i \in 1..Len(F), NEW j \in 1..Len(F), i # j,
                      NEW r \in Members(F[i]), r \in Members(F[j])
               PROVE  FALSE
    OBVIOUS
  <2>1. samples[i] = samples[j]
    BY <1>7
  <2> QED BY <1>4, <2>1 DEF Distinct
<1>9. RowsOf(F) \subseteq Box(a, v, Members(samples), {0})
  BY <1>7 DEF RowsOf
<1>10. /\ Each(F) \in Seq(Rows) /\ Pairwise(Different, Each(F))
       /\ Members(Each(F)) = RowsOf(F)
  BY <1>4, <1>6, <1>8, JoinRows
<1> QED BY <1>5, <1>9, <1>10

\* sequences without repetition that share no row are units
LEMMA AsUnits ==
    ASSUME NEW us \in Seq(Seq(Rows)), \A i \in 1..Len(us) : Pairwise(Different, us[i]),
           \A i, j \in 1..Len(us) : i # j => Members(us[i]) \cap Members(us[j]) = {}
    PROVE  UnitSeq(us)
<1>1. ASSUME NEW i \in 1..Len(us), NEW j \in 1..Len(us), i # j
      PROVE  <<us[i], us[j]>> \in Apart
  <2>1. us[i] \in Seq(Rows) /\ us[j] \in Seq(Rows) /\ Members(us[i]) \cap Members(us[j]) = {}
    BY <1>1, ElementOfSeq
  <2> QED BY <2>1 DEF Apart
<1> QED BY <1>1 DEF UnitSeq, Pairwise

\* the rows are in the boxes D[1] to D[n]
Within(rows, D, n) == \A r \in rows : \E i \in 1..n : r \in D[i]

\* units that lie in separate boxes, one after the other
LEMMA JoinBoxes ==
    ASSUME NEW n \in Nat, NEW F \in [1..n -> Seq(Seq(Rows))], NEW D,
           \A i \in 1..n : UnitSeq(F[i]) /\ RowsOf(F[i]) \subseteq D[i],
           \A i, j \in 1..n : i # j => D[i] \cap D[j] = {}
    PROVE  UnitSeq(Each(F)) /\ Within(RowsOf(Each(F)), D, n)
<1>1. F \in Seq(Seq(Seq(Rows))) /\ Len(F) = n
  BY FunctionAsSeq
<1>2. \A i, j \in 1..Len(F) : i # j => RowsOf(F[i]) \cap RowsOf(F[j]) = {}
  <2> SUFFICES ASSUME NEW i \in 1..n, NEW j \in 1..n, i # j
               PROVE  RowsOf(F[i]) \cap RowsOf(F[j]) = {}
    BY <1>1
  <2>1. RowsOf(F[i]) \subseteq D[i] /\ RowsOf(F[j]) \subseteq D[j] /\ D[i] \cap D[j] = {}
    OBVIOUS
  <2> QED BY <2>1
<1>3. UnitSeq(Each(F)) /\ RowsOf(Each(F)) = UNION {RowsOf(F[i]) : i \in 1..Len(F)}
  BY <1>1, <1>2, JoinUnits
<1>4. ASSUME NEW r \in RowsOf(Each(F))
      PROVE  \E i \in 1..n : r \in D[i]
  <2>1. PICK i \in 1..n : r \in RowsOf(F[i])
    BY <1>1, <1>3, <1>4
  <2>2. RowsOf(F[i]) \subseteq D[i]
    OBVIOUS
  <2> QED BY <2>1, <2>2
<1> QED BY <1>3, <1>4 DEF Within

\* the rows of a control differ
LEMMA ControlsFit ==
    ASSUME NEW a \in 1..Len(Audits), NEW v \in Variants, NEW samples \in Seq(Samples),
           Distinct(samples), NEW cell \in Range(Cells), NEW k \in 1..Controls
    PROVE  LET rows == ControlRows(a, v, samples, cell, k) IN
           /\ rows \in Seq(Rows) /\ Pairwise(Different, rows)
           /\ \A r \in Members(rows) : /\ r \in Box(a, v, Members(samples), 1..Controls)
                                       /\ r.cell = cell /\ r.control = k
<1> DEFINE rows == ControlRows(a, v, samples, cell, k)
<1> DEFINE key(i) == Key(a, v, samples[i], cell, k)
<1>1. Len(samples) \in Nat /\ DOMAIN samples = 1..Len(samples)
  BY LenProperties
<1>2. ASSUME NEW i \in 1..Len(samples)
      PROVE  /\ key(i) \in Box(a, v, Members(samples), 1..Controls) /\ key(i) \in Rows
             /\ key(i).sample = samples[i] /\ key(i).cell = cell /\ key(i).control = k
  <2>1. samples[i] \in Samples /\ samples[i] \in Members(samples) /\ k \in 0..Controls
    BY ElementOfSeq, AuditFacts DEF Members
  <2> QED BY <2>1, KeyFacts DEF Box
<1>3. rows = [i \in 1..Len(samples) |-> key(i)]
  BY <1>1 DEF ControlRows
<1> HIDE DEF key, rows
<1>4. rows \in [1..Len(samples) -> Rows] /\ \A i \in 1..Len(samples) : rows[i] = key(i)
  BY <1>2, <1>3
<1>5. rows \in Seq(Rows) /\ Len(rows) = Len(samples)
  BY <1>1, <1>4, FunctionAsSeq
<1>6. Pairwise(Different, rows)
  <2> SUFFICES ASSUME NEW p \in 1..Len(rows), NEW q \in 1..Len(rows), p # q
               PROVE  <<rows[p], rows[q]>> \in Different
    BY DEF Pairwise
  <2>1. samples[p] # samples[q]
    BY <1>5 DEF Distinct
  <2>2. key(p) \in Rows /\ key(q) \in Rows /\ key(p) # key(q)
    BY <1>2, <1>5, <2>1
  <2> QED BY <1>4, <1>5, <2>2 DEF Different
<1>7. ASSUME NEW r \in Members(rows)
      PROVE  r \in Box(a, v, Members(samples), 1..Controls) /\ r.cell = cell /\ r.control = k
  <2>1. PICK i \in 1..Len(samples) : r = key(i)
    BY <1>4, <1>5, <1>7 DEF Members
  <2> QED BY <1>2, <2>1
<1> QED BY <1>5, <1>6, <1>7 DEF rows

ControlUnits(a, v, samples) ==
    Each([j \in DOMAIN Cells |-> [k \in 1..Controls |-> ControlRows(a, v, samples, Cells[j], k)]])

\* the units of the controls share no row
LEMMA ControlUnitsFit ==
    ASSUME NEW a \in 1..Len(Audits), NEW v \in Variants, NEW samples \in Seq(Samples),
           Distinct(samples)
    PROVE  /\ UnitSeq(ControlUnits(a, v, samples))
           /\ RowsOf(ControlUnits(a, v, samples)) \subseteq Box(a, v, Members(samples), 1..Controls)
<1> DEFINE rows(j, k) == ControlRows(a, v, samples, Cells[j], k)
<1> DEFINE cell(j) == [k \in 1..Controls |-> rows(j, k)]
<1> DEFINE F == [j \in DOMAIN Cells |-> cell(j)]
<1> DEFINE D == [j \in 1..Len(Cells) |->
                   {r \in Box(a, v, Members(samples), 1..Controls) : r.cell = Cells[j]}]
<1>1. ASSUME NEW j \in 1..Len(Cells), NEW k \in 1..Controls
      PROVE  /\ rows(j, k) \in Seq(Rows) /\ Pairwise(Different, rows(j, k))
             /\ \A r \in Members(rows(j, k)) : /\ r \in Box(a, v, Members(samples), 1..Controls)
                                               /\ r.cell = Cells[j] /\ r.control = k
  <2>1. Cells[j] \in Range(Cells)
    BY AuditFacts
  <2> QED BY <2>1, ControlsFit
<1> HIDE DEF rows
<1>2. ASSUME NEW j \in 1..Len(Cells)
      PROVE  UnitSeq(cell(j)) /\ RowsOf(cell(j)) \subseteq D[j] /\ cell(j) \in Seq(Seq(Rows))
  <2> DEFINE us == cell(j)
  <2>1. us \in [1..Controls -> Seq(Rows)] /\ \A k \in 1..Controls : us[k] = rows(j, k)
    BY <1>1
  <2> HIDE DEF us
  <2>2. us \in Seq(Seq(Rows)) /\ Len(us) = Controls
    BY <2>1, FunctionAsSeq, AuditFacts
  <2>3. \A k \in 1..Len(us) : Pairwise(Different, us[k])
    BY <1>1, <2>1, <2>2
  <2>4. ASSUME NEW k \in 1..Len(us), NEW l \in 1..Len(us), k # l,
               NEW r \in Members(us[k]), r \in Members(us[l])
        PROVE  FALSE
    <3>1. r.control = k /\ r.control = l
      BY <1>1, <2>1, <2>2, <2>4
    <3> QED BY <2>4, <3>1
  <2>5. UnitSeq(us)
    BY <2>2, <2>3, <2>4, AsUnits
  <2>6. RowsOf(us) \subseteq D[j]
    <3> SUFFICES ASSUME NEW r \in RowsOf(us) PROVE r \in D[j]
      OBVIOUS
    <3>1. PICK k \in 1..Controls : r \in Members(rows(j, k))
      BY <2>1, <2>2 DEF RowsOf
    <3>2. r \in Box(a, v, Members(samples), 1..Controls) /\ r.cell = Cells[j]
      BY <1>1, <3>1
    <3> QED BY <3>2
  <2> QED BY <2>2, <2>5, <2>6 DEF us
<1> HIDE DEF cell
<1>3. F \in [1..Len(Cells) -> Seq(Seq(Rows))] /\ \A j \in 1..Len(Cells) : F[j] = cell(j)
  BY <1>2, AuditFacts
<1>4. ControlUnits(a, v, samples) = Each(F)
  BY DEF ControlUnits, cell, rows
<1> HIDE DEF F
<1>5. \A i, j \in 1..Len(Cells) : i # j => D[i] \cap D[j] = {}
  BY AuditFacts
<1>6. \A j \in 1..Len(Cells) : D[j] \subseteq Box(a, v, Members(samples), 1..Controls)
  OBVIOUS
<1> HIDE DEF D
<1>7. UnitSeq(Each(F)) /\ Within(RowsOf(Each(F)), D, Len(Cells))
  <2>1. \A j \in 1..Len(Cells) : UnitSeq(F[j]) /\ RowsOf(F[j]) \subseteq D[j]
    BY <1>2, <1>3
  <2>2. Len(Cells) \in Nat /\ F \in [1..Len(Cells) -> Seq(Seq(Rows))]
    BY <1>3, AuditFacts
  <2> QED BY <1>5, <2>1, <2>2, JoinBoxes
<1> QED BY <1>4, <1>6, <1>7 DEF Within

VariantUnits(a, v, samples) ==
    <<TargetRows(a, v, samples)>>
      \o (IF Audits[a].controls THEN ControlUnits(a, v, samples) ELSE <<>>)

\* no units have no rows
LEMMA NoUnits == UnitSeq(<<>>) /\ RowsOf(<<>>) = {}
<1>1. <<>> \in Seq(Seq(Rows)) /\ Len(<<>>) = 0 /\ 1..0 = {}
  OBVIOUS
<1> QED BY <1>1 DEF UnitSeq, Pairwise, RowsOf

\* nor do the units of a variant
LEMMA VariantUnitsFit ==
    ASSUME NEW a \in 1..Len(Audits), NEW v \in Variants, NEW samples \in Seq(Samples),
           Distinct(samples)
    PROVE  /\ UnitSeq(VariantUnits(a, v, samples))
           /\ RowsOf(VariantUnits(a, v, samples)) \subseteq Box(a, v, Members(samples), 0..Controls)
<1> DEFINE targets == TargetRows(a, v, samples)
<1> DEFINE us == IF Audits[a].controls THEN ControlUnits(a, v, samples) ELSE <<>>
<1>1. /\ targets \in Seq(Rows) /\ Pairwise(Different, targets)
      /\ Members(targets) \subseteq Box(a, v, Members(samples), {0})
  BY TargetsFit
<1>2. UnitSeq(us) /\ RowsOf(us) \subseteq Box(a, v, Members(samples), 1..Controls)
  BY ControlUnitsFit, NoUnits
<1>3. VariantUnits(a, v, samples) = <<targets>> \o us
  BY DEF VariantUnits
<1> HIDE DEF targets, us
<1>4. Members(targets) \cap RowsOf(us) = {}
  <2> SUFFICES ASSUME NEW r \in Members(targets), r \in RowsOf(us) PROVE FALSE
    OBVIOUS
  <2>1. r.control \in {0} /\ r.control \in 1..Controls
    BY <1>1, <1>2 DEF Box
  <2> QED BY <2>1, AuditFacts
<1>5. UnitSeq(<<targets>> \o us) /\ RowsOf(<<targets>> \o us) = Members(targets) \cup RowsOf(us)
  BY <1>1, <1>2, <1>4, AddUnit
<1>6. /\ Box(a, v, Members(samples), {0}) \subseteq Box(a, v, Members(samples), 0..Controls)
      /\ Box(a, v, Members(samples), 1..Controls) \subseteq Box(a, v, Members(samples), 0..Controls)
  BY AuditFacts DEF Box
<1> QED BY <1>1, <1>2, <1>3, <1>5, <1>6

\* the units of one batch in all variants of an audit
BatchUnits(a, b) ==
    Each([i \in DOMAIN Audits[a].variants |-> VariantUnits(a, Audits[a].variants[i], Batches[b])])
BatchBox(a, b) == {r \in Rows : r.audit = a /\ r.sample \in Members(Batches[b])}

\* of a batch
LEMMA BatchUnitsFit ==
    ASSUME NEW a \in 1..Len(Audits), NEW b \in 1..Len(Batches)
    PROVE  UnitSeq(BatchUnits(a, b)) /\ RowsOf(BatchUnits(a, b)) \subseteq BatchBox(a, b)
<1> DEFINE vs == Audits[a].variants
<1> DEFINE n == Len(vs)
<1> DEFINE units(i) == VariantUnits(a, vs[i], Batches[b])
<1> DEFINE F == [i \in DOMAIN vs |-> units(i)]
<1> DEFINE D == [i \in 1..n |-> Box(a, vs[i], Members(Batches[b]), 0..Controls)]
<1>1. /\ n \in Nat /\ DOMAIN vs = 1..n
      /\ \A i \in 1..n : vs[i] \in Variants
      /\ \A i, j \in 1..n : vs[i] = vs[j] => i = j
  BY VariantFacts
<1>2. BatchUnits(a, b) = Each(F)
  BY DEF BatchUnits
<1> HIDE DEF vs, n
<1>3. Batches[b] \in Seq(Samples) /\ Distinct(Batches[b])
  BY BatchFacts DEF Distinct
<1>4. ASSUME NEW i \in 1..n
      PROVE  UnitSeq(units(i)) /\ RowsOf(units(i)) \subseteq D[i] /\ units(i) \in Seq(Seq(Rows))
  <2>1. /\ UnitSeq(units(i))
        /\ RowsOf(units(i)) \subseteq Box(a, vs[i], Members(Batches[b]), 0..Controls)
    BY <1>1, <1>3, VariantUnitsFit
  <2> QED BY <2>1 DEF UnitSeq
<1> HIDE DEF units
<1>5. F \in [1..n -> Seq(Seq(Rows))] /\ \A i \in 1..n : F[i] = units(i)
  BY <1>1, <1>4
<1>6. ASSUME NEW i \in 1..n, NEW j \in 1..n, i # j
      PROVE  D[i] \cap D[j] = {}
  BY <1>1, <1>6 DEF Box
<1>7. ASSUME NEW i \in 1..n
      PROVE  D[i] \subseteq BatchBox(a, b)
  BY DEF Box, BatchBox
<1> HIDE DEF F, D
<1>8. UnitSeq(Each(F)) /\ Within(RowsOf(Each(F)), D, n)
  <2>1. \A i \in 1..n : UnitSeq(F[i]) /\ RowsOf(F[i]) \subseteq D[i]
    BY <1>4, <1>5
  <2> QED BY <1>1, <1>5, <1>6, <2>1, JoinBoxes
<1> QED BY <1>2, <1>7, <1>8 DEF Within

AuditUnits(a) == Each([b \in DOMAIN Batches |-> BatchUnits(a, b)])

\* of an audit
LEMMA AuditUnitsFit ==
    ASSUME NEW a \in 1..Len(Audits)
    PROVE  UnitSeq(AuditUnits(a)) /\ \A r \in RowsOf(AuditUnits(a)) : r.audit = a
<1> DEFINE n == Len(Batches)
<1> DEFINE F == [b \in DOMAIN Batches |-> BatchUnits(a, b)]
<1> DEFINE D == [b \in 1..n |-> BatchBox(a, b)]
<1>1. n \in Nat /\ DOMAIN Batches = 1..n
  BY AuditFacts
<1>2. AuditUnits(a) = Each(F)
  BY DEF AuditUnits
<1>3. ASSUME NEW b \in 1..n
      PROVE  /\ UnitSeq(BatchUnits(a, b)) /\ RowsOf(BatchUnits(a, b)) \subseteq D[b]
             /\ BatchUnits(a, b) \in Seq(Seq(Rows))
  BY BatchUnitsFit DEF UnitSeq
<1>4. ASSUME NEW b \in 1..n, NEW c \in 1..n, b # c, NEW r \in D[b], r \in D[c]
      PROVE  FALSE
  <2>1. r.sample \in Members(Batches[b]) /\ r.sample \in Members(Batches[c])
    BY <1>4 DEF BatchBox
  <2>2. PICK i \in 1..Len(Batches[b]) : r.sample = Batches[b][i]
    BY <2>1 DEF Members
  <2>3. PICK j \in 1..Len(Batches[c]) : r.sample = Batches[c][j]
    BY <2>1 DEF Members
  <2> QED BY <1>4, <2>2, <2>3, BatchFacts
<1>5. \A b, c \in 1..n : b # c => D[b] \cap D[c] = {}
  BY <1>4
<1>6. \A b \in 1..n : \A r \in D[b] : r.audit = a
  BY DEF BatchBox
<1> HIDE DEF n
<1>7. F \in [1..n -> Seq(Seq(Rows))] /\ \A b \in 1..n : F[b] = BatchUnits(a, b)
  BY <1>1, <1>3
<1> HIDE DEF F, D
<1>8. UnitSeq(Each(F)) /\ Within(RowsOf(Each(F)), D, n)
  <2>1. \A b \in 1..n : UnitSeq(F[b]) /\ RowsOf(F[b]) \subseteq D[b]
    BY <1>3, <1>7
  <2> QED BY <1>1, <1>5, <1>7, <2>1, JoinBoxes
<1> QED BY <1>2, <1>6, <1>8 DEF Within

\* the plan of the shortcut workflow repeats no row
LEMMA ShortcutFits == UnitSeq(ShortcutPlan)
<1> DEFINE n == Len(Audits)
<1> DEFINE F == [a \in DOMAIN Audits |-> AuditUnits(a)]
<1> DEFINE D == [a \in 1..n |-> {r \in Rows : r.audit = a}]
<1>1. n \in Nat /\ DOMAIN Audits = 1..n
  BY AuditFacts
<1>2. ShortcutPlan = Each(F)
  BY DEF ShortcutPlan, ShortcutUnits, AuditUnits, BatchUnits, VariantUnits, ControlUnits
<1>3. ASSUME NEW us, UnitSeq(us)
      PROVE  RowsOf(us) \subseteq Rows
  <2>1. \A i \in 1..Len(us) : us[i] \in Seq(Rows)
    BY <1>3, ElementOfSeq DEF UnitSeq
  <2> QED BY <2>1, MembersType DEF RowsOf
<1>4. ASSUME NEW a \in 1..n
      PROVE  /\ UnitSeq(AuditUnits(a)) /\ AuditUnits(a) \in Seq(Seq(Rows))
             /\ RowsOf(AuditUnits(a)) \subseteq D[a]
  <2>1. UnitSeq(AuditUnits(a)) /\ \A r \in RowsOf(AuditUnits(a)) : r.audit = a
    BY AuditUnitsFit
  <2>2. RowsOf(AuditUnits(a)) \subseteq Rows
    BY <1>3, <2>1
  <2> QED BY <2>1, <2>2 DEF UnitSeq
<1>5. \A a, b \in 1..n : a # b => D[a] \cap D[b] = {}
  OBVIOUS
<1> HIDE DEF n
<1>6. F \in [1..n -> Seq(Seq(Rows))] /\ \A a \in 1..n : F[a] = AuditUnits(a)
  BY <1>1, <1>4
<1> HIDE DEF F, D
<1>7. \A a \in 1..n : UnitSeq(F[a]) /\ RowsOf(F[a]) \subseteq D[a]
  BY <1>4, <1>6
<1> QED BY <1>1, <1>2, <1>5, <1>6, <1>7, JoinBoxes

\* all batches together hold each sample once
LEMMA AllSamples ==
    Each(Batches) \in Seq(Samples) /\ Distinct(Each(Batches))
<1> DEFINE R == {pair \in Samples \X Samples : pair[1] # pair[2]}
<1>1. Batches \in Seq(Seq(Samples))
  BY InputAssumption
<1>2. ASSUME NEW b \in 1..Len(Batches), NEW i \in 1..Len(Batches[b])
      PROVE  Batches[b][i] \in Samples
  BY BatchFacts, ElementOfSeq
<1>3. ASSUME NEW b \in 1..Len(Batches)
      PROVE  Pairwise(R, Batches[b])
  <2> SUFFICES ASSUME NEW p \in 1..Len(Batches[b]), NEW q \in 1..Len(Batches[b]), p # q
               PROVE  <<Batches[b][p], Batches[b][q]>> \in R
    BY DEF Pairwise
  <2>1. Batches[b][p] # Batches[b][q]
    BY BatchFacts
  <2> QED BY <1>2, <2>1
<1>4. ASSUME NEW b \in 1..Len(Batches), NEW c \in 1..Len(Batches), b # c,
             NEW x \in Members(Batches[b]), NEW y \in Members(Batches[c])
      PROVE  <<x, y>> \in R
  <2>1. PICK i \in 1..Len(Batches[b]) : x = Batches[b][i]
    BY DEF Members
  <2>2. PICK j \in 1..Len(Batches[c]) : y = Batches[c][j]
    BY DEF Members
  <2>3. x # y
    BY <1>4, <2>1, <2>2, BatchFacts
  <2> QED BY <1>2, <2>1, <2>2, <2>3
<1> HIDE DEF R
<1>5. Each(Batches) \in Seq(Samples) /\ Pairwise(R, Each(Batches))
  <2>1. Each(Batches) = FlattenSeq(Batches)
    BY <1>1, EachFlattens
  <2>2. \A b \in 1..Len(Batches) : Pairwise(R, Batches[b])
    BY <1>3
  <2>3. \A b, c \in 1..Len(Batches) : b # c =>
           \A x \in Members(Batches[b]), y \in Members(Batches[c]) : <<x, y>> \in R
    BY <1>4
  <2>4. FlattenSeq(Batches) \in Seq(Samples) /\ Pairwise(R, FlattenSeq(Batches))
    BY <1>1, <2>2, <2>3, Flattened
  <2> QED BY <2>1, <2>4
<1>6. \A x, y : <<x, y>> \in R => x # y
  BY DEF R
<1> QED BY <1>5, <1>6 DEF Pairwise, Distinct

SampleControls(v, s) ==
    Each([j \in DOMAIN Cells |-> [k \in 1..Controls |-> Key(1, v, s, Cells[j], k)]])

\* the rows of a sample and its controls differ
LEMMA SampleControlsFit ==
    ASSUME NEW v \in Variants, NEW s \in Samples
    PROVE  /\ SampleControls(v, s) \in Seq(Rows) /\ Pairwise(Different, SampleControls(v, s))
           /\ Members(SampleControls(v, s)) \subseteq Box(1, v, {s}, 1..Controls)
<1> DEFINE key(j, k) == Key(1, v, s, Cells[j], k)
<1> DEFINE line(j) == [k \in 1..Controls |-> key(j, k)]
<1> DEFINE F == [j \in DOMAIN Cells |-> line(j)]
<1>1. ASSUME NEW j \in 1..Len(Cells), NEW k \in 1..Controls
      PROVE  /\ key(j, k) \in Box(1, v, {s}, 1..Controls) /\ key(j, k) \in Rows
             /\ key(j, k).cell = Cells[j] /\ key(j, k).control = k
  <2>1. Cells[j] \in Range(Cells) /\ k \in 0..Controls /\ 1 \in 1..Len(Audits)
    BY AuditFacts
  <2> QED BY <2>1, KeyFacts DEF Box
<1> HIDE DEF key
<1>2. ASSUME NEW j \in 1..Len(Cells)
      PROVE  /\ line(j) \in Seq(Rows) /\ Len(line(j)) = Controls
             /\ \A k \in 1..Controls : line(j)[k] = key(j, k)
  <2>1. line(j) \in [1..Controls -> Rows] /\ \A k \in 1..Controls : line(j)[k] = key(j, k)
    BY <1>1
  <2> HIDE DEF line
  <2>2. line(j) \in Seq(Rows) /\ Len(line(j)) = Controls
    BY <2>1, FunctionAsSeq, AuditFacts
  <2> QED BY <2>1, <2>2
<1> HIDE DEF line
<1>3. F \in [1..Len(Cells) -> Seq(Rows)] /\ \A j \in 1..Len(Cells) : F[j] = line(j)
  BY <1>2, AuditFacts
<1>4. SampleControls(v, s) = Each(F)
  BY DEF SampleControls, line, key
<1> HIDE DEF F
<1>5. F \in Seq(Seq(Rows)) /\ Len(F) = Len(Cells)
  BY <1>3, FunctionAsSeq, AuditFacts
<1>6. \A j \in 1..Len(F) : Pairwise(Different, F[j])
  <2> SUFFICES ASSUME NEW j \in 1..Len(F), NEW p \in 1..Len(F[j]), NEW q \in 1..Len(F[j]), p # q
               PROVE  <<F[j][p], F[j][q]>> \in Different
    BY DEF Pairwise
  <2>1. j \in 1..Len(Cells) /\ p \in 1..Controls /\ q \in 1..Controls
    BY <1>2, <1>3, <1>5
  <2>2. F[j][p] = key(j, p) /\ F[j][q] = key(j, q)
    BY <1>2, <1>3, <2>1
  <2>3. key(j, p) \in Rows /\ key(j, q) \in Rows /\ key(j, p) # key(j, q)
    BY <1>1, <2>1
  <2> QED BY <2>2, <2>3 DEF Different
<1>7. ASSUME NEW j \in 1..Len(F), NEW r \in Members(F[j])
      PROVE  r \in Box(1, v, {s}, 1..Controls) /\ r.cell = Cells[j]
  <2>1. j \in 1..Len(Cells) /\ F[j] = line(j)
    BY <1>3, <1>5
  <2>2. PICK k \in 1..Controls : r = key(j, k)
    BY <1>2, <1>7, <2>1 DEF Members
  <2> QED BY <1>1, <2>1, <2>2
<1>8. \A i, j \in 1..Len(F) : i # j => Members(F[i]) \cap Members(F[j]) = {}
  <2> SUFFICES ASSUME NEW i \in 1..Len(F), NEW j \in 1..Len(F), i # j,
                      NEW r \in Members(F[i]), r \in Members(F[j])
               PROVE  FALSE
    OBVIOUS
  <2>1. Cells[i] = Cells[j]
    BY <1>7
  <2> QED BY <1>5, <2>1, AuditFacts
<1>9. RowsOf(F) \subseteq Box(1, v, {s}, 1..Controls)
  BY <1>7 DEF RowsOf
<1>10. /\ Each(F) \in Seq(Rows) /\ Pairwise(Different, Each(F))
       /\ Members(Each(F)) = RowsOf(F)
  BY <1>5, <1>6, <1>8, JoinRows
<1> QED BY <1>4, <1>9, <1>10

\* the units of one sample in one variant, and in all variants
SampleUnits(v, s) == <<TargetRows(1, v, <<s>>), SampleControls(v, s)>>
SampleVariants(s) ==
    Each([j \in DOMAIN Audits[1].variants |-> SampleUnits(Audits[1].variants[j], s)])
SampleBox(s) == {r \in Rows : r.sample = s}

\* the units of a sample and a variant share no row
LEMMA SampleUnitsFit ==
    ASSUME NEW v \in Variants, NEW s \in Samples
    PROVE  /\ UnitSeq(SampleUnits(v, s))
           /\ RowsOf(SampleUnits(v, s)) \subseteq Box(1, v, {s}, 0..Controls)
<1> DEFINE targets == TargetRows(1, v, <<s>>)
<1> DEFINE controls == SampleControls(v, s)
<1> DEFINE us == SampleUnits(v, s)
<1>1. <<s>> \in Seq(Samples) /\ Distinct(<<s>>) /\ Members(<<s>>) = {s}
  BY MembersOfOne DEF Distinct
<1>2. /\ targets \in Seq(Rows) /\ Pairwise(Different, targets)
      /\ Members(targets) \subseteq Box(1, v, {s}, {0})
  BY <1>1, TargetsFit, AuditFacts
<1>3. /\ controls \in Seq(Rows) /\ Pairwise(Different, controls)
      /\ Members(controls) \subseteq Box(1, v, {s}, 1..Controls)
  BY SampleControlsFit
<1>4. us = <<targets, controls>>
  BY DEF SampleUnits
<1> HIDE DEF targets, controls, us
<1>5. us \in Seq(Seq(Rows)) /\ Len(us) = 2 /\ us[1] = targets /\ us[2] = controls
  BY <1>2, <1>3, <1>4, TwoMembers
<1>6. Members(targets) \cap Members(controls) = {}
  <2> SUFFICES ASSUME NEW r \in Members(targets), r \in Members(controls) PROVE FALSE
    OBVIOUS
  <2>1. r.control \in {0} /\ r.control \in 1..Controls
    BY <1>2, <1>3 DEF Box
  <2> QED BY <2>1, AuditFacts
<1>7. ASSUME NEW i \in 1..Len(us)
      PROVE  \/ i = 1 /\ us[i] = targets
             \/ i = 2 /\ us[i] = controls
  BY <1>5
<1>8. UnitSeq(us)
  <2>1. \A i \in 1..Len(us) : Pairwise(Different, us[i])
    BY <1>2, <1>3, <1>7
  <2>2. \A i, j \in 1..Len(us) : i # j => Members(us[i]) \cap Members(us[j]) = {}
    BY <1>6, <1>7
  <2> QED BY <1>5, <2>1, <2>2, AsUnits
<1>9. /\ Box(1, v, {s}, {0}) \subseteq Box(1, v, {s}, 0..Controls)
      /\ Box(1, v, {s}, 1..Controls) \subseteq Box(1, v, {s}, 0..Controls)
  BY AuditFacts DEF Box
<1>10. RowsOf(us) \subseteq Members(targets) \cup Members(controls)
  BY <1>7 DEF RowsOf
<1> QED BY <1>2, <1>3, <1>8, <1>9, <1>10 DEF us

\* nor do the units of a sample
LEMMA SampleVariantsFit ==
    ASSUME NEW s \in Samples
    PROVE  UnitSeq(SampleVariants(s)) /\ RowsOf(SampleVariants(s)) \subseteq SampleBox(s)
<1> DEFINE vs == Audits[1].variants
<1> DEFINE n == Len(vs)
<1> DEFINE units(i) == SampleUnits(vs[i], s)
<1> DEFINE F == [i \in DOMAIN vs |-> units(i)]
<1> DEFINE D == [i \in 1..n |-> Box(1, vs[i], {s}, 0..Controls)]
<1>1. /\ n \in Nat /\ DOMAIN vs = 1..n
      /\ \A i \in 1..n : vs[i] \in Variants
      /\ \A i, j \in 1..n : vs[i] = vs[j] => i = j
  BY VariantFacts, AuditFacts
<1>2. SampleVariants(s) = Each(F)
  BY DEF SampleVariants
<1> HIDE DEF vs, n
<1>3. ASSUME NEW i \in 1..n
      PROVE  UnitSeq(units(i)) /\ RowsOf(units(i)) \subseteq D[i] /\ units(i) \in Seq(Seq(Rows))
  <2>1. UnitSeq(units(i)) /\ RowsOf(units(i)) \subseteq Box(1, vs[i], {s}, 0..Controls)
    BY <1>1, SampleUnitsFit
  <2> QED BY <2>1 DEF UnitSeq
<1> HIDE DEF units
<1>4. F \in [1..n -> Seq(Seq(Rows))] /\ \A i \in 1..n : F[i] = units(i)
  BY <1>1, <1>3
<1>5. ASSUME NEW i \in 1..n, NEW j \in 1..n, i # j
      PROVE  D[i] \cap D[j] = {}
  BY <1>1, <1>5 DEF Box
<1>6. ASSUME NEW i \in 1..n
      PROVE  D[i] \subseteq SampleBox(s)
  BY DEF Box, SampleBox
<1> HIDE DEF F, D
<1>7. UnitSeq(Each(F)) /\ Within(RowsOf(Each(F)), D, n)
  <2>1. \A i \in 1..n : UnitSeq(F[i]) /\ RowsOf(F[i]) \subseteq D[i]
    BY <1>3, <1>4
  <2> QED BY <1>1, <1>4, <1>5, <2>1, JoinBoxes
<1> QED BY <1>2, <1>6, <1>7 DEF Within

\* the plan of the ImageNet workflow repeats no row
LEMMA ImageNetFits == UnitSeq(ImageNetPlan)
<1> DEFINE samples == Each(Batches)
<1> DEFINE n == Len(samples)
<1> DEFINE units(i) == SampleVariants(samples[i])
<1> DEFINE F == [i \in DOMAIN samples |-> units(i)]
<1> DEFINE D == [i \in 1..n |-> SampleBox(samples[i])]
<1>1. ImageNetPlan = Each(F)
  BY DEF ImageNetPlan, ImageNetUnits, SampleVariants, SampleUnits, SampleControls
<1>2. samples \in Seq(Samples) /\ Distinct(samples)
  BY AllSamples
<1> HIDE DEF samples
<1>3. n \in Nat /\ DOMAIN samples = 1..n /\ \A i \in 1..n : samples[i] \in Samples
  BY <1>2, LenProperties, ElementOfSeq
<1>4. \A i, j \in 1..n : samples[i] = samples[j] => i = j
  BY <1>2 DEF Distinct
<1> HIDE DEF n
<1>5. ASSUME NEW i \in 1..n
      PROVE  UnitSeq(units(i)) /\ RowsOf(units(i)) \subseteq D[i] /\ units(i) \in Seq(Seq(Rows))
  <2>1. UnitSeq(units(i)) /\ RowsOf(units(i)) \subseteq SampleBox(samples[i])
    BY <1>3, SampleVariantsFit
  <2> QED BY <2>1 DEF UnitSeq
<1> HIDE DEF units
<1>6. F \in [1..n -> Seq(Seq(Rows))] /\ \A i \in 1..n : F[i] = units(i)
  BY <1>3, <1>5
<1>7. ASSUME NEW i \in 1..n, NEW j \in 1..n, i # j
      PROVE  D[i] \cap D[j] = {}
  BY <1>4, <1>7 DEF SampleBox
<1> HIDE DEF F, D
<1>8. \A i \in 1..n : UnitSeq(F[i]) /\ RowsOf(F[i]) \subseteq D[i]
  BY <1>5, <1>6
<1> QED BY <1>1, <1>3, <1>6, <1>7, <1>8, JoinBoxes

-----------------------------------------------------------------------------
(* What the invariants need of the plan.                                   *)

\* a sequence has at most as many members as items
LEMMA MembersAreFinite ==
    ASSUME NEW A, NEW s \in Seq(A)
    PROVE  /\ IsFiniteSet(Members(s)) /\ Cardinality(Members(s)) \in Nat
           /\ Cardinality(Members(s)) <= Len(s)
           /\ Distinct(s) => Cardinality(Members(s)) = Len(s)
<1>1. Len(s) \in Nat /\ s \in [1..Len(s) -> Members(s)]
  BY LenProperties, ElementOfSeq DEF Members
<1>2. s \in Surjection(1..Len(s), Members(s))
  BY <1>1 DEF Surjection, Members
<1>3. IsFiniteSet(1..Len(s)) /\ Cardinality(1..Len(s)) = Len(s)
  BY <1>1, FS_Interval
<1>4. /\ IsFiniteSet(Members(s)) /\ Cardinality(Members(s)) <= Len(s)
      /\ Cardinality(Members(s)) = Len(s) <=> s \in Injection(1..Len(s), Members(s))
  BY <1>2, <1>3, FS_Surjection
<1>5. Distinct(s) => s \in Injection(1..Len(s), Members(s))
  BY <1>1 DEF Distinct, Injection, IsInjective
<1> QED BY <1>4, <1>5, FS_CardinalityType

\* the plan of either workflow repeats no row
LEMMA PlanFits ==
    ASSUME workflow \in {"shortcut", "imagenet"}
    PROVE  UnitSeq(Units)
BY ShortcutFits, ImageNetFits DEF Units

\* The units of the plan are sequences of rows without duplicates, they share
\* no row, and together they are the rows that analyze expects.
LEMMA UnitFacts ==
    ASSUME workflow \in {"shortcut", "imagenet"}
    PROVE  /\ Len(Units) \in Nat
           /\ \A i \in 1..Len(Units) :
                 /\ Units[i] \in Seq(Rows) /\ Distinct(Units[i]) /\ Range(Units[i]) = Members(Units[i])
                 /\ Members(Units[i]) \subseteq Expected
           /\ \A i, j \in 1..Len(Units) : i # j => Members(Units[i]) \cap Members(Units[j]) = {}
           /\ \A r \in Expected : \E i \in 1..Len(Units) : r \in Members(Units[i])
           /\ Expected \subseteq Rows /\ IsFiniteSet(Expected)
<1>1. UnitSeq(Units)
  BY PlanFits
<1>2. Units \in Seq(Seq(Rows)) /\ Len(Units) \in Nat /\ DOMAIN Units = 1..Len(Units)
  BY <1>1, LenProperties DEF UnitSeq
<1>3. ASSUME NEW i \in 1..Len(Units)
      PROVE  Units[i] \in Seq(Rows) /\ Distinct(Units[i]) /\ Range(Units[i]) = Members(Units[i])
  <2>1. Units[i] \in Seq(Rows)
    BY <1>2, ElementOfSeq
  <2>2. Pairwise(Different, Units[i])
    BY <1>1 DEF UnitSeq
  <2>3. \A x, y : <<x, y>> \in Different => x # y
    BY DEF Different
  <2>4. Distinct(Units[i])
    BY <2>2, <2>3 DEF Pairwise, Distinct
  <2> QED BY <2>1, <2>4, RangeIsMembers
<1>4. Expected = RowsOf(Units)
  <2>1. ASSUME NEW r \in Expected
        PROVE  r \in RowsOf(Units)
    <3>1. PICK i \in 1..Len(Units) : r \in Range(Units[i])
      BY <1>2, <2>1 DEF Expected
    <3> QED BY <1>3, <3>1 DEF RowsOf
  <2>2. ASSUME NEW r \in RowsOf(Units)
        PROVE  r \in Expected
    <3>1. PICK i \in 1..Len(Units) : r \in Members(Units[i])
      BY <2>2 DEF RowsOf
    <3> QED BY <1>2, <1>3, <3>1 DEF Expected
  <2> QED BY <2>1, <2>2
<1>5. ASSUME NEW i \in 1..Len(Units), NEW j \in 1..Len(Units), i # j
      PROVE  Members(Units[i]) \cap Members(Units[j]) = {}
  <2>1. <<Units[i], Units[j]>> \in Apart
    BY <1>1, <1>5 DEF UnitSeq, Pairwise
  <2> QED BY <2>1 DEF Apart
<1>6. Expected \subseteq Rows
  BY <1>3, <1>4, MembersType DEF RowsOf
<1>7. IsFiniteSet(Expected)
  <2>1. IsFiniteSet(1..Len(Units))
    BY <1>2, FS_Interval
  <2> DEFINE f == [i \in 1..Len(Units) |-> Members(Units[i])]
  <2> DEFINE T == {Members(Units[i]) : i \in 1..Len(Units)}
  <2>2. f \in Surjection(1..Len(Units), T)
    BY DEF Surjection
  <2> HIDE DEF f
  <2>3. IsFiniteSet(T)
    BY <2>1, <2>2, FS_Surjection
  <2>4. \A S \in T : IsFiniteSet(S)
    BY <1>3, MembersAreFinite
  <2> HIDE DEF T
  <2>5. IsFiniteSet(UNION T)
    BY <2>3, <2>4, FS_UNION
  <2> QED BY <1>4, <2>5 DEF RowsOf, T
<1> QED BY <1>2, <1>3, <1>4, <1>5, <1>6, <1>7 DEF RowsOf

-----------------------------------------------------------------------------
(* The inductive invariant.                                                *)

Pcs == {"idle", "open", "refresh", "units", "part", "manifest", "accuracy", "stopped", "complete",
        "analyze", "report"}
Commands == {"audit", "all", "analyze", "report"}
Calls == [pc: Pcs, command: Commands \cup {None}, limit: Nat \cup {None}, at: Nat,
          then: {None, "units", "stopped", "accuracy", "complete"}, stopped: BOOLEAN,
          outcome: {None, "error", "incomplete", "complete", "analyzed", "reported", "killed"}]
Stores == [keys: SUBSET Expected, pending: SUBSET Expected, start: Nat]

\* where an invocation measures, and where its store is loaded
Recording == {"units", "part", "manifest", "accuracy", "stopped"}
Loaded == Recording \cup {"complete"}
Written == manifest \notin {None, Torn}
\* S has all rows of a unit or none
Tidy(S, units) ==
    \A i \in 1..Len(units) : Members(units[i]) \subseteq S \/ Members(units[i]) \cap S = {}
Accurate == accuracy = TRUE \/ (workflow = "shortcut" /\ accuracy = Torn)

DiskTyped ==
    /\ workflow \in {"shortcut", "imagenet"} /\ inputs \in Nat /\ limited \in 0..2
    /\ parts \in Seq(Parts \cup {Torn})
    /\ \A p \in Range(parts) \ {Torn} : p.rows \subseteq Expected
    /\ manifest \in {None, Torn} \cup Manifests /\ accuracy \in {None, Torn, TRUE}
\* an output belongs to the inputs that its manifest names
Owned ==
    /\ manifest = None => parts = <<>>
    /\ Written => \A p \in Range(parts) \ {Torn} : p.identity = manifest.identity
StoredOnce ==
    \A i, j \in DOMAIN parts :
        i # j /\ parts[i] # Torn /\ parts[j] # Torn => parts[i].rows \cap parts[j].rows = {}
Counted ==
    Written => /\ manifest.rows <= Cardinality(OnDisk) /\ manifest.parts <= Len(parts)
               /\ Completed => /\ Readable
                               /\ manifest.rows = Cardinality(OnDisk) /\ manifest.parts = Len(parts)
Finished == Completed => Accurate /\ (limited < 2 => OnDisk = Expected)
DiskInv ==
    /\ DiskTyped /\ Owned /\ StoredOnce /\ Counted /\ Finished /\ ReportsCoverTheAudit
    /\ limited = 0 => Tidy(OnDisk, Units)

CallTyped == call \in Calls /\ store \in Stores /\ store.pending \subseteq store.keys
Belongs ==
    /\ call.pc \in Loaded \cup {"refresh"} => Written /\ manifest.identity = inputs
    /\ call.pc \in Recording => manifest.status = "incomplete"
\* memory is the disk and what is pending
Mirrored ==
    call.pc \in Loaded =>
       /\ Readable
       /\ call.pc = "manifest" => store.keys = OnDisk
       /\ call.pc # "manifest" => /\ store.keys = OnDisk \cup store.pending
                                  /\ store.pending \cap OnDisk = {}
       /\ call.pc \in {"complete", "stopped"} => store.pending = {}
Limited ==
    call.limit # None /\ call.pc \in Recording =>
       /\ RowCount - store.start <= call.limit
       /\ call.stopped => RowCount - store.start = call.limit
\* the order of an invocation's steps
Flushing == call.pc \in {"part", "manifest"}
Sequenced ==
    /\ call.pc \in {"open", "refresh", "units", "accuracy", "complete"} => ~call.stopped
    /\ Flushing => /\ call.then \in {"units", "stopped", "accuracy", "complete"}
                   /\ call.stopped <=> call.then = "stopped"
    /\ call.pc = "stopped" => call.stopped
    /\ call.pc \in Recording => call.at > 0
    /\ call.pc = "accuracy" \/ (Flushing /\ call.then \in {"accuracy", "complete"})
          => call.at > Len(Units)
    /\ call.pc = "complete" \/ (Flushing /\ call.then = "complete") => Accurate
\* no limit has cut a unit on this output
Uncut == limited = 0 \/ (limited = 1 /\ call.limit # None /\ ~call.stopped)
Covered ==
    /\ limited = 0 => call.limit = None
    /\ Uncut => Tidy(OnDisk, Units) /\ (call.pc \in Loaded => Tidy(store.keys, Units))
    /\ limited < 2 /\ call.pc \in Recording /\ ~call.stopped =>
          \A i \in 1..Len(Units) : i < call.at => Members(Units[i]) \subseteq store.keys
    /\ limited < 2 /\ call.pc = "complete" => OnDisk = Expected
CallInv ==
    /\ CallTyped /\ Belongs /\ Mirrored /\ Limited /\ Sequenced /\ Covered

IInv == DiskInv /\ CallInv

-----------------------------------------------------------------------------
(* What a step leaves alone.                                               *)

\* the plan depends on the workflow only
LEMMA SamePlan ==
    ASSUME workflow' = workflow
    PROVE  Units' = Units /\ Expected' = Expected
BY DEF Units, Expected

\* what is stored depends on the parts only
LEMMA SameParts ==
    ASSUME parts' = parts
    PROVE  OnDisk' = OnDisk /\ Readable' = Readable
BY DEF OnDisk, Readable

\* there are finitely many rows
LEMMA FinitePlan ==
    ASSUME DiskTyped
    PROVE  /\ OnDisk \subseteq Expected /\ IsFiniteSet(OnDisk) /\ Cardinality(OnDisk) \in Nat
           /\ \A S \in SUBSET Expected : IsFiniteSet(S) /\ Cardinality(S) \in Nat
<1>1. OnDisk \subseteq Expected
  BY DEF DiskTyped, OnDisk
<1>2. IsFiniteSet(Expected)
  BY UnitFacts DEF DiskTyped
<1>3. \A S \in SUBSET Expected : IsFiniteSet(S) /\ Cardinality(S) \in Nat
  BY <1>2, FS_Subset, FS_CardinalityType
<1> QED BY <1>1, <1>3

\* the disk is left alone, and no limited run is forgotten
LEMMA DiskStays ==
    ASSUME DiskInv, UNCHANGED <<workflow, disk>>, inputs' \in Nat, limited' \in 0..2,
           limited <= limited'
    PROVE  DiskInv'
<1> USE DEF disk
<1>1. /\ Units' = Units /\ Expected' = Expected /\ OnDisk' = OnDisk /\ Readable' = Readable
      /\ (limited' < 2 => limited < 2) /\ (limited' = 0 => limited = 0)
  BY SamePlan, SameParts DEF DiskInv, DiskTyped
<1>2. DiskTyped'
  BY <1>1 DEF DiskInv, DiskTyped
<1>3. Owned' /\ StoredOnce'
  BY DEF DiskInv, Owned, StoredOnce, Written
<1>4. Counted'
  BY <1>1 DEF DiskInv, Counted, Written, Completed
<1>5. Finished'
  BY <1>1 DEF DiskInv, Finished, Completed, Accurate
<1>6. ReportsCoverTheAudit'
  BY <1>1 DEF DiskInv, ReportsCoverTheAudit
<1>7. (limited = 0 => Tidy(OnDisk, Units))'
  BY <1>1 DEF DiskInv
<1> QED BY <1>2, <1>3, <1>4, <1>5, <1>6, <1>7 DEF DiskInv

\* an invocation that ends leaves nothing in memory
LEMMA Ended ==
    ASSUME DiskInv', NEW outcome, End(outcome),
           outcome \in {"error", "incomplete", "complete", "analyzed", "reported", "killed"}
    PROVE  CallInv'
<1>1. /\ call'.pc = "idle" /\ call'.stopped = FALSE /\ call'.limit = None /\ call' \in Calls
      /\ store' = NoStore
  BY DEF End, NoCall, Calls, Pcs
<1>2. CallTyped'
  BY <1>1 DEF CallTyped, Stores, NoStore
<1>3. Belongs' /\ Mirrored' /\ Limited' /\ Sequenced'
  BY <1>1 DEF Belongs, Mirrored, Limited, Sequenced, Flushing, Recording, Loaded
<1>4. Covered'
  <2>1. ~(call'.pc \in Loaded) /\ ~(call'.pc \in Recording) /\ call'.pc # "complete"
    BY <1>1 DEF Loaded, Recording
  <2>2. Uncut' => limited' = 0
    BY <1>1 DEF Uncut
  <2> QED BY <1>1, <2>1, <2>2 DEF Covered, DiskInv
<1> QED BY <1>2, <1>3, <1>4 DEF CallInv

\* the workflow starts in the invariant
LEMMA InitInv == ASSUME Init PROVE IInv
<1> USE DEF Init
<1>1. /\ OnDisk = {} /\ DOMAIN parts = {} /\ Len(parts) = 0 /\ Range(parts) = {}
  BY DEF OnDisk, Range
<1>2. workflow \in {"shortcut", "imagenet"} /\ ~Written /\ ~Completed
  BY DEF Written, Completed
<1>3. DiskTyped
  BY <1>1, <1>2 DEF DiskTyped
<1>4. Owned /\ StoredOnce /\ Counted /\ Finished
  BY <1>1, <1>2 DEF Owned, StoredOnce, Counted, Finished
<1>5. ReportsCoverTheAudit
  BY DEF ReportsCoverTheAudit
<1>6. Tidy(OnDisk, Units)
  BY <1>1 DEF Tidy
<1>7. /\ call.pc = "idle" /\ call.stopped = FALSE /\ call.limit = None /\ call \in Calls
  BY DEF NoCall, Calls, Pcs
<1>8. CallTyped
  BY <1>7 DEF CallTyped, Stores, NoStore
<1>9. Belongs /\ Mirrored /\ Limited /\ Sequenced
  BY <1>7 DEF Belongs, Mirrored, Limited, Sequenced, Flushing, Recording, Loaded
<1>10. Covered
  BY <1>6, <1>7 DEF Covered, Loaded, Recording
<1> QED BY <1>3, <1>4, <1>5, <1>6, <1>8, <1>9, <1>10 DEF IInv, DiskInv, CallInv

-----------------------------------------------------------------------------
(* The operations of the store.                                            *)

\* the least of two numbers
LEMMA LessOfTwo ==
    ASSUME NEW m \in Int, NEW n \in Int
    PROVE  Min({m, n}) = IF m <= n THEN m ELSE n
<1> DEFINE least == IF m <= n THEN m ELSE n
<1>1. least \in {m, n} /\ \A k \in {m, n} : least <= k
  OBVIOUS
<1>2. \A k \in {m, n} : (\A l \in {m, n} : k <= l) => k = least
  OBVIOUS
<1> QED BY <1>1, <1>2 DEF Min

\* a part that is written comes after the others
LEMMA PartAdded ==
    ASSUME DiskTyped, NEW x \in Parts \cup {Torn}, parts' = parts \o <<x>>
    PROVE  /\ parts' \in Seq(Parts \cup {Torn}) /\ Len(parts') = Len(parts) + 1
           /\ Len(parts) \in Nat /\ Range(parts') = Range(parts) \cup {x}
           /\ \A i \in DOMAIN parts' : \/ i \in DOMAIN parts /\ parts'[i] = parts[i]
                                       \/ i \notin DOMAIN parts /\ parts'[i] = x
           /\ \A i, j \in DOMAIN parts' : i \notin DOMAIN parts /\ j \notin DOMAIN parts => i = j
           /\ \A i \in DOMAIN parts : parts[i] \in Range(parts)
           /\ Readable' <=> Readable /\ x # Torn
           /\ OnDisk' = IF x = Torn THEN OnDisk ELSE OnDisk \cup x.rows
<1> DEFINE A == Parts \cup {Torn}
<1>1. parts \in Seq(A) /\ <<x>> \in Seq(A) /\ Len(<<x>>) = 1 /\ <<x>>[1] = x
  BY DEF DiskTyped
<1>2. Len(parts) \in Nat /\ DOMAIN parts = 1..Len(parts)
  BY <1>1, LenProperties
<1>3. /\ parts' \in Seq(A) /\ Len(parts') = Len(parts) + 1
      /\ \A i \in 1..Len(parts) + 1 : parts'[i] = IF i <= Len(parts) THEN parts[i]
                                                  ELSE <<x>>[i - Len(parts)]
  BY <1>1, ConcatProperties
<1>4. DOMAIN parts' = 1..Len(parts) + 1
  BY <1>3, LenProperties
<1>5. \A i \in DOMAIN parts' : \/ i \in DOMAIN parts /\ parts'[i] = parts[i]
                               \/ i = Len(parts) + 1 /\ parts'[i] = x
  BY <1>1, <1>2, <1>3, <1>4
<1>6. /\ Len(parts) + 1 \in DOMAIN parts' /\ Len(parts) + 1 \notin DOMAIN parts
      /\ parts'[Len(parts) + 1] = x
  BY <1>1, <1>2, <1>3, <1>4
<1>7. \A i \in DOMAIN parts : i \in DOMAIN parts' /\ parts'[i] = parts[i]
  BY <1>2, <1>3, <1>4
<1>8. Range(parts') = Range(parts) \cup {x}
  BY <1>5, <1>6, <1>7 DEF Range
<1>9. Readable' <=> Readable /\ x # Torn
  BY <1>8 DEF Readable
<1>10. OnDisk' = UNION {p.rows : p \in (Range(parts) \cup {x}) \ {Torn}}
  BY <1>8 DEF OnDisk
<1>11. CASE x = Torn
  <2>1. (Range(parts) \cup {x}) \ {Torn} = Range(parts) \ {Torn}
    BY <1>11
  <2>2. OnDisk' = OnDisk
    BY <1>10, <2>1 DEF OnDisk
  <2> QED BY <1>3, <1>2, <1>5, <1>6, <1>8, <1>9, <1>11, <2>2 DEF Range
<1>12. CASE x # Torn
  <2>1. (Range(parts) \cup {x}) \ {Torn} = (Range(parts) \ {Torn}) \cup {x}
    BY <1>12
  <2>2. OnDisk' = OnDisk \cup x.rows
    BY <1>10, <2>1 DEF OnDisk
  <2> QED BY <1>3, <1>2, <1>5, <1>6, <1>8, <1>9, <1>12, <2>2 DEF Range
<1> QED BY <1>11, <1>12

\* the store with the rows N appended
Grown(known, N) ==
    [keys |-> known.keys \cup N, pending |-> known.pending \cup (N \ known.keys),
     start |-> known.start]

\* what a store knows after rows are added to it
LEMMA GrownFields ==
    ASSUME NEW known \in Stores, NEW N, N \subseteq Expected
    PROVE  /\ Grown(known, N) \in Stores /\ Grown(known, N).keys = known.keys \cup N
           /\ Grown(known, N).pending = known.pending \cup (N \ known.keys)
           /\ Grown(known, N).start = known.start
           /\ known.keys \subseteq Expected /\ known.pending \subseteq Expected
           /\ known.start \in Nat /\ Grown(known, {}) = known
<1>1. PICK keys \in SUBSET Expected, pending \in SUBSET Expected, start \in Nat :
        known = [keys |-> keys, pending |-> pending, start |-> start]
  BY DEF Stores
<1>2. known.keys = keys /\ known.pending = pending /\ known.start = start
  BY <1>1
<1>3. Grown(known, N) = [keys |-> keys \cup N, pending |-> pending \cup (N \ keys), start |-> start]
  BY <1>2 DEF Grown
<1>4. Grown(known, N) \in Stores
  BY <1>3 DEF Stores
<1>5. Grown(known, {}) = known
  BY <1>1, <1>2 DEF Grown
<1> QED BY <1>2, <1>3, <1>4, <1>5

\* appending rows adds those that are not known
LEMMA AppendGrows ==
    ASSUME NEW known \in Stores, NEW some \in Seq(Rows)
    PROVE  AppendRows(known, some) = Grown(known, Members(some))
<1>1. Range(some) = Members(some)
  BY RangeIsMembers
<1>2. PICK keys, pending, start : known = [keys |-> keys, pending |-> pending, start |-> start]
  BY DEF Stores
<1>3. known.keys = keys /\ known.pending = pending /\ known.start = start
  BY <1>2
<1>4. AppendRows(known, some)
        = [[keys |-> keys, pending |-> pending, start |-> start] EXCEPT
             !.keys = keys \cup Members(some),
             !.pending = pending \cup (Members(some) \ keys)]
  BY <1>1, <1>2, <1>3 DEF AppendRows
<1>5. AppendRows(known, some) = [keys |-> keys \cup Members(some),
                                 pending |-> pending \cup (Members(some) \ keys), start |-> start]
  BY <1>4
<1> QED BY <1>3, <1>5 DEF Grown

\* the first rows of a unit
LEMMA FirstRows ==
    ASSUME NEW rows \in Seq(Rows), NEW n \in 0..Len(rows)
    PROVE  LET some == SubSeq(rows, 1, n) IN
           /\ some \in Seq(Rows) /\ Members(some) \subseteq Members(rows)
           /\ IsFiniteSet(Members(some)) /\ Cardinality(Members(some)) \in Nat
           /\ Cardinality(Members(some)) <= n
           /\ Distinct(rows) => Cardinality(Members(some)) = n
           /\ n = Len(rows) => Members(some) = Members(rows)
<1> DEFINE some == SubSeq(rows, 1, n)
<1>1. Len(rows) \in Nat
  BY LenProperties
<1>2. 0 \in 0..Len(rows) /\ n \in 0..Len(rows) /\ n - 0 = n /\ 0 + 1 = 1
  BY <1>1
<1>3. /\ SubSeq(rows, 0 + 1, n) \in Seq(Rows) /\ Len(SubSeq(rows, 0 + 1, n)) = n - 0
      /\ \A k \in 1..n - 0 : SubSeq(rows, 0 + 1, n)[k] = rows[0 + k]
      /\ Members(SubSeq(rows, 0 + 1, n)) = {rows[k] : k \in 0 + 1..n}
  BY <1>2, Piece
<1>4. \A k \in 1..n : 0 + k = k /\ k \in 1..Len(rows)
  BY <1>1
<1>5. /\ some \in Seq(Rows) /\ Len(some) = n /\ \A k \in 1..n : some[k] = rows[k]
      /\ Members(some) = {rows[k] : k \in 1..n}
  BY <1>2, <1>3, <1>4
<1> HIDE DEF some
<1>6. Members(some) \subseteq Members(rows)
  BY <1>4, <1>5 DEF Members
<1>7. Distinct(rows) => Distinct(some)
  BY <1>4, <1>5 DEF Distinct
<1>8. n = Len(rows) => Members(some) = Members(rows)
  BY <1>5 DEF Members
<1>9. /\ IsFiniteSet(Members(some)) /\ Cardinality(Members(some)) \in Nat
      /\ Cardinality(Members(some)) <= n
      /\ Distinct(some) => Cardinality(Members(some)) = n
  BY <1>5, MembersAreFinite
<1> QED BY <1>5, <1>6, <1>7, <1>8, <1>9 DEF some

\* What _append_with_limit adds to the rows that are known: at most what the
\* limit leaves, exactly that if it stops, and otherwise all rows of a unit of
\* which none was known.
Appended(result, known, rows, limit, N) ==
    /\ result.store = Grown(known, N) /\ result.stopped \in BOOLEAN
    /\ limit = None => ~result.stopped /\ N = Members(rows)
    /\ limit # None => Cardinality(known.keys \cup N) - known.start <= limit
    /\ result.stopped => Cardinality(known.keys \cup N) - known.start = limit
    /\ ~result.stopped /\ Distinct(rows) /\ Members(rows) \cap known.keys = {}
         => N = Members(rows)

\* the contract of an append under a limit: never more than it leaves, that much if it stops
LEMMA Appending ==
    ASSUME DiskTyped, NEW known \in Stores, NEW rows \in Seq(Rows), Members(rows) \subseteq Expected,
           NEW limit \in Nat \cup {None},
           limit # None => limit \in Nat /\ Cardinality(known.keys) - known.start <= limit
    PROVE  \E N \in SUBSET Members(rows) :
              Appended(AppendWithLimit(known, rows, limit), known, rows, limit, N)
<1> DEFINE result == AppendWithLimit(known, rows, limit)
<1> DEFINE left == limit - (Cardinality(known.keys) - known.start)
<1>1. /\ known.keys \subseteq Expected /\ known.start \in Nat /\ Grown(known, {}) = known
      /\ Grown(known, {}).keys = known.keys
  BY GrownFields
<1>2. Cardinality(known.keys) \in Nat /\ IsFiniteSet(known.keys)
  BY <1>1, FinitePlan
<1>3. CASE limit = None
  <2>1. result = [store |-> Grown(known, Members(rows)), stopped |-> FALSE]
    BY <1>3, AppendGrows DEF AppendWithLimit
  <2>2. result.store = Grown(known, Members(rows)) /\ result.stopped = FALSE
    BY <2>1
  <2> HIDE DEF result
  <2>3. Appended(result, known, rows, limit, Members(rows))
    BY <1>3, <2>2 DEF Appended
  <2> QED BY <2>3 DEF result
<1>4. CASE limit # None /\ left <= 0
  <2>1. result = [store |-> known, stopped |-> TRUE]
    BY <1>4 DEF AppendWithLimit
  <2>2. result.store = known /\ result.stopped = TRUE
    BY <2>1
  <2>3. Cardinality(known.keys) - known.start = limit
    BY <1>1, <1>2, <1>4
  <2>4. known.keys \cup {} = known.keys
    OBVIOUS
  <2> HIDE DEF result
  <2>5. Appended(result, known, rows, limit, {})
    BY <1>1, <1>4, <2>2, <2>3, <2>4 DEF Appended
  <2> QED BY <2>5 DEF result
<1>5. CASE limit # None /\ ~(left <= 0)
  <2> DEFINE n == Min({left, Len(rows)})
  <2> DEFINE some == SubSeq(rows, 1, n)
  <2> DEFINE N == Members(some)
  <2>1. limit \in Nat /\ left \in Nat \ {0} /\ Len(rows) \in Nat
    BY <1>1, <1>2, <1>5, LenProperties
  <2>2. n \in 0..Len(rows) /\ n <= left /\ (n = left \/ n = Len(rows)) /\ n \in Nat
    BY <2>1, LessOfTwo
  <2> HIDE DEF n
  <2>3. /\ some \in Seq(Rows) /\ N \subseteq Members(rows)
        /\ IsFiniteSet(N) /\ Cardinality(N) \in Nat /\ Cardinality(N) <= n
        /\ Distinct(rows) => Cardinality(N) = n
        /\ n = Len(rows) => N = Members(rows)
    BY <2>2, FirstRows
  <2>4. /\ AppendRows(known, some) = Grown(known, N)
        /\ Grown(known, N).keys = known.keys \cup N
    BY <2>3, AppendGrows, GrownFields
  <2>5. result = [store |-> Grown(known, N),
                  stopped |-> Cardinality(known.keys \cup N) - known.start >= limit]
    BY <1>5, <2>4 DEF AppendWithLimit, n
  <2>6. /\ result.store = Grown(known, N)
        /\ result.stopped = (Cardinality(known.keys \cup N) - known.start >= limit)
    BY <2>5
  <2> HIDE DEF N
  <2>7. /\ Cardinality(known.keys \cup N)
             = Cardinality(known.keys) + Cardinality(N) - Cardinality(known.keys \cap N)
        /\ Cardinality(known.keys \cap N) \in Nat /\ Cardinality(known.keys \cup N) \in Nat
    BY <1>2, <2>3, FS_Union, FS_Intersection, FS_CardinalityType
  <2>8. Cardinality(known.keys \cup N) - known.start <= limit
    BY <1>1, <1>2, <2>1, <2>2, <2>3, <2>7
  <2> HIDE DEF result
  <2>9. result.stopped => Cardinality(known.keys \cup N) - known.start = limit
    <3>1. result.stopped => Cardinality(known.keys \cup N) - known.start >= limit
      BY <2>6
    <3> QED BY <1>1, <2>1, <2>7, <2>8, <3>1
  <2>10. ASSUME ~result.stopped, Distinct(rows), Members(rows) \cap known.keys = {}
         PROVE  N = Members(rows)
    <3>1. known.keys \cap N = {}
      BY <2>3, <2>10
    <3>2. Cardinality(known.keys \cap N) = 0
      BY <3>1, FS_EmptySet
    <3>3. Cardinality(known.keys \cup N) = Cardinality(known.keys) + n
      BY <1>2, <2>2, <2>3, <2>7, <2>10, <3>2
    <3>4. ~(Cardinality(known.keys \cup N) - known.start >= limit)
      BY <2>6, <2>10
    <3>5. n # left
      BY <1>1, <1>2, <2>1, <2>2, <3>3, <3>4
    <3> QED BY <2>2, <2>3, <3>5
  <2>11. result.stopped \in BOOLEAN
    BY <2>6
  <2> HIDE DEF left
  <2>12. Appended(result, known, rows, limit, N)
    BY <1>5, <2>6, <2>8, <2>9, <2>10, <2>11 DEF Appended
  <2> QED BY <2>3, <2>12 DEF result
<1> QED BY <1>3, <1>4, <1>5

-----------------------------------------------------------------------------
(* What a step writes, and where an invocation goes on.                    *)

\* a step of a call changes where it is
LEMMA Moved ==
    ASSUME CallTyped, NEW pc \in Pcs, Goto(pc)
    PROVE  /\ call' \in Calls /\ call'.pc = pc /\ call'.command = call.command
           /\ call'.limit = call.limit /\ call'.at = call.at /\ call'.then = call.then
           /\ call'.stopped = call.stopped
BY DEF CallTyped, Calls, Goto

\* an invocation that holds no store
LEMMA Waiting ==
    ASSUME CallTyped', call'.pc \in {"idle", "open", "analyze", "report"},
           call'.pc = "open" => ~call'.stopped, limited' = 0 => call'.limit = None,
           Uncut' => Tidy(OnDisk', Units')
    PROVE  CallInv'
<1>1. /\ ~(call'.pc \in Loaded) /\ ~(call'.pc \in Recording)
      /\ call'.pc \notin {"refresh", "part", "manifest", "complete", "stopped", "accuracy", "units"}
  BY DEF Loaded, Recording
<1>2. Belongs' /\ Mirrored' /\ Limited'
  BY <1>1 DEF Belongs, Mirrored, Limited
<1>3. Sequenced'
  BY <1>1 DEF Sequenced, Flushing
<1>4. Covered'
  BY <1>1 DEF Covered
<1> QED BY <1>2, <1>3, <1>4 DEF CallInv

\* a manifest that is written keeps the disk right
LEMMA ManifestStored ==
    ASSUME DiskInv, UNCHANGED <<workflow, inputs, parts, accuracy, summary, report, limited>>,
           manifest' \in {Torn} \cup Manifests, Owned', Counted', Finished'
    PROVE  DiskInv'
<1>1. /\ Units' = Units /\ Expected' = Expected /\ OnDisk' = OnDisk /\ Readable' = Readable
  BY SamePlan, SameParts
<1>2. DiskTyped'
  BY <1>1 DEF DiskInv, DiskTyped
<1>3. StoredOnce'
  BY DEF DiskInv, StoredOnce
<1>4. ReportsCoverTheAudit'
  BY <1>1 DEF DiskInv, ReportsCoverTheAudit
<1> QED BY <1>1, <1>2, <1>3, <1>4 DEF DiskInv

\* so does the accuracy
LEMMA AccuracyStored ==
    ASSUME DiskInv, UNCHANGED <<workflow, inputs, parts, manifest, summary, report, limited>>,
           accuracy' \in {None, Torn, TRUE}, ~Completed
    PROVE  DiskInv'
<1>1. /\ Units' = Units /\ Expected' = Expected /\ OnDisk' = OnDisk /\ Readable' = Readable
  BY SamePlan, SameParts
<1>2. DiskTyped'
  BY <1>1 DEF DiskInv, DiskTyped
<1>3. Owned' /\ StoredOnce'
  BY DEF DiskInv, Owned, StoredOnce, Written
<1>4. Counted' /\ Finished'
  BY <1>1 DEF DiskInv, Counted, Finished, Written, Completed
<1>5. ReportsCoverTheAudit'
  BY <1>1 DEF DiskInv, ReportsCoverTheAudit
<1> QED BY <1>1, <1>2, <1>3, <1>4, <1>5 DEF DiskInv

\* tables and report
LEMMA TablesStored ==
    ASSUME DiskInv, UNCHANGED <<workflow, inputs, parts, manifest, accuracy, limited>>,
           ReportsCoverTheAudit'
    PROVE  DiskInv'
<1>1. /\ Units' = Units /\ Expected' = Expected /\ OnDisk' = OnDisk /\ Readable' = Readable
  BY SamePlan, SameParts
<1>2. DiskTyped'
  BY <1>1 DEF DiskInv, DiskTyped
<1>3. Owned' /\ StoredOnce'
  BY DEF DiskInv, Owned, StoredOnce, Written
<1>4. Counted' /\ Finished'
  BY <1>1 DEF DiskInv, Counted, Finished, Written, Completed, Accurate
<1> QED BY <1>1, <1>2, <1>3, <1>4 DEF DiskInv

\* a part
LEMMA PartStored ==
    ASSUME DiskInv, NEW x \in Parts \cup {Torn}, parts' = parts \o <<x>>,
           UNCHANGED <<workflow, inputs, manifest, accuracy, summary, report, limited>>,
           Written, ~Completed,
           x # Torn => /\ x.rows \subseteq Expected /\ x.rows \cap OnDisk = {}
                       /\ x.identity = manifest.identity,
           limited = 0 => Tidy(OnDisk', Units)
    PROVE  DiskInv'
<1>1. Units' = Units /\ Expected' = Expected /\ DiskTyped
  BY SamePlan DEF DiskInv
<1>2. /\ parts' \in Seq(Parts \cup {Torn}) /\ Len(parts') = Len(parts) + 1 /\ Len(parts) \in Nat
      /\ Range(parts') = Range(parts) \cup {x}
      /\ \A i \in DOMAIN parts' : \/ i \in DOMAIN parts /\ parts'[i] = parts[i]
                                  \/ i \notin DOMAIN parts /\ parts'[i] = x
      /\ \A i, j \in DOMAIN parts' : i \notin DOMAIN parts /\ j \notin DOMAIN parts => i = j
      /\ \A i \in DOMAIN parts : parts[i] \in Range(parts)
      /\ OnDisk' = IF x = Torn THEN OnDisk ELSE OnDisk \cup x.rows
  BY <1>1, PartAdded
<1>3. DiskTyped'
  BY <1>1, <1>2 DEF DiskTyped
<1>4. Owned'
  BY <1>2 DEF DiskInv, Owned, Written
<1>5. StoredOnce'
  <2>1. \A i \in DOMAIN parts : parts[i] # Torn => parts[i].rows \subseteq OnDisk
    BY <1>2 DEF OnDisk
  <2>2. ASSUME NEW i \in DOMAIN parts', NEW j \in DOMAIN parts', i # j,
               parts'[i] # Torn, parts'[j] # Torn
        PROVE  parts'[i].rows \cap parts'[j].rows = {}
    <3>1. CASE i \in DOMAIN parts /\ j \in DOMAIN parts
      BY <1>2, <2>2, <3>1 DEF DiskInv, StoredOnce
    <3>2. CASE i \in DOMAIN parts /\ j \notin DOMAIN parts
      BY <1>2, <2>1, <2>2, <3>2
    <3>3. CASE i \notin DOMAIN parts /\ j \in DOMAIN parts
      BY <1>2, <2>1, <2>2, <3>3
    <3>4. CASE i \notin DOMAIN parts /\ j \notin DOMAIN parts
      BY <1>2, <2>2, <3>4
    <3> QED BY <3>1, <3>2, <3>3, <3>4
  <2> QED BY <2>2 DEF StoredOnce
<1>6. Counted'
  <2>1. OnDisk \subseteq OnDisk' /\ IsFiniteSet(OnDisk')
    BY <1>1, <1>2, <1>3, FinitePlan
  <2>2. /\ Cardinality(OnDisk) <= Cardinality(OnDisk')
        /\ Cardinality(OnDisk) \in Nat /\ Cardinality(OnDisk') \in Nat
    BY <2>1, FS_Subset, FS_CardinalityType
  <2>3. /\ manifest.rows \in Nat /\ manifest.parts \in Nat
        /\ manifest.rows <= Cardinality(OnDisk) /\ manifest.parts <= Len(parts)
    BY DEF DiskInv, DiskTyped, Counted, Written, Manifests
  <2>4. manifest.rows <= Cardinality(OnDisk') /\ manifest.parts <= Len(parts')
    BY <1>2, <2>2, <2>3
  <2>5. ~Completed'
    BY DEF Completed
  <2> QED BY <2>4, <2>5 DEF Counted
<1>7. Finished'
  BY DEF Finished, Completed
<1>8. ReportsCoverTheAudit'
  BY <1>1 DEF DiskInv, ReportsCoverTheAudit
<1> QED BY <1>1, <1>3, <1>4, <1>5, <1>6, <1>7, <1>8 DEF DiskInv

\* and whatever leaves the disk alone
LEMMA DiskUnchanged ==
    ASSUME DiskInv, UNCHANGED <<workflow, disk, limited>>, inputs' \in Nat
    PROVE  DiskInv'
<1>1. limited' \in 0..2 /\ limited <= limited'
  BY DEF DiskInv, DiskTyped
<1>2. UNCHANGED <<workflow, disk>>
  OBVIOUS
<1> QED BY <1>1, <1>2, DiskStays

-----------------------------------------------------------------------------
(* Every action preserves the invariant.                                   *)

\* a new invocation keeps the invariant
LEMMA InvokeInv ==
    ASSUME IInv, NEW command \in Commands, NEW limit \in Limits, Invoke(command, limit)
    PROVE  IInv'
<1> USE DEF Invoke
<1>1. limit \in Nat \cup {None} /\ limited \in 0..2
  BY ReferenceAssumption DEF IInv, DiskInv, DiskTyped
<1>2. /\ limited' \in 0..2 /\ limited <= limited' /\ (limited' = 0 => limit = None)
      /\ (limited' = 1 /\ limit # None => limited = 0)
  <2>1. CASE limit = None
    BY <1>1, <2>1
  <2>2. CASE limit # None
    <3>1. limited' = IF limited + 1 <= 2 THEN limited + 1 ELSE 2
      BY <1>1, <2>2, LessOfTwo
    <3> QED BY <1>1, <2>2, <3>1
  <2> QED BY <2>1, <2>2
<1>3. DiskInv'
  BY <1>2, DiskStays DEF IInv, DiskInv, DiskTyped
<1>4. /\ call' \in Calls /\ call'.pc \in {"open", "analyze", "report"} /\ call'.limit = limit
      /\ call'.stopped = FALSE
  BY <1>1 DEF Commands, Calls, Pcs, NoCall
<1>5. CallTyped'
  BY <1>4 DEF IInv, CallInv, CallTyped, Stores, Expected, Units
<1>6. Uncut' => Tidy(OnDisk', Units')
  <2>1. Uncut' => limited = 0
    BY <1>1, <1>2, <1>4 DEF Uncut
  <2> QED BY <2>1, SamePlan, SameParts DEF IInv, DiskInv, disk
<1>7. CallInv'
  BY <1>2, <1>4, <1>5, <1>6, Waiting
<1> QED BY <1>3, <1>7 DEF IInv

\* so does an edit of the inputs
LEMMA EditInputsInv ==
    ASSUME IInv, EditInputs
    PROVE  IInv'
<1> USE DEF EditInputs
<1>1. inputs \in Nat /\ DiskInv
  BY DEF IInv, DiskInv, DiskTyped
<1>2. DiskInv'
  BY <1>1, DiskUnchanged
<1>3. CallTyped'
  BY SamePlan DEF IInv, CallInv, CallTyped, Stores
<1>4. Uncut' => Tidy(OnDisk', Units')
  BY SamePlan, SameParts DEF IInv, CallInv, Covered, Uncut, disk
<1>5. CallInv'
  BY <1>3, <1>4, Waiting DEF IInv, CallInv, Covered
<1> QED BY <1>2, <1>5 DEF IInv

\* the disk is left alone and the invocation ends
LEMMA EndInv ==
    ASSUME IInv, NEW outcome, End(outcome), UNCHANGED <<workflow, inputs, disk, limited>>,
           outcome \in {"error", "incomplete", "complete", "analyzed", "reported", "killed"}
    PROVE  IInv'
<1>1. inputs' \in Nat /\ DiskInv
  BY DEF IInv, DiskInv, DiskTyped
<1>2. DiskInv'
  BY <1>1, DiskUnchanged
<1> QED BY <1>2, Ended DEF IInv

\* opening the store
LEMMA OpenStoreInv ==
    ASSUME IInv, OpenStore
    PROVE  IInv'
<1> USE DEF OpenStore
<1>1. CASE Fails
  BY <1>1, EndInv DEF Fails
<1>2. ASSUME Goto("refresh"), UNCHANGED <<parts, accuracy, summary, report, store>>, DiskInv',
             Written', manifest'.identity = inputs
      PROVE  IInv'
  <2>1. /\ call' \in Calls /\ call'.pc = "refresh" /\ call'.stopped = call.stopped
        /\ call'.limit = call.limit
    BY <1>2, Moved DEF IInv, CallInv, Pcs
  <2>2. /\ Units' = Units /\ Expected' = Expected /\ OnDisk' = OnDisk
    BY <1>2, SamePlan, SameParts
  <2>3. CallTyped'
    BY <1>2, <2>1, <2>2 DEF IInv, CallInv, CallTyped, Stores
  <2>4. Belongs' /\ Mirrored' /\ Limited'
    BY <1>2, <2>1 DEF Belongs, Mirrored, Limited, Loaded, Recording
  <2>5. Sequenced'
    BY <1>2, <2>1 DEF IInv, CallInv, Sequenced, Flushing, Recording
  <2>6. Covered'
    <3>1. ~(call'.pc \in Loaded) /\ ~(call'.pc \in Recording) /\ call'.pc # "complete"
      BY <2>1 DEF Loaded, Recording
    <3>2. Uncut' => Uncut
      BY <2>1 DEF Uncut
    <3> QED BY <2>1, <2>2, <3>1, <3>2 DEF IInv, CallInv, Covered
  <2> QED BY <1>2, <2>3, <2>4, <2>5, <2>6 DEF IInv, CallInv
<1>3. CASE manifest = None /\ ~Fails
  <2>1. /\ manifest' = [identity |-> inputs, status |-> "incomplete", parts |-> 0, rows |-> 0]
        /\ Goto("refresh") /\ UNCHANGED <<parts, accuracy, summary, report, store>>
    BY <1>3 DEF Fields
  <2>2. /\ manifest' \in Manifests /\ manifest'.identity = inputs /\ manifest'.status = "incomplete"
        /\ manifest'.rows = 0 /\ manifest'.parts = 0
    BY <2>1 DEF IInv, DiskInv, DiskTyped, Manifests
  <2>3. Written' /\ ~Completed'
    BY <2>2, MissingAssumption DEF Written, Completed
  <2>4. parts' = <<>> /\ Range(parts') = {} /\ Len(parts') = 0
    BY <1>3, <2>1 DEF IInv, DiskInv, Owned, Range
  <2>5. Cardinality(OnDisk') \in Nat
    BY <2>1, SameParts, FinitePlan DEF IInv, DiskInv
  <2>6. Owned' /\ Counted' /\ Finished'
    BY <2>2, <2>3, <2>4, <2>5 DEF Owned, Counted, Finished
  <2>7. DiskInv'
    BY <2>1, <2>2, <2>6, ManifestStored DEF IInv
  <2> QED BY <1>2, <2>1, <2>2, <2>3, <2>7
<1>4. CASE manifest \notin {None, Torn} /\ manifest.identity = inputs /\ ~Fails
  <2>1. Goto("refresh") /\ UNCHANGED <<disk, store>> /\ Written'
    BY <1>4 DEF Written, disk
  <2>2. inputs' \in Nat /\ DiskInv
    BY DEF IInv, DiskInv, DiskTyped
  <2>3. DiskInv'
    BY <2>1, <2>2, DiskUnchanged
  <2> QED BY <1>2, <1>4, <2>1, <2>3 DEF disk
<1> QED BY <1>1, <1>3, <1>4

\* reading it again
LEMMA RefreshInv ==
    ASSUME IInv, Refresh
    PROVE  IInv'
<1>1. CASE Fails
  BY <1>1, EndInv DEF Fails, Refresh
<1>2. CASE ~Fails
  <2> DEFINE pc == IF Completed THEN "complete" ELSE "units"
  <2>1. Written /\ manifest.identity = inputs /\ ~call.stopped /\ call.pc = "refresh"
    BY DEF IInv, CallInv, Belongs, Sequenced, Refresh
  <2>2. /\ Readable /\ UNCHANGED <<disk, workflow, inputs, limited>>
        /\ store' = [keys |-> OnDisk, pending |-> {}, start |-> Cardinality(OnDisk)]
        /\ call' = [call EXCEPT !.pc = pc, !.at = 1]
    BY <1>2, <2>1 DEF Refresh, Completed, Written
  <2>3. DiskInv /\ inputs' \in Nat /\ pc \in Pcs
    BY <2>2 DEF IInv, DiskInv, DiskTyped, Pcs
  <2>4. DiskInv' /\ OnDisk' = OnDisk /\ Readable' = Readable /\ Units' = Units
        /\ Expected' = Expected /\ (Accurate' <=> Accurate) /\ (Completed' <=> Completed)
    BY <2>2, <2>3, DiskUnchanged, SameParts, SamePlan DEF disk, Accurate, Completed
  <2> HIDE DEF pc
  <2>5. /\ call' \in Calls /\ call'.at = 1 /\ call'.stopped = FALSE
        /\ call'.pc = pc /\ call'.limit = call.limit
    BY <2>1, <2>2, <2>3 DEF IInv, CallInv, CallTyped, Calls
  <2>6. /\ store'.keys = OnDisk /\ store'.pending = {} /\ store'.start = Cardinality(OnDisk)
        /\ Cardinality(OnDisk) \in Nat /\ OnDisk \subseteq Expected
    BY <2>2, <2>3, FinitePlan DEF DiskInv
  <2>7. /\ pc \in {"units", "complete"} /\ (pc = "complete" <=> Completed)
        /\ pc \in Recording => manifest.status = "incomplete"
    BY <2>1, <2>3 DEF pc, Completed, Written, DiskInv, DiskTyped, Manifests, Recording
  <2>8. CallTyped'
    BY <2>2, <2>4, <2>5, <2>6 DEF CallTyped, Stores
  <2>9. Belongs'
    BY <2>1, <2>2, <2>5, <2>7 DEF Belongs, Written, disk
  <2>10. Mirrored'
    BY <2>2, <2>4, <2>5, <2>6, <2>7 DEF Mirrored
  <2>11. Limited'
    <3>1. call'.limit # None => call'.limit \in Nat
      BY <2>5 DEF Calls
    <3> QED BY <2>5, <2>6, <3>1 DEF Limited, RowCount
  <2>12. Sequenced'
    BY <2>2, <2>3, <2>4, <2>5, <2>7 DEF DiskInv, Sequenced, Flushing, Finished
  <2>13. Covered'
    <3>1. limited' = limited
      BY <2>2
    <3>2. Uncut' => Uncut
      BY <2>1, <2>5, <3>1 DEF Uncut
    <3>3. Uncut' => Tidy(OnDisk', Units') /\ Tidy(store'.keys, Units')
      BY <2>4, <2>6, <3>2 DEF IInv, CallInv, Covered
    <3>4. \A i \in 1..Len(Units') : ~(i < call'.at)
      BY <2>5
    <3>5. call'.pc = "complete" /\ limited' < 2 => OnDisk' = Expected'
      BY <2>3, <2>4, <2>5, <2>7, <3>1 DEF DiskInv, Finished
    <3>6. limited' = 0 => call'.limit = None
      BY <2>5, <3>1 DEF IInv, CallInv, Covered
    <3> QED BY <3>3, <3>4, <3>5, <3>6 DEF Covered
  <2> QED BY <2>4, <2>8, <2>9, <2>10, <2>11, <2>12, <2>13 DEF IInv, CallInv
<1> QED BY <1>1, <1>2

\* what a step of the loops changes of a call
LEMMA CallAdvanced ==
    ASSUME call \in Calls, NEW at \in Nat, NEW stopped \in BOOLEAN,
           NEW then \in {"units", "stopped"}, NEW pc \in Pcs,
           call' = [call EXCEPT !.at = at, !.stopped = stopped, !.then = then, !.pc = pc]
    PROVE  /\ call' \in Calls /\ call'.at = at /\ call'.stopped = stopped /\ call'.then = then
           /\ call'.pc = pc /\ call'.limit = call.limit
<1>1. call' = [pc |-> pc, command |-> call.command, limit |-> call.limit, at |-> at,
               then |-> then, stopped |-> stopped, outcome |-> call.outcome]
  BY DEF Calls
<1>2. call.command \in Commands \cup {None} /\ call.limit \in Nat \cup {None}
  BY DEF Calls
<1>3. call.outcome \in {None, "error", "incomplete", "complete", "analyzed", "reported", "killed"}
  BY DEF Calls
<1>4. call' \in Calls
  BY <1>1, <1>2, <1>3 DEF Calls
<1> QED BY <1>1, <1>4

\* a unit that is measured keeps the invariant
LEMMA MeasureInv ==
    ASSUME IInv, Measure
    PROVE  IInv'
<1> DEFINE rows == Units[call.at]
<1> DEFINE result == AppendWithLimit(store, rows, call.limit)
<1>1. /\ call.pc = "units" /\ call.at <= Len(Units)
      /\ UNCHANGED <<workflow, inputs, disk, limited>>
  BY DEF Measure
<1>2. /\ DiskTyped /\ inputs \in Nat /\ call \in Calls /\ store \in Stores /\ ~call.stopped
      /\ call.at \in Nat \ {0} /\ Written /\ manifest.identity = inputs
      /\ manifest.status = "incomplete" /\ Readable /\ store.keys = OnDisk \cup store.pending
      /\ store.pending \cap OnDisk = {}
  <2>1. DiskTyped /\ inputs \in Nat /\ call \in Calls /\ store \in Stores /\ call.at \in Nat
    BY DEF IInv, DiskInv, DiskTyped, CallInv, CallTyped, Calls
  <2>2. call.pc \in Recording /\ call.pc \in Loaded
    BY <1>1 DEF Recording, Loaded
  <2>3. ~call.stopped /\ call.at > 0
    BY <1>1, <2>2 DEF IInv, CallInv, Sequenced
  <2>4. Written /\ manifest.identity = inputs /\ manifest.status = "incomplete"
    BY <2>2 DEF IInv, CallInv, Belongs
  <2>5. /\ Readable /\ store.keys = OnDisk \cup store.pending
        /\ store.pending \cap OnDisk = {}
    BY <1>1, <2>2 DEF IInv, CallInv, Mirrored
  <2> QED BY <2>1, <2>3, <2>4, <2>5
<1>3. /\ DiskInv' /\ OnDisk' = OnDisk /\ Readable' = Readable /\ Units' = Units
      /\ Expected' = Expected /\ Written' = Written
  BY <1>1, <1>2, DiskUnchanged, SameParts, SamePlan DEF IInv, disk, Written
<1>4. /\ Len(Units) \in Nat /\ call.at \in 1..Len(Units)
      /\ rows \in Seq(Rows) /\ Distinct(rows) /\ Range(rows) = Members(rows)
      /\ Members(rows) \subseteq Expected
      /\ \A i, j \in 1..Len(Units) : i # j => Members(Units[i]) \cap Members(Units[j]) = {}
  <2>1. workflow \in {"shortcut", "imagenet"}
    BY <1>2 DEF DiskTyped
  <2>2. Len(Units) \in Nat
    BY <2>1, UnitFacts
  <2>3. call.at \in 1..Len(Units)
    BY <1>1, <1>2, <2>2
  <2> QED BY <2>1, <2>2, <2>3, UnitFacts
<1>5. /\ call.limit \in Nat \cup {None}
      /\ call.limit # None => /\ call.limit \in Nat
                              /\ Cardinality(store.keys) - store.start <= call.limit
      /\ limited = 0 => call.limit = None
      /\ Uncut => Tidy(OnDisk, Units) /\ Tidy(store.keys, Units)
      /\ limited < 2 => \A i \in 1..Len(Units) : i < call.at => Members(Units[i]) \subseteq store.keys
  BY <1>1, <1>2 DEF IInv, CallInv, Limited, Covered, Recording, Loaded, Calls, RowCount
<1>6. CASE Members(rows) \subseteq store.keys
  <2>1. call' = [call EXCEPT !.at = call.at + 1] /\ store' = store
    BY <1>4, <1>6 DEF Measure
  <2>2. /\ call' \in Calls /\ call'.at = call.at + 1 /\ call'.pc = "units" /\ call'.stopped = FALSE
        /\ call'.limit = call.limit
    BY <1>1, <1>2, <2>1 DEF Calls
  <2>3. CallTyped' /\ Belongs' /\ Mirrored'
    BY <1>1, <1>2, <1>3, <2>1, <2>2 DEF CallTyped, Stores, Belongs, Mirrored, disk
  <2>4. Limited' /\ Sequenced'
    <3>1. Limited'
      BY <1>5, <2>1, <2>2 DEF Limited, RowCount
    <3>2. Sequenced'
      BY <1>2, <2>2 DEF Sequenced, Flushing
    <3> QED BY <3>1, <3>2
  <2>5. Covered'
    <3>1. Uncut' => Uncut
      BY <1>1, <1>2, <2>2 DEF Uncut
    <3>2. limited < 2 => \A i \in 1..Len(Units) : i < call.at + 1 => Members(Units[i]) \subseteq store.keys
      BY <1>2, <1>4, <1>5, <1>6
    <3> QED BY <1>1, <1>3, <1>5, <2>1, <2>2, <3>1, <3>2 DEF Covered
  <2> QED BY <1>3, <2>3, <2>4, <2>5 DEF IInv, CallInv
<1>7. CASE ~(Members(rows) \subseteq store.keys)
  <2> DEFINE stopped == result.stopped
  <2> DEFINE then == IF stopped THEN "stopped" ELSE "units"
  <2> DEFINE pc == IF stopped \/ Full(result.store.pending) THEN "part" ELSE "units"
  <2>1. /\ store' = result.store
        /\ call' = [call EXCEPT !.at = call.at + 1, !.stopped = stopped, !.then = then, !.pc = pc]
    BY <1>4, <1>7 DEF Measure
  <2>2. PICK N \in SUBSET Members(rows) : Appended(result, store, rows, call.limit, N)
    BY <1>2, <1>4, <1>5, Appending
  <2> HIDE DEF result
  <2>3. /\ result.store = Grown(store, N) /\ stopped \in BOOLEAN
        /\ call.limit = None => ~stopped /\ N = Members(rows)
        /\ call.limit # None => Cardinality(store.keys \cup N) - store.start <= call.limit
        /\ stopped => Cardinality(store.keys \cup N) - store.start = call.limit
        /\ ~stopped /\ Members(rows) \cap store.keys = {} => N = Members(rows)
    BY <1>4, <2>2 DEF Appended
  <2>4. /\ then \in {"stopped", "units"} /\ pc \in {"part", "units"}
        /\ stopped => then = "stopped" /\ pc = "part"
        /\ ~stopped => then = "units"
    OBVIOUS
  <2> HIDE DEF stopped, then, pc
  <2>5. /\ store' \in Stores /\ store'.keys = store.keys \cup N
        /\ store'.pending = store.pending \cup (N \ store.keys) /\ store'.start = store.start
    BY <1>2, <1>4, <2>1, <2>3, GrownFields
  <2>6. /\ call' \in Calls /\ call'.at = call.at + 1 /\ call'.pc = pc /\ call'.then = then
        /\ call'.stopped = stopped /\ call'.limit = call.limit
    <3>1. call.at + 1 \in Nat /\ pc \in Pcs
      BY <1>2, <2>4 DEF Pcs
    <3> QED BY <1>2, <2>1, <2>3, <2>4, <3>1, CallAdvanced
  <2>7. CallTyped' /\ Belongs'
    BY <1>1, <1>2, <1>3, <2>4, <2>5, <2>6 DEF CallTyped, Stores, Belongs, disk
  <2>8. Mirrored'
    BY <1>2, <1>3, <2>4, <2>5, <2>6 DEF Mirrored
  <2>9. Limited'
    BY <2>3, <2>5, <2>6 DEF Limited, RowCount
  <2>10. Sequenced'
    BY <1>2, <2>4, <2>6 DEF Sequenced, Flushing
  <2>11. Covered'
    <3>1. ~stopped /\ (call.limit = None \/ Uncut) => N = Members(rows)
      <4>1. Uncut => Members(rows) \cap store.keys = {}
        BY <1>4, <1>5, <1>7 DEF Tidy
      <4> QED BY <2>3, <4>1
    <3>2. Uncut' => Uncut /\ ~stopped
      BY <1>1, <1>2, <1>5, <2>3, <2>6 DEF Uncut
    <3>3. Uncut' => Tidy(store'.keys, Units')
      <4>1. SUFFICES ASSUME Uncut'
                     PROVE  Tidy(store.keys \cup N, Units)
        BY <1>3, <2>5
      <4>2. N = Members(rows) /\ Tidy(store.keys, Units)
        BY <1>5, <3>1, <3>2, <4>1
      <4> QED BY <1>4, <4>2 DEF Tidy
    <3>4. limited < 2 /\ ~stopped => call.limit = None \/ Uncut
      BY <1>2, <1>5 DEF Uncut, IInv, DiskInv, DiskTyped
    <3>5. limited < 2 /\ ~stopped => \A i \in 1..Len(Units) :
             i < call.at + 1 => Members(Units[i]) \subseteq store.keys \cup N
      BY <1>2, <1>4, <1>5, <3>1, <3>4
    <3>6. Uncut' => Tidy(OnDisk', Units')
      BY <1>3, <1>5, <3>2
    <3>7. limited' = limited /\ call'.pc # "complete"
      BY <1>1, <2>4, <2>6
    <3> HIDE DEF rows
    <3> QED BY <1>3, <1>5, <2>5, <2>6, <3>3, <3>5, <3>6, <3>7 DEF Covered
  <2> QED BY <1>3, <2>7, <2>8, <2>9, <2>10, <2>11 DEF IInv, CallInv
<1> QED BY <1>6, <1>7

\* so does the end of the loops
LEMMA EndOfLoopsInv ==
    ASSUME IInv, EndOfLoops
    PROVE  IInv'
<1>1. /\ call.pc = "units" /\ call.at > Len(Units)
      /\ UNCHANGED <<workflow, inputs, disk, limited, store>>
  BY DEF EndOfLoops
<1>2. DiskInv /\ inputs \in Nat /\ CallTyped /\ call.pc \in Recording /\ call.pc \in Loaded
  BY <1>1 DEF IInv, DiskInv, DiskTyped, CallInv, Recording, Loaded
<1>3. /\ DiskInv' /\ OnDisk' = OnDisk /\ Readable' = Readable /\ Units' = Units
      /\ Expected' = Expected /\ Written' = Written
  BY <1>1, <1>2, DiskUnchanged, SameParts, SamePlan DEF disk, Written
<1>4. /\ call' \in Calls /\ call'.limit = call.limit /\ call'.stopped = call.stopped
      /\ call'.at = call.at
      /\ \/ call'.pc = "part" /\ call'.then = "accuracy"
         \/ call'.pc = "accuracy"
  BY <1>2 DEF EndOfLoops, CallTyped, Calls, Pcs
<1>5. call'.pc \in Recording /\ call'.pc \in Loaded /\ call'.pc \notin {"refresh", "complete"}
  BY <1>4 DEF Recording, Loaded
<1>6. CallTyped' /\ Belongs' /\ Mirrored'
  BY <1>1, <1>2, <1>3, <1>4, <1>5 DEF CallTyped, Stores, Belongs, Mirrored, IInv, CallInv, disk
<1>7. Limited'
  BY <1>1, <1>2, <1>4 DEF Limited, RowCount, IInv, CallInv
<1>8. Sequenced'
  <2>1. ~call.stopped /\ call.at > 0
    BY <1>1, <1>2 DEF Sequenced, IInv, CallInv
  <2> QED BY <1>1, <1>3, <1>4, <2>1 DEF Sequenced, Flushing
<1>9. Covered'
  <2>1. Uncut' = Uncut /\ limited' = limited
    BY <1>1, <1>4 DEF Uncut
  <2> QED BY <1>1, <1>2, <1>3, <1>4, <1>5, <2>1 DEF Covered, IInv, CallInv
<1> QED BY <1>3, <1>6, <1>7, <1>8, <1>9 DEF IInv, CallInv

\* a flush is over: the invocation goes on where it was
LEMMA Flushed ==
    ASSUME CallInv, DiskTyped, DiskInv', Flushing, Goto(call.then), Written', manifest'.identity = inputs,
           manifest'.status = "incomplete", UNCHANGED <<workflow, inputs, parts, accuracy, limited>>,
           store.keys = OnDisk, store' \in Stores, store'.keys = store.keys, store'.pending = {},
           store'.start = store.start
    PROVE  CallInv'
<1>1. /\ call.then \in {"units", "stopped", "accuracy", "complete"}
      /\ call.stopped <=> call.then = "stopped"
      /\ call.at > 0
      /\ call.then \in {"accuracy", "complete"} => call.at > Len(Units)
      /\ call.then = "complete" => Accurate
  BY DEF CallInv, Sequenced, Flushing, Recording
<1>2. /\ call' \in Calls /\ call'.pc = call.then /\ call'.limit = call.limit /\ call'.at = call.at
      /\ call'.then = call.then /\ call'.stopped = call.stopped
  BY <1>1, Moved DEF CallInv, Pcs
<1>3. call.pc \in Recording /\ call.pc \in Loaded /\ call'.pc \in Loaded
  BY <1>1, <1>2 DEF Flushing, Recording, Loaded
<1>4. /\ OnDisk' = OnDisk /\ Readable' = Readable /\ Units' = Units /\ Expected' = Expected
      /\ Accurate' = Accurate /\ Readable
  BY <1>3, SameParts, SamePlan DEF CallInv, Mirrored, Accurate
<1>5. CallTyped' /\ Belongs' /\ Mirrored'
  BY <1>1, <1>2, <1>4 DEF CallTyped, Stores, Belongs, Mirrored
<1>6. Limited'
  BY <1>2, <1>3 DEF CallInv, Limited, RowCount
<1>7. Sequenced'
  BY <1>1, <1>2, <1>4 DEF Sequenced, Flushing
<1>8. Covered'
  <2>1. Uncut' = Uncut /\ limited' = limited
    BY <1>2 DEF Uncut
  <2>2. /\ limited = 0 => call.limit = None
        /\ Uncut => Tidy(OnDisk, Units) /\ Tidy(store.keys, Units)
        /\ limited < 2 /\ ~call.stopped =>
              \A i \in 1..Len(Units) : i < call.at => Members(Units[i]) \subseteq store.keys
    BY <1>3 DEF CallInv, Covered
  <2>3. ASSUME limited < 2, call.then = "complete"
        PROVE  OnDisk = Expected
    <3>1. ~call.stopped /\ call.at > Len(Units) /\ call.at \in Nat
      BY <1>1, <2>3 DEF CallInv, CallTyped, Calls
    <3>2. workflow \in {"shortcut", "imagenet"} /\ OnDisk \subseteq Expected
      BY FinitePlan DEF DiskTyped
    <3>3. \A i \in 1..Len(Units) : i < call.at
      BY <3>1, <3>2, UnitFacts
    <3>4. \A i \in 1..Len(Units) : Members(Units[i]) \subseteq OnDisk
      BY <2>2, <2>3, <3>1, <3>3
    <3>5. \A r \in Expected : \E i \in 1..Len(Units) : r \in Members(Units[i])
      BY <3>2, UnitFacts
    <3> QED BY <3>2, <3>4, <3>5
  <2> QED BY <1>2, <1>4, <2>1, <2>2, <2>3 DEF Covered
<1> QED BY <1>5, <1>6, <1>7, <1>8 DEF CallInv

\* writing a part
LEMMA WritePartInv ==
    ASSUME IInv, WritePart
    PROVE  IInv'
<1>1. /\ call.pc = "part" /\ UNCHANGED <<workflow, inputs, limited, manifest, accuracy, store>>
      /\ UNCHANGED <<summary, report>>
  BY DEF WritePart
<1>2. DiskInv /\ DiskTyped /\ inputs \in Nat /\ CallInv /\ CallTyped /\ store \in Stores
  BY DEF IInv, DiskInv, DiskTyped, CallInv, CallTyped
<1>3. call.pc \in Recording /\ call.pc \in Loaded /\ Flushing /\ call.pc # "manifest"
  BY <1>1 DEF Recording, Loaded, Flushing
<1>4. /\ Written /\ manifest.identity = inputs /\ manifest.status = "incomplete"
      /\ Readable /\ store.keys = OnDisk \cup store.pending /\ store.pending \cap OnDisk = {}
  BY <1>2, <1>3 DEF CallInv, Belongs, Mirrored
<1>5. CASE store.pending = {}
  <2>1. Goto(call.then) /\ UNCHANGED <<parts, disk>>
    BY <1>1, <1>5 DEF WritePart, disk
  <2>2. DiskInv' /\ Written'
    BY <1>1, <1>2, <1>4, <2>1, DiskUnchanged DEF Written
  <2>3. CallInv'
    BY <1>1, <1>2, <1>3, <1>4, <1>5, <2>1, <2>2, Flushed
  <2> QED BY <2>2, <2>3 DEF IInv
<1>6. CASE store.pending # {}
  <2> DEFINE x == [rows |-> store.pending, identity |-> inputs]
  <2>1. parts' = parts \o <<x>> /\ Goto("manifest")
    BY <1>6 DEF WritePart
  <2>2. x.rows = store.pending /\ x.identity = inputs /\ store.pending \subseteq Expected
    BY <1>2 DEF Stores
  <2>3. x \in Parts /\ x # Torn
    BY <1>2, <2>2, UnitFacts, MissingAssumption DEF Parts, DiskTyped
  <2> HIDE DEF x
  <2>4. OnDisk' = store.keys /\ Readable'
    BY <1>2, <1>4, <2>1, <2>2, <2>3, PartAdded
  <2>5. /\ limited = 0 => call.limit = None
        /\ Uncut => Tidy(store.keys, Units)
        /\ limited < 2 /\ ~call.stopped =>
              \A i \in 1..Len(Units) : i < call.at => Members(Units[i]) \subseteq store.keys
    BY <1>2, <1>3 DEF CallInv, Covered
  <2>6. DiskInv'
    <3>1. ~Completed /\ (limited = 0 => Tidy(OnDisk', Units))
      BY <1>4, <2>4, <2>5 DEF Completed, Uncut
    <3> QED BY <1>1, <1>2, <1>4, <2>1, <2>2, <2>3, <3>1, PartStored
  <2>7. /\ call' \in Calls /\ call'.pc = "manifest" /\ call'.limit = call.limit
        /\ call'.at = call.at /\ call'.then = call.then /\ call'.stopped = call.stopped
    BY <1>2, <2>1, Moved DEF Pcs
  <2>8. /\ Units' = Units /\ Expected' = Expected /\ Written' = Written /\ Accurate' = Accurate
    BY <1>1, SamePlan DEF Written, Accurate
  <2>9. CallTyped' /\ Belongs' /\ Mirrored'
    BY <1>1, <1>2, <1>4, <2>4, <2>7, <2>8 DEF CallTyped, Stores, Belongs, Mirrored
  <2>10. Limited'
    BY <1>1, <1>2, <1>3, <2>7 DEF CallInv, Limited, RowCount
  <2>11. Sequenced'
    BY <1>2, <1>3, <2>7, <2>8 DEF CallInv, Sequenced, Flushing
  <2>12. Covered'
    <3>1. Uncut' = Uncut /\ limited' = limited
      BY <1>1, <2>7 DEF Uncut
    <3> QED BY <1>1, <2>4, <2>5, <2>7, <2>8, <3>1 DEF Covered
  <2> QED BY <2>6, <2>9, <2>10, <2>11, <2>12 DEF IInv, CallInv
<1> QED BY <1>5, <1>6

\* writing the manifest
LEMMA WriteManifestInv ==
    ASSUME IInv, WriteManifest
    PROVE  IInv'
<1>1. /\ call.pc = "manifest" /\ UNCHANGED <<workflow, inputs, limited, parts, accuracy>>
      /\ UNCHANGED <<summary, report>> /\ Goto(call.then)
      /\ manifest' = [identity |-> inputs, status |-> "incomplete", parts |-> Len(parts),
                      rows |-> Cardinality(store.keys)]
      /\ store' = [store EXCEPT !.pending = {}]
  BY DEF WriteManifest, Fields, RowCount
<1>2. /\ DiskInv /\ DiskTyped /\ inputs \in Nat /\ CallInv /\ store \in Stores
      /\ Len(parts) \in Nat /\ Cardinality(OnDisk) \in Nat
  BY LenProperties, FinitePlan DEF IInv, DiskInv, DiskTyped, CallInv, CallTyped
<1>3. call.pc \in Recording /\ call.pc \in Loaded /\ Flushing
  BY <1>1 DEF Recording, Loaded, Flushing
<1>4. Written /\ manifest.identity = inputs /\ Readable /\ store.keys = OnDisk
  BY <1>1, <1>2, <1>3 DEF CallInv, Belongs, Mirrored
<1>5. /\ manifest' \in Manifests /\ manifest'.identity = inputs
      /\ manifest'.status = "incomplete" /\ manifest'.rows = Cardinality(OnDisk)
      /\ manifest'.parts = Len(parts)
  BY <1>1, <1>2, <1>4 DEF Manifests
<1>6. Written' /\ ~Completed' /\ OnDisk' = OnDisk
  BY <1>1, <1>5, MissingAssumption, SameParts DEF Written, Completed
<1>7. Owned' /\ Counted' /\ Finished'
  <2>1. Owned'
    BY <1>1, <1>2, <1>4, <1>5, <1>6 DEF DiskInv, Owned, Written
  <2>2. Counted' /\ Finished'
    BY <1>1, <1>2, <1>5, <1>6 DEF Counted, Finished
  <2> QED BY <2>1, <2>2
<1>8. DiskInv'
  BY <1>1, <1>2, <1>5, <1>7, ManifestStored
<1>9. /\ store' \in Stores /\ store'.keys = store.keys /\ store'.pending = {}
      /\ store'.start = store.start
  BY <1>1, <1>2 DEF Stores
<1>10. CallInv'
  BY <1>1, <1>2, <1>3, <1>4, <1>5, <1>6, <1>8, <1>9, Flushed
<1> QED BY <1>8, <1>10 DEF IInv

\* stopping at the limit
LEMMA StopInv ==
    ASSUME IInv, Stop
    PROVE  IInv'
BY EndInv DEF Stop

\* measuring and writing the accuracy
LEMMA AccuracyInv ==
    ASSUME IInv, RunAccuracy \/ WriteAccuracy
    PROVE  IInv'
<1>1. /\ call.pc = "accuracy"
      /\ UNCHANGED <<workflow, inputs, limited, parts, manifest, store, summary, report>>
      /\ call' = [call EXCEPT !.pc = "part", !.then = "complete"]
      /\ \/ workflow = "shortcut" /\ accuracy' = IF accuracy = None THEN TRUE ELSE accuracy
         \/ accuracy' = TRUE
  BY DEF RunAccuracy, WriteAccuracy
<1>2. /\ DiskInv /\ CallInv /\ CallTyped /\ call.pc \in Recording /\ call.pc \in Loaded
      /\ accuracy \in {None, Torn, TRUE}
  BY <1>1 DEF IInv, DiskInv, DiskTyped, CallInv, Recording, Loaded
<1>3. Written /\ manifest.identity = inputs /\ manifest.status = "incomplete" /\ ~Completed
  BY <1>2 DEF CallInv, Belongs, Completed
<1>4. accuracy' \in {None, Torn, TRUE} /\ Accurate'
  BY <1>1, <1>2 DEF Accurate
<1>5. DiskInv'
  BY <1>1, <1>2, <1>3, <1>4, AccuracyStored
<1>6. /\ call' \in Calls /\ call'.pc = "part" /\ call'.then = "complete"
      /\ call'.limit = call.limit /\ call'.at = call.at /\ call'.stopped = call.stopped
  BY <1>1, <1>2 DEF CallTyped, Calls, Pcs
<1>7. /\ OnDisk' = OnDisk /\ Readable' = Readable /\ Units' = Units /\ Expected' = Expected
      /\ Written'
  BY <1>1, <1>3, SameParts, SamePlan DEF Written
<1>8. CallTyped' /\ Belongs' /\ Mirrored'
  BY <1>1, <1>2, <1>3, <1>6, <1>7 DEF CallInv, CallTyped, Stores, Belongs, Mirrored
<1>9. Limited'
  BY <1>1, <1>2, <1>6 DEF CallInv, Limited, RowCount
<1>10. Sequenced'
  <2>1. ~call.stopped /\ call.at > 0 /\ call.at > Len(Units)
    BY <1>1, <1>2 DEF CallInv, Sequenced
  <2> QED BY <1>4, <1>6, <1>7, <2>1 DEF Sequenced, Flushing
<1>11. Covered'
  <2>1. Uncut' = Uncut /\ limited' = limited
    BY <1>1, <1>6 DEF Uncut
  <2> QED BY <1>1, <1>2, <1>6, <1>7, <2>1 DEF CallInv, Covered
<1> QED BY <1>5, <1>8, <1>9, <1>10, <1>11 DEF IInv, CallInv

\* the invocation goes on without a store
LEMMA MovesOn ==
    ASSUME CallInv, NEW pc \in {"analyze", "report"}, Goto(pc), DiskInv',
           UNCHANGED <<workflow, inputs, parts, limited, store>>
    PROVE  CallInv'
<1>1. /\ call' \in Calls /\ call'.pc = pc /\ call'.limit = call.limit
      /\ call'.stopped = call.stopped
  BY Moved DEF CallInv, Pcs
<1>2. OnDisk' = OnDisk /\ Units' = Units /\ Expected' = Expected
  BY SameParts, SamePlan
<1>3. CallTyped'
  BY <1>1, <1>2 DEF CallInv, CallTyped, Stores
<1>4. Uncut' = Uncut
  BY <1>1 DEF Uncut
<1>5. (limited' = 0 => call'.limit = None) /\ (Uncut' => Tidy(OnDisk', Units'))
  BY <1>1, <1>2, <1>4 DEF CallInv, Covered
<1> QED BY <1>1, <1>3, <1>5, Waiting

\* marking the output complete
LEMMA CompleteInv ==
    ASSUME IInv, Complete
    PROVE  IInv'
<1>1. /\ call.pc = "complete"
      /\ UNCHANGED <<workflow, inputs, limited, parts, accuracy, summary, report>>
      /\ manifest' = [identity |-> inputs, status |-> "complete", parts |-> Len(parts),
                      rows |-> Cardinality(store.keys)]
      /\ (Goto("analyze") /\ UNCHANGED store) \/ End("complete")
  BY DEF Complete, Fields, RowCount
<1>2. /\ DiskInv /\ DiskTyped /\ inputs \in Nat /\ CallInv /\ Len(parts) \in Nat
      /\ Cardinality(OnDisk) \in Nat /\ call.pc \in Loaded
  BY <1>1, LenProperties, FinitePlan DEF IInv, DiskInv, DiskTyped, Loaded
<1>3. /\ Written /\ manifest.identity = inputs /\ Readable /\ store.keys = OnDisk
  BY <1>1, <1>2 DEF CallInv, Belongs, Mirrored
<1>4. Accurate /\ (limited < 2 => OnDisk = Expected)
  BY <1>1, <1>2 DEF CallInv, Sequenced, Covered
<1>5. /\ manifest' \in Manifests /\ manifest'.identity = inputs
      /\ manifest'.status = "complete" /\ manifest'.rows = Cardinality(OnDisk)
      /\ manifest'.parts = Len(parts)
  BY <1>1, <1>2, <1>3 DEF Manifests
<1>6. /\ Written' /\ OnDisk' = OnDisk /\ Readable' = Readable /\ Expected' = Expected
      /\ Accurate' = Accurate
  BY <1>1, <1>5, MissingAssumption, SameParts, SamePlan DEF Written, Accurate
<1>7. Owned' /\ Counted' /\ Finished'
  <2>1. Owned'
    BY <1>1, <1>2, <1>3, <1>5, <1>6 DEF DiskInv, Owned, Written
  <2>2. Counted' /\ Finished'
    BY <1>1, <1>2, <1>3, <1>4, <1>5, <1>6 DEF Counted, Finished
  <2> QED BY <2>1, <2>2
<1>8. DiskInv'
  BY <1>1, <1>2, <1>5, <1>7, ManifestStored
<1>9. CallInv'
  BY <1>1, <1>2, <1>8, MovesOn, Ended
<1> QED BY <1>8, <1>9 DEF IInv

\* what may be analyzed is whole
LEMMA AnalyzableIsWhole ==
    ASSUME DiskTyped, Analyzable
    PROVE  OnDisk = Expected
<1>1. OnDisk \subseteq Expected /\ IsFiniteSet(Expected)
  BY FinitePlan, UnitFacts DEF DiskTyped
<1>2. Cardinality(OnDisk) = Cardinality(Expected)
  BY DEF Analyzable
<1> QED BY <1>1, <1>2, FS_Subset

\* an analysis keeps the invariant
LEMMA AnalyzeInv ==
    ASSUME IInv, Analyze
    PROVE  IInv'
<1>1. DiskInv /\ CallInv /\ DiskTyped
  BY DEF IInv, DiskInv
<1>2. CASE ~Analyzable
  BY <1>2, EndInv DEF Analyze, Fails
<1>3. CASE Analyzable
  <2>1. /\ summary' = OnDisk
        /\ UNCHANGED <<workflow, inputs, limited, parts, manifest, accuracy, report>>
        /\ End("analyzed") \/ (Goto("report") /\ UNCHANGED store)
    BY <1>3 DEF Analyze
  <2>2. ReportsCoverTheAudit'
    BY <1>1, <1>3, <2>1, AnalyzableIsWhole, SamePlan DEF DiskInv, ReportsCoverTheAudit
  <2>3. DiskInv'
    BY <1>1, <2>1, <2>2, TablesStored
  <2>4. CallInv'
    BY <1>1, <2>1, <2>3, MovesOn, Ended
  <2> QED BY <2>3, <2>4 DEF IInv
<1> QED BY <1>2, <1>3

\* so does a report
LEMMA RenderReportInv ==
    ASSUME IInv, RenderReport
    PROVE  IInv'
<1>1. DiskInv /\ CallInv /\ inputs \in Nat
  BY DEF IInv, DiskInv, DiskTyped
<1>2. CASE Goto("analyze") /\ UNCHANGED <<disk, store>>
  <2>1. DiskInv'
    BY <1>1, <1>2, DiskUnchanged DEF RenderReport
  <2>2. CallInv'
    BY <1>1, <1>2, <2>1, MovesOn DEF RenderReport, disk
  <2> QED BY <2>1, <2>2 DEF IInv
<1>3. CASE Fails
  BY <1>3, EndInv DEF RenderReport, Fails
<1>4. CASE /\ summary \notin {None, Torn} /\ report' = summary /\ End("reported")
           /\ UNCHANGED <<parts, manifest, accuracy, summary>>
  <2>1. UNCHANGED <<workflow, inputs, limited>>
    BY DEF RenderReport
  <2>2. ReportsCoverTheAudit'
    BY <1>1, <1>4, <2>1, SamePlan DEF DiskInv, ReportsCoverTheAudit
  <2>3. DiskInv'
    BY <1>1, <1>4, <2>1, <2>2, TablesStored
  <2> QED BY <1>4, <2>3, Ended DEF IInv
<1> QED BY <1>2, <1>3, <1>4 DEF RenderReport

\* a kill between two steps
LEMMA KillInv ==
    ASSUME IInv, Kill
    PROVE  IInv'
BY EndInv DEF Kill

\* a kill inside a write
LEMMA TearInv ==
    ASSUME IInv, Tear
    PROVE  IInv'
<1>1. /\ DiskInv /\ CallInv /\ DiskTyped
      /\ UNCHANGED <<workflow, inputs, report, limited>> /\ End("killed")
  BY DEF IInv, DiskInv, Tear
<1>2. SUFFICES DiskInv'
  BY <1>1, Ended DEF IInv
<1>3. CASE /\ call.pc = "part" /\ parts' = parts \o <<Torn>>
           /\ UNCHANGED <<manifest, accuracy, summary>>
  <2>1. call.pc \in Recording /\ call.pc \in Loaded
    BY <1>3 DEF Recording, Loaded
  <2>2. Written /\ ~Completed
    BY <1>1, <2>1 DEF CallInv, Belongs, Completed
  <2>3. OnDisk' = OnDisk
    BY <1>1, <1>3, PartAdded
  <2>4. limited = 0 => Tidy(OnDisk', Units)
    BY <1>1, <2>3 DEF DiskInv
  <2> QED BY <1>1, <1>3, <2>2, <2>4, PartStored
<1>4. CASE manifest' = Torn /\ UNCHANGED <<parts, accuracy, summary>>
  <2>1. ~Written' /\ ~Completed'
    BY <1>4 DEF Written, Completed
  <2>2. Owned' /\ Counted' /\ Finished'
    BY <1>4, <2>1, MissingAssumption DEF Owned, Counted, Finished
  <2> QED BY <1>1, <1>4, <2>2, ManifestStored
<1>5. CASE /\ call.pc = "accuracy" /\ accuracy' = Torn
           /\ UNCHANGED <<parts, manifest, summary>>
  <2>1. call.pc \in Recording
    BY <1>5 DEF Recording
  <2>2. ~Completed
    BY <1>1, <2>1 DEF CallInv, Belongs, Completed
  <2> QED BY <1>1, <1>5, <2>2, AccuracyStored
<1>6. CASE summary' = Torn /\ UNCHANGED <<parts, manifest, accuracy>>
  <2>1. ReportsCoverTheAudit'
    BY <1>1, <1>6, SamePlan DEF DiskInv, ReportsCoverTheAudit
  <2> QED BY <1>1, <1>6, <2>1, TablesStored
<1> QED BY <1>3, <1>4, <1>5, <1>6 DEF Tear

\* and stuttering
LEMMA StutterInv ==
    ASSUME IInv, UNCHANGED vars
    PROVE  IInv'
<1> USE DEF vars
<1>1. DiskInv /\ CallInv /\ inputs' \in Nat
  BY DEF IInv, DiskInv, DiskTyped
<1>2. DiskInv'
  BY <1>1, DiskUnchanged
<1>3. /\ OnDisk' = OnDisk /\ Readable' = Readable /\ Units' = Units /\ Expected' = Expected
      /\ Written' = Written /\ Accurate' = Accurate /\ Uncut' = Uncut
  BY SameParts, SamePlan DEF disk, Written, Accurate, Uncut
<1>4. CallTyped' /\ Belongs' /\ Mirrored'
  BY <1>1, <1>3 DEF CallInv, CallTyped, Stores, Belongs, Mirrored, disk
<1>5. Limited' /\ Sequenced' /\ Covered'
  BY <1>1, <1>3 DEF CallInv, Limited, RowCount, Sequenced, Flushing, Covered
<1> QED BY <1>2, <1>4, <1>5 DEF IInv, CallInv

\* every step keeps the invariant
LEMMA NextInv ==
    ASSUME IInv, [Next]_vars
    PROVE  IInv'
<1>1. CASE Step
  BY <1>1, OpenStoreInv, RefreshInv, MeasureInv, EndOfLoopsInv, WritePartInv, WriteManifestInv,
     StopInv, AccuracyInv, CompleteInv, AnalyzeInv, RenderReportInv DEF Step
<1>2. CASE EditInputs \/ Kill \/ Tear
  BY <1>2, EditInputsInv, KillInv, TearInv
<1>3. CASE \E c \in Commands, l \in Limits : Invoke(c, l)
  BY <1>3, InvokeInv
<1>4. CASE UNCHANGED vars
  BY <1>4, StutterInv
<1> QED BY <1>1, <1>2, <1>3, <1>4 DEF Next, Commands

-----------------------------------------------------------------------------
(* The theorems.                                                           *)

\* Whatever is interrupted, limited, edited and resumed: memory mirrors the
\* disk, and the disk is one audit.
THEOREM Invariant == Spec => []IInv
<1>1. Init => IInv
  BY InitInv
<1>2. IInv /\ [Next]_vars => IInv'
  BY NextInv
<1> QED BY <1>1, <1>2, PTL DEF Spec

\* the invariant gives the types
LEMMA TypesFollow ==
    ASSUME IInv
    PROVE  TypeOK
<1>1. DiskTyped /\ CallTyped
  BY DEF IInv, DiskInv, CallInv
<1>2. /\ \A p \in Range(parts) \ {Torn} : p.rows \subseteq Expected
      /\ manifest \in {None, Torn} \/ manifest \in Manifests
  BY <1>1 DEF DiskTyped
<1>3. /\ call.pc \in Pcs /\ store.keys \subseteq Expected
  BY <1>1 DEF CallTyped, Calls, Stores
<1>4. store.pending \subseteq store.keys
  BY <1>1 DEF CallTyped
<1> QED BY <1>2, <1>3, <1>4 DEF TypeOK, Pcs

\* Every variable holds a value of its type.
THEOREM TypeCorrect == Spec => []TypeOK
<1>1. IInv => TypeOK
  BY TypesFollow
<1> QED BY <1>1, Invariant, PTL

\* and the consistency of the store
LEMMA ConsistencyFollows ==
    ASSUME IInv
    PROVE  StoreIsConsistent
<1>1. DiskInv /\ CallInv /\ DiskTyped
  BY DEF IInv, DiskInv
<1>2. RowsAreStoredOnce
  <2>1. Readable => ~Duplicates
    <3>1. SUFFICES ASSUME Readable, Duplicates
                   PROVE  FALSE
      OBVIOUS
    <3>2. PICK i, j \in DOMAIN parts : i < j /\ parts[i].rows \cap parts[j].rows # {}
      BY <3>1 DEF Duplicates
    <3>3. i # j
      <4>1. i \in Int /\ j \in Int
        BY <1>1, LenProperties DEF DiskTyped
      <4> QED BY <3>2, <4>1
    <3>4. parts[i] # Torn /\ parts[j] # Torn
      BY <3>1 DEF Readable, Range
    <3> QED BY <1>1, <3>2, <3>3, <3>4 DEF DiskInv, StoredOnce
  <2>2. Written => \A p \in Range(parts) \ {Torn} : p.identity = manifest.identity
    BY <1>1 DEF DiskInv, Owned
  <2> QED BY <2>1, <2>2 DEF RowsAreStoredOnce, Written
<1>3. ManifestIsNotAhead
  BY <1>1 DEF DiskInv, Counted, Written, ManifestIsNotAhead
<1>4. LimitIsKept
  BY <1>1 DEF CallInv, Limited, Recording, LimitIsKept
<1>5. CompletedOutputIsAnalyzable
  <2>1. Completed => Written
    BY DEF Completed, Written
  <2> QED BY <1>1, <2>1 DEF DiskInv, Counted, Finished, Accurate, CompletedOutputIsAnalyzable
<1>6. ReportsCoverTheAudit
  BY <1>1 DEF DiskInv
<1> QED BY <1>2, <1>3, <1>4, <1>5, <1>6, TypesFollow DEF StoreIsConsistent

\* For any plan of distinct identifiers, whatever limits, kills and edits: no
\* row is stored twice, the manifest never runs ahead of the parts, limits are
\* kept, complete outputs can be analysed and reports cover the whole audit.
THEOREM StoreConsistent == Spec => []StoreIsConsistent
<1>1. IInv => StoreIsConsistent
  BY ConsistencyFollows
<1> QED BY <1>1, Invariant, PTL

\* No step of any command changes the rows of a complete output.
THEOREM CompletedFinal == Spec => CompletedRowsAreFinal
<1>1. IInv /\ [Next]_vars => [Completed => parts' = parts]_vars
  <2>1. SUFFICES ASSUME IInv, Next, Completed
                 PROVE  parts' = parts
    BY DEF vars, disk
  <2>2. call.pc # "part"
    <3>1. "part" \in Recording
      BY DEF Recording
    <3> QED BY <2>1, <3>1 DEF IInv, CallInv, Belongs, Completed
  <2>3. CASE Step
    BY <2>2, <2>3 DEF Step, OpenStore, Refresh, Measure, EndOfLoops, WritePart, WriteManifest, Stop,
       RunAccuracy, WriteAccuracy, Complete, Analyze, RenderReport, Fails, disk
  <2>4. CASE EditInputs \/ Kill
    BY <2>4 DEF EditInputs, Kill, disk
  <2>5. CASE Tear
    BY <2>2, <2>5 DEF Tear
  <2>6. ASSUME NEW c, NEW l, Invoke(c, l)
        PROVE  parts' = parts
    BY <2>6 DEF Invoke, disk
  <2>7. \/ Step \/ EditInputs \/ Kill \/ Tear
        \/ \E c, l : Invoke(c, l)
    BY <2>1 DEF Next
  <2> QED BY <2>3, <2>4, <2>5, <2>6, <2>7
<1> QED BY <1>1, Invariant, PTL DEF Spec, CompletedRowsAreFinal
=============================================================================
