----------------------------- MODULE Plan_proofs -----------------------------
(***************************************************************************)
(* Every item is planned once and prepared where the plan says: theorems   *)
(* about Prepare, for any configuration that is accepted, any grid, box    *)
(* and frame.                                                              *)
(***************************************************************************)
EXTENDS Prepare_proofs

-----------------------------------------------------------------------------
(* Ids of items, in sequences one after the other.                         *)

\* items with the same id
IdsOnce(s) == \A a, b \in 1..Len(s) : s[a].item_id = s[b].item_id => a = b
IdsApart(s, t) == \A a \in 1..Len(s), b \in 1..Len(t) : s[a].item_id # t[b].item_id

\* the ids of parts one after the other are distinct if they are in every part
\* and across the parts
LEMMA FlatIds ==
    ASSUME NEW n \in Nat, NEW F, F = [i \in 1..n |-> F[i]], \A i \in 1..n : IsSeq(F[i])
    PROVE  IdsOnce(FlattenSeq(F)) <=>
              /\ \A i \in 1..n : IdsOnce(F[i])
              /\ \A i, j \in 1..n : i # j => IdsApart(F[i], F[j])
<1> DEFINE flat == FlattenSeq(F)
<1> DEFINE U == Members(flat)
<1> DEFINE K == [x \in U |-> x.item_id]
<1>1. U = UNION {Members(F[i]) : i \in 1..n}
  BY FlatSequence
<1>2. \A i \in 1..n : \A a \in 1..Len(F[i]) : F[i][a] \in U
  <2> HIDE DEF U
  <2> TAKE i \in 1..n
  <2>1. Members(F[i]) \subseteq U
    BY <1>1
  <2> QED BY <2>1 DEF Members
<1>3. \A a \in 1..Len(flat) : flat[a] \in U
  BY DEF Members
<1>4. \A x \in U : K[x] = x.item_id
  OBVIOUS
<1> HIDE DEF K, U
<1>5. Keyed(K, flat) <=>
              /\ \A i \in 1..n : Keyed(K, F[i])
              /\ \A i, j \in 1..n : i # j => KeepApart(K, F[i], F[j])
  BY FlatKeyed
<1> HIDE DEF flat
<1>6. Keyed(K, flat) <=> IdsOnce(flat)
  BY <1>3, <1>4 DEF Keyed, IdsOnce
<1>7. \A i \in 1..n : Keyed(K, F[i]) <=> IdsOnce(F[i])
  BY <1>2, <1>4 DEF Keyed, IdsOnce
<1>8. \A i, j \in 1..n : KeepApart(K, F[i], F[j]) <=> IdsApart(F[i], F[j])
  <2> TAKE i, j \in 1..n
  <2>1. /\ \A a \in 1..Len(F[i]) : K[F[i][a]] = F[i][a].item_id
        /\ \A b \in 1..Len(F[j]) : K[F[j][b]] = F[j][b].item_id
    BY <1>2, <1>4
  <2>2. ASSUME NEW a \in 1..Len(F[i]), NEW b \in 1..Len(F[j])
        PROVE  K[F[i][a]] # K[F[j][b]] <=> F[i][a].item_id # F[j][b].item_id
    BY <2>1
  <2> QED BY <2>2 DEF KeepApart, IdsApart
<1> QED BY <1>5, <1>6, <1>7, <1>8 DEF flat

\* the ids of two sequences joined
LEMMA JoinedIds ==
    ASSUME NEW s, NEW t, IsSeq(s), IsSeq(t)
    PROVE  IdsOnce(s \o t) <=> IdsOnce(s) /\ IdsOnce(t) /\ IdsApart(s, t)
<1> DEFINE both == s \o t
<1>1. Len(s) \in Nat /\ Len(t) \in Nat
  BY SequenceIs
<1>2. /\ Len(both) = Len(s) + Len(t)
      /\ \A i \in 1..Len(s) + Len(t) :
           both[i] = IF i <= Len(s) THEN s[i] ELSE t[i - Len(s)]
  <2> DEFINE A == Range(s) \cup Range(t)
  <2>1. s \in Seq(A) /\ t \in Seq(A)
    <3>1. Range(s) \subseteq A /\ Range(t) \subseteq A
      OBVIOUS
    <3> QED BY <3>1, SeqMonotonic DEF IsSeq
  <2> HIDE DEF A
  <2> QED BY <2>1, ConcatProperties
<1> HIDE DEF both
<1>3. \A a \in 1..Len(s) : a \in 1..Len(both) /\ both[a] = s[a]
  BY <1>1, <1>2
<1>4. ASSUME NEW b \in 1..Len(t)
      PROVE  /\ Len(s) + b \in 1..Len(both) /\ both[Len(s) + b] = t[b]
             /\ Len(s) + b \notin 1..Len(s)
  <2>1. Len(s) + b \in 1..Len(s) + Len(t) /\ ~(Len(s) + b <= Len(s)) /\ Len(s) + b - Len(s) = b
    BY <1>1
  <2> QED BY <1>2, <2>1
<1>5. ASSUME IdsOnce(both) PROVE IdsOnce(s) /\ IdsOnce(t) /\ IdsApart(s, t)
  <2>1. IdsOnce(s)
    BY <1>3, <1>5 DEF IdsOnce
  <2>2. ASSUME NEW a \in 1..Len(t), NEW b \in 1..Len(t), t[a].item_id = t[b].item_id PROVE a = b
    <3>1. Len(s) + a = Len(s) + b
      BY <1>4, <1>5, <2>2 DEF IdsOnce
    <3> QED BY <1>1, <3>1
  <2>3. ASSUME NEW a \in 1..Len(s), NEW b \in 1..Len(t), s[a].item_id = t[b].item_id PROVE FALSE
    <3>1. a = Len(s) + b
      BY <1>3, <1>4, <1>5, <2>3 DEF IdsOnce
    <3> QED BY <1>4, <3>1
  <2> QED BY <2>1, <2>2, <2>3 DEF IdsOnce, IdsApart
<1>6. ASSUME IdsOnce(s), IdsOnce(t), IdsApart(s, t), NEW k \in 1..Len(both), NEW m \in 1..Len(both),
             both[k].item_id = both[m].item_id
      PROVE  k = m
  <2>1. \A i \in 1..Len(both) : \/ i \in 1..Len(s) /\ both[i] = s[i]
                                \/ i - Len(s) \in 1..Len(t) /\ both[i] = t[i - Len(s)]
    BY <1>1, <1>2
  <2>2. CASE k \in 1..Len(s) /\ m \in 1..Len(s)
    BY <1>3, <1>6, <2>2 DEF IdsOnce
  <2>3. CASE k - Len(s) \in 1..Len(t) /\ m - Len(s) \in 1..Len(t)
                 /\ both[k] = t[k - Len(s)] /\ both[m] = t[m - Len(s)]
    <3>1. k - Len(s) = m - Len(s)
      BY <1>6, <2>3 DEF IdsOnce
    <3> QED BY <1>1, <3>1
  <2>4. CASE k \in 1..Len(s) /\ m - Len(s) \in 1..Len(t) /\ both[m] = t[m - Len(s)]
    BY <1>3, <1>6, <2>4 DEF IdsApart
  <2>5. CASE m \in 1..Len(s) /\ k - Len(s) \in 1..Len(t) /\ both[k] = t[k - Len(s)]
    BY <1>3, <1>6, <2>5 DEF IdsApart
  <2> QED BY <2>1, <2>2, <2>3, <2>4, <2>5
<1> QED BY <1>5, <1>6 DEF IdsOnce, both

-----------------------------------------------------------------------------
(* The items of a sample, region by region.                                *)

IsRegion(x) == x = RegionSpec(x.region_id, x.instance, x.kind, x.params, x.ref, x.ref_hash)
Regions(s) == IsSeq(s) /\ Once(s) /\ \A x \in Members(s) : IsRegion(x)
SaltsOnce(ps) == \A p \in DOMAIN ps : IsSeq(ps[p].salts) /\ Once(ps[p].salts)
NoTwins(ps) == \A i, j \in DOMAIN ps : i < j => ~Twins(ps[i], ps[j])
Row(sample, region, p, is_control) ==
    [s \in DOMAIN p.salts |-> Item(sample, region, p, p.salts[s], is_control)]
RowsOf(sample, region, ps, is_control) ==
    [p \in DOMAIN ps |-> Row(sample, region, ps[p], is_control)]
Variants(sample, region, ps, is_control) == FlattenSeq(RowsOf(sample, region, ps, is_control))

\* x is one of the items of a region
VariantOf(x, sample, region, ps, is_control) ==
    \E p \in DOMAIN ps : \E k \in 1..Len(ps[p].salts) :
        x = Item(sample, region, ps[p], ps[p].salts[k], is_control)

\* an identity tells everything that makes an item another one
SameKind(p, q) == p.op = q.op /\ p.invert = q.invert /\ IdentityValue(p) = IdentityValue(q)

\* items with the same id are of one sample, region, kind of perturbation and salt
LEMMA SameIds ==
    ASSUME NEW s, NEW t, NEW r, IsRegion(r), NEW u, IsRegion(u), NEW p, NEW q, NEW salt, NEW other,
           NEW c, NEW d,
           Item(s, r, p, salt, c).item_id = Item(t, u, q, other, d).item_id
    PROVE  s = t /\ r = u /\ SameKind(p, q) /\ salt = other /\ c = d
<1>1. ItemId(s, r, p, salt, c) = ItemId(t, u, q, other, d)
  BY DEF Item
<1>2. /\ s = t /\ p.op = q.op /\ IdentityValue(p) = IdentityValue(q) /\ p.invert = q.invert
      /\ salt = other /\ c = d
  BY <1>1 DEF ItemId
<1>3. /\ r.region_id = u.region_id /\ r.instance = u.instance /\ r.kind = u.kind
      /\ r.params = u.params /\ r.ref = u.ref /\ r.ref_hash = u.ref_hash
  BY <1>1 DEF ItemId
<1>4. r = u
  BY <1>3 DEF IsRegion
<1> QED BY <1>2, <1>4 DEF SameKind

\* and two that agree in all of it have one identity
LEMMA KindIds ==
    ASSUME NEW s, NEW r, NEW p, NEW q, SameKind(p, q), NEW salt, NEW c
    PROVE  Item(s, r, p, salt, c).item_id = Item(s, r, q, salt, c).item_id
BY DEF Item, ItemId, SameKind

\* a row has an item for every salt
LEMMA RowIs ==
    ASSUME NEW sample, NEW region, NEW p, IsSeq(p.salts), NEW c
    PROVE  /\ IsSeq(Row(sample, region, p, c))
           /\ Len(Row(sample, region, p, c)) = Len(p.salts)
           /\ \A k \in 1..Len(p.salts) :
                Row(sample, region, p, c)[k] = Item(sample, region, p, p.salts[k], c)
<1> DEFINE row == Row(sample, region, p, c)
<1>1. Len(p.salts) \in Nat /\ DOMAIN p.salts = 1..Len(p.salts)
  BY SequenceIs
<1>2. row = [k \in 1..Len(p.salts) |-> Item(sample, region, p, p.salts[k], c)]
  BY <1>1 DEF Row
<1> HIDE DEF row
<1>3. row = [k \in 1..Len(p.salts) |-> row[k]]
  BY <1>2
<1>4. IsSeq(row) /\ Len(row) = Len(p.salts)
  BY <1>1, <1>3, MadeSequence
<1> QED BY <1>2, <1>4 DEF row

\* there is a row for every perturbation
LEMMA RowsAre ==
    ASSUME NEW sample, NEW region, NEW ps, IsSeq(ps), SaltsOnce(ps), NEW c
    PROVE  LET rows == RowsOf(sample, region, ps, c) IN
           /\ Len(ps) \in Nat /\ DOMAIN ps = 1..Len(ps)
           /\ rows = [i \in 1..Len(ps) |-> rows[i]]
           /\ \A i \in 1..Len(ps) : rows[i] = Row(sample, region, ps[i], c) /\ IsSeq(rows[i])
<1>1. Len(ps) \in Nat /\ DOMAIN ps = 1..Len(ps)
  BY SequenceIs
<1>2. \A i \in 1..Len(ps) : IsSeq(Row(sample, region, ps[i], c))
  BY <1>1, RowIs DEF SaltsOnce
<1> QED BY <1>1, <1>2 DEF RowsOf

\* the items of a region: one for every perturbation and salt of it
LEMMA VariantsAre ==
    ASSUME NEW sample, NEW region, NEW ps, IsSeq(ps), SaltsOnce(ps), NEW c
    PROVE  /\ IsSeq(Variants(sample, region, ps, c))
           /\ \A x : x \in Members(Variants(sample, region, ps, c))
                        <=> VariantOf(x, sample, region, ps, c)
<1> DEFINE rows == RowsOf(sample, region, ps, c)
<1>1. /\ Len(ps) \in Nat /\ DOMAIN ps = 1..Len(ps)
      /\ rows = [i \in 1..Len(ps) |-> rows[i]]
      /\ \A i \in 1..Len(ps) : rows[i] = Row(sample, region, ps[i], c) /\ IsSeq(rows[i])
  BY RowsAre
<1>2. Variants(sample, region, ps, c) = FlattenSeq(rows)
  BY DEF Variants
<1> HIDE DEF rows
<1>3. IsSeq(FlattenSeq(rows))
  BY <1>1, FlatSequence
<1>4. Members(FlattenSeq(rows)) = UNION {Members(rows[i]) : i \in 1..Len(ps)}
  BY <1>1, FlatSequence
<1>5. ASSUME NEW i \in 1..Len(ps), NEW x
      PROVE  x \in Members(rows[i]) <=>
                \E k \in 1..Len(ps[i].salts) : x = Item(sample, region, ps[i], ps[i].salts[k], c)
  <2>1. IsSeq(ps[i].salts) /\ rows[i] = Row(sample, region, ps[i], c)
    BY <1>1 DEF SaltsOnce
  <2>2. Len(rows[i]) = Len(ps[i].salts)
    BY <2>1, RowIs
  <2>3. \A k \in 1..Len(ps[i].salts) : rows[i][k] = Item(sample, region, ps[i], ps[i].salts[k], c)
    BY <2>1, RowIs
  <2> QED BY <2>2, <2>3 DEF Members
<1>6. ASSUME NEW x PROVE x \in Members(FlattenSeq(rows)) <=> VariantOf(x, sample, region, ps, c)
  BY <1>1, <1>4, <1>5 DEF VariantOf
<1> QED BY <1>2, <1>3, <1>6

\* one region: an identity twice needs two perturbations that are twins
LEMMA VariantsOnce ==
    ASSUME NEW sample, NEW region, IsRegion(region), NEW ps, IsSeq(ps), SaltsOnce(ps), NEW c
    PROVE  IdsOnce(Variants(sample, region, ps, c)) <=> NoTwins(ps)
<1> DEFINE rows == RowsOf(sample, region, ps, c)
<1>1. /\ Len(ps) \in Nat /\ DOMAIN ps = 1..Len(ps)
      /\ rows = [i \in 1..Len(ps) |-> rows[i]]
      /\ \A i \in 1..Len(ps) : rows[i] = Row(sample, region, ps[i], c) /\ IsSeq(rows[i])
  BY RowsAre
<1>2. Variants(sample, region, ps, c) = FlattenSeq(rows)
  BY DEF Variants
<1> HIDE DEF rows
<1>3. IdsOnce(FlattenSeq(rows)) <=>
         /\ \A i \in 1..Len(ps) : IdsOnce(rows[i])
         /\ \A i, j \in 1..Len(ps) : i # j => IdsApart(rows[i], rows[j])
  BY <1>1, FlatIds
<1>4. ASSUME NEW i \in 1..Len(ps)
      PROVE  /\ IsSeq(ps[i].salts) /\ Once(ps[i].salts) /\ Len(rows[i]) = Len(ps[i].salts)
             /\ \A k \in 1..Len(ps[i].salts) :
                   rows[i][k] = Item(sample, region, ps[i], ps[i].salts[k], c)
  <2>1. IsSeq(ps[i].salts) /\ Once(ps[i].salts) /\ rows[i] = Row(sample, region, ps[i], c)
    BY <1>1 DEF SaltsOnce
  <2>2. Len(rows[i]) = Len(ps[i].salts)
    BY <2>1, RowIs
  <2>3. \A k \in 1..Len(ps[i].salts) : rows[i][k] = Item(sample, region, ps[i], ps[i].salts[k], c)
    BY <2>1, RowIs
  <2> QED BY <2>1, <2>2, <2>3
<1>5. \A i \in 1..Len(ps) : IdsOnce(rows[i])
  <2> SUFFICES ASSUME NEW i \in 1..Len(ps), NEW a \in 1..Len(rows[i]), NEW b \in 1..Len(rows[i]),
                      rows[i][a].item_id = rows[i][b].item_id
               PROVE  a = b
    BY DEF IdsOnce
  <2> DEFINE s == ps[i].salts
  <2>1. a \in 1..Len(s) /\ b \in 1..Len(s) /\ Once(s)
    BY <1>4
  <2>2. Item(sample, region, ps[i], s[a], c).item_id = Item(sample, region, ps[i], s[b], c).item_id
    BY <1>4, <2>1
  <2> HIDE DEF s
  <2>3. s[a] = s[b]
    BY <2>2, SameIds
  <2> QED BY <2>1, <2>3 DEF Once
<1>6. ASSUME NEW i \in 1..Len(ps), NEW j \in 1..Len(ps)
      PROVE  IdsApart(rows[i], rows[j]) <=> ~Twins(ps[i], ps[j])
  <2>1. /\ Len(rows[i]) = Len(ps[i].salts) /\ Len(rows[j]) = Len(ps[j].salts)
        /\ Range(ps[i].salts) = Members(ps[i].salts) /\ Range(ps[j].salts) = Members(ps[j].salts)
    BY <1>4, SequenceIs
  <2>2. ASSUME Twins(ps[i], ps[j]) PROVE ~IdsApart(rows[i], rows[j])
    <3>1. SameKind(ps[i], ps[j]) /\ Range(ps[i].salts) \cap Range(ps[j].salts) # {}
      BY <2>2 DEF Twins, SameKind
    <3>2. PICK salt : salt \in Members(ps[i].salts) /\ salt \in Members(ps[j].salts)
      BY <2>1, <3>1
    <3>3. PICK a \in 1..Len(ps[i].salts) : ps[i].salts[a] = salt
      BY <3>2 DEF Members
    <3>4. PICK b \in 1..Len(ps[j].salts) : ps[j].salts[b] = salt
      BY <3>2 DEF Members
    <3>5. rows[i][a] = Item(sample, region, ps[i], salt, c)
      BY <1>4, <3>3
    <3>6. rows[j][b] = Item(sample, region, ps[j], salt, c)
      BY <1>4, <3>4
    <3>7. rows[i][a].item_id = rows[j][b].item_id
      BY <3>1, <3>5, <3>6, KindIds
    <3> QED BY <2>1, <3>3, <3>4, <3>7 DEF IdsApart
  <2>3. ASSUME NEW a \in 1..Len(rows[i]), NEW b \in 1..Len(rows[j]),
               rows[i][a].item_id = rows[j][b].item_id
        PROVE  Twins(ps[i], ps[j])
    <3> DEFINE s == ps[i].salts
    <3> DEFINE t == ps[j].salts
    <3>1. a \in 1..Len(s) /\ b \in 1..Len(t)
      BY <2>1
    <3>2. Item(sample, region, ps[i], s[a], c).item_id = Item(sample, region, ps[j], t[b], c).item_id
      BY <1>4, <2>3, <3>1
    <3>3. s[a] \in Range(s) /\ t[b] \in Range(t)
      BY <2>1, <3>1 DEF Members
    <3> HIDE DEF s, t
    <3>4. SameKind(ps[i], ps[j]) /\ s[a] = t[b]
      BY <3>2, SameIds
    <3> QED BY <3>3, <3>4 DEF Twins, SameKind, s, t
  <2> QED BY <2>2, <2>3 DEF IdsApart
<1>7. (\A i, j \in 1..Len(ps) : i # j => ~Twins(ps[i], ps[j])) <=> NoTwins(ps)
  <2>1. \A i, j : Twins(ps[i], ps[j]) => Twins(ps[j], ps[i])
    BY DEF Twins
  <2>2. \A i, j \in 1..Len(ps) : (i < j => i # j) /\ (i # j => i < j \/ j < i)
    OBVIOUS
  <2> QED BY <1>1, <2>1, <2>2 DEF NoTwins
<1> QED BY <1>2, <1>3, <1>5, <1>6, <1>7

\* the items of some regions are those of each, one after the other
LEMMA ItemsOfIs ==
    ASSUME NEW sample, NEW regions, IsSeq(regions), NEW ps, IsSeq(ps), SaltsOnce(ps), NEW c
    PROVE  LET all == [r \in DOMAIN regions |-> Variants(sample, regions[r], ps, c)] IN
           /\ ItemsOf(sample, regions, ps, c) = FlattenSeq(all)
           /\ Len(regions) \in Nat /\ DOMAIN regions = 1..Len(regions)
           /\ all = [i \in 1..Len(regions) |-> all[i]]
           /\ \A i \in 1..Len(regions) :
                 all[i] = Variants(sample, regions[i], ps, c) /\ IsSeq(all[i])
<1> DEFINE all == [r \in DOMAIN regions |-> Variants(sample, regions[r], ps, c)]
<1>1. Len(regions) \in Nat /\ DOMAIN regions = 1..Len(regions)
  BY SequenceIs
<1>2. ItemsOf(sample, regions, ps, c) = FlattenSeq(all)
  BY DEF ItemsOf, Variants, RowsOf, Row
<1>3. \A i \in 1..Len(regions) : IsSeq(Variants(sample, regions[i], ps, c))
  BY VariantsAre
<1> QED BY <1>1, <1>2, <1>3

\* the items of some regions: one for every region, perturbation and salt
LEMMA ItemsMembers ==
    ASSUME NEW sample, NEW regions, IsSeq(regions), NEW ps, IsSeq(ps), SaltsOnce(ps), NEW c
    PROVE  /\ IsSeq(ItemsOf(sample, regions, ps, c))
           /\ \A x : x \in Members(ItemsOf(sample, regions, ps, c))
                        <=> \E r \in Members(regions) : VariantOf(x, sample, r, ps, c)
<1> DEFINE all == [r \in DOMAIN regions |-> Variants(sample, regions[r], ps, c)]
<1>1. /\ ItemsOf(sample, regions, ps, c) = FlattenSeq(all)
      /\ Len(regions) \in Nat /\ DOMAIN regions = 1..Len(regions)
      /\ all = [i \in 1..Len(regions) |-> all[i]]
      /\ \A i \in 1..Len(regions) :
                 all[i] = Variants(sample, regions[i], ps, c) /\ IsSeq(all[i])
  BY ItemsOfIs
<1> HIDE DEF all
<1>2. IsSeq(FlattenSeq(all))
  BY <1>1, FlatSequence
<1>3. Members(FlattenSeq(all)) = UNION {Members(all[i]) : i \in 1..Len(regions)}
  BY <1>1, FlatSequence
<1>4. ASSUME NEW i \in 1..Len(regions), NEW x
      PROVE  x \in Members(all[i]) <=> VariantOf(x, sample, regions[i], ps, c)
  BY <1>1, VariantsAre
<1>5. ASSUME NEW x
      PROVE  x \in Members(FlattenSeq(all))
                <=> \E r \in Members(regions) : VariantOf(x, sample, r, ps, c)
  <2>1. x \in Members(FlattenSeq(all)) <=> \E i \in 1..Len(regions) : x \in Members(all[i])
    BY <1>3
  <2>2. x \in Members(FlattenSeq(all))
           <=> \E i \in 1..Len(regions) : VariantOf(x, sample, regions[i], ps, c)
    BY <1>4, <2>1
  <2> QED BY <2>2 DEF Members
<1> QED BY <1>1, <1>2, <1>5

\* ids are distinct if and only if no two perturbations are twins
LEMMA ItemsOnce ==
    ASSUME NEW sample, NEW regions, Regions(regions), NEW ps, IsSeq(ps), SaltsOnce(ps), NEW c
    PROVE  /\ NoTwins(ps) => IdsOnce(ItemsOf(sample, regions, ps, c))
           /\ (IdsOnce(ItemsOf(sample, regions, ps, c)) /\ Len(regions) # 0) => NoTwins(ps)
<1> DEFINE all == [r \in DOMAIN regions |-> Variants(sample, regions[r], ps, c)]
<1>0. IsSeq(regions)
  BY DEF Regions
<1>1. /\ ItemsOf(sample, regions, ps, c) = FlattenSeq(all)
      /\ Len(regions) \in Nat /\ DOMAIN regions = 1..Len(regions)
      /\ all = [i \in 1..Len(regions) |-> all[i]]
      /\ \A i \in 1..Len(regions) :
                 all[i] = Variants(sample, regions[i], ps, c) /\ IsSeq(all[i])
  BY <1>0, ItemsOfIs
<1> HIDE DEF all
<1>2. IdsOnce(FlattenSeq(all)) <=>
         /\ \A i \in 1..Len(regions) : IdsOnce(all[i])
         /\ \A i, j \in 1..Len(regions) : i # j => IdsApart(all[i], all[j])
  BY <1>1, FlatIds
<1>3. \A i \in 1..Len(regions) : IsRegion(regions[i])
  BY DEF Regions, Members
<1>4. \A i \in 1..Len(regions) : IdsOnce(all[i]) <=> NoTwins(ps)
  BY <1>1, <1>3, VariantsOnce
<1>5. ASSUME NEW i \in 1..Len(regions), NEW j \in 1..Len(regions), i # j,
             NEW a \in 1..Len(all[i]), NEW b \in 1..Len(all[j]),
             all[i][a].item_id = all[j][b].item_id
      PROVE  FALSE
  <2>1. all[i][a] \in Members(all[i]) /\ all[j][b] \in Members(all[j])
    BY DEF Members
  <2>2. VariantOf(all[i][a], sample, regions[i], ps, c)
    BY <1>1, <2>1, VariantsAre
  <2>3. VariantOf(all[j][b], sample, regions[j], ps, c)
    BY <1>1, <2>1, VariantsAre
  <2>4. PICK p, salt : all[i][a] = Item(sample, regions[i], p, salt, c)
    BY <2>2 DEF VariantOf
  <2>5. PICK q, other : all[j][b] = Item(sample, regions[j], q, other, c)
    BY <2>3 DEF VariantOf
  <2>6. regions[i] = regions[j]
    BY <1>3, <1>5, <2>4, <2>5, SameIds
  <2> QED BY <1>5, <2>6 DEF Regions, Once
<1>6. NoTwins(ps) => IdsOnce(FlattenSeq(all))
  BY <1>2, <1>4, <1>5 DEF IdsApart
<1>7. (IdsOnce(FlattenSeq(all)) /\ Len(regions) # 0) => NoTwins(ps)
  <2>1. Len(regions) # 0 => 1 \in 1..Len(regions)
    BY <1>1
  <2> QED BY <1>2, <1>4, <2>1
<1> QED BY <1>1, <1>6, <1>7

-----------------------------------------------------------------------------
(* The regions of a sample.                                                *)

\* what a resolved configuration has passed
FamilyIs(r) ==
    /\ r.kind \in Families
    /\ r.kind = "grid" => r.params.rows \in Nat \ {0} /\ r.params.cols \in Nat \ {0}
    /\ r.kind = "skeleton_parts" => r.params.scale \in Int
Validated(c) ==
    /\ Expandable(c) /\ SaltsOnce(c.perturbations)
    /\ IsSeq(c.regions) /\ Len(c.regions) # 0 /\ Once(RegionIds(c))
    /\ \A f \in DOMAIN c.regions : FamilyIs(c.regions[f])
    /\ \A p \in DOMAIN c.perturbations : c.perturbations[p].invert \in BOOLEAN

\* the cells of a grid are numbered row by row
LEMMA CellsAre ==
    ASSUME NEW family, family.params.rows \in Nat \ {0}, family.params.cols \in Nat \ {0}
    PROVE  LET rows == family.params.rows
               cols == family.params.cols
               g == GridCells(family) IN
           /\ IsSeq(g) /\ Len(g) = rows * cols /\ Len(g) \in Nat \ {0}
           /\ \A k \in 1..Len(g) :
                /\ (k - 1) \div cols \in 0..rows - 1 /\ (k - 1) % cols \in 0..cols - 1
                /\ k - 1 = ((k - 1) \div cols) * cols + ((k - 1) % cols)
                /\ g[k] = RegionSpec(<<family.region_id>>,
                             <<family.region_id, (k - 1) \div cols, (k - 1) % cols>>, "grid",
                             [rows |-> rows, cols |-> cols, row |-> (k - 1) \div cols,
                              col |-> (k - 1) % cols], None, None)
<1> DEFINE rows == family.params.rows
<1> DEFINE cols == family.params.cols
<1> DEFINE n == rows * cols
<1> DEFINE g == GridCells(family)
<1> DEFINE cell(k) == RegionSpec(<<family.region_id>>,
                             <<family.region_id, (k - 1) \div cols, (k - 1) % cols>>, "grid",
                             [rows |-> rows, cols |-> cols, row |-> (k - 1) \div cols,
                              col |-> (k - 1) % cols], None, None)
<1>1. n \in Nat \ {0}
  <2>1. ASSUME NEW a \in Nat \ {0}, NEW b \in Nat \ {0} PROVE a * b \in Nat \ {0}
    OBVIOUS
  <2> QED BY <2>1
<1>2. g = [k \in 1..n |-> cell(k)]
  BY DEF GridCells
<1> HIDE DEF g, cell
<1>3. g = [k \in 1..n |-> g[k]]
  BY <1>2
<1>4. IsSeq(g) /\ Len(g) = n
  <2> HIDE DEF n
  <2> QED BY <1>1, <1>3, MadeSequence
<1>5. ASSUME NEW k \in 1..n
      PROVE  /\ (k - 1) \div cols \in 0..rows - 1 /\ (k - 1) % cols \in 0..cols - 1
             /\ k - 1 = ((k - 1) \div cols) * cols + ((k - 1) % cols)
  <2>1. k - 1 \in 0..rows * cols - 1 /\ rows \in Nat /\ cols \in Nat
    BY <1>1
  <2> HIDE DEF rows, cols, n
  <2> QED BY <2>1, TileOf
<1>6. \A k \in 1..n : g[k] = cell(k)
  BY <1>2
<1> QED BY <1>1, <1>4, <1>5, <1>6 DEF g, cell

\* the instances of a family are of it, distinct, and there are some but for a
\* sample that lacks the part
LEMMA InstancesOnce ==
    ASSUME NEW sample, NEW family, FamilyIs(family)
    PROVE  /\ Regions(Instances(sample, family))
           /\ \A x \in Members(Instances(sample, family)) :
                 x.region_id = <<family.region_id>> /\ x.kind = family.kind
           /\ Expands(sample, family) <=> Len(Instances(sample, family)) # 0
           /\ Expands(sample, family) <=>
                 ~(family.kind = "skeleton_parts"
                   /\ <<sample, family.params.part>> \notin PartsTracked)
<1> DEFINE g == Instances(sample, family)
<1> DEFINE id == <<family.region_id>>
<1> DEFINE Fine == /\ Regions(g)
                   /\ \A x \in Members(g) : x.region_id = id /\ x.kind = family.kind
<1>1. CASE family.kind = "grid"
  <2> DEFINE cols == family.params.cols
  <2>1. g = GridCells(family) /\ family.params.rows \in Nat \ {0} /\ cols \in Nat \ {0}
    BY <1>1 DEF Instances, FamilyIs
  <2> HIDE DEF g
  <2>2. IsSeq(g) /\ Len(g) \in Nat \ {0}
    BY <2>1, CellsAre
  <2>3. ASSUME NEW k \in 1..Len(g)
        PROVE  /\ k - 1 = ((k - 1) \div cols) * cols + ((k - 1) % cols)
               /\ g[k] = RegionSpec(id, <<family.region_id, (k - 1) \div cols, (k - 1) % cols>>,
                             "grid",
                             [rows |-> family.params.rows, cols |-> cols,
                              row |-> (k - 1) \div cols, col |-> (k - 1) % cols], None, None)
    BY <2>1, CellsAre
  <2>4. \A k \in 1..Len(g) : /\ g[k].region_id = id /\ g[k].kind = family.kind /\ IsRegion(g[k])
                             /\ g[k].params.row = (k - 1) \div cols
                             /\ g[k].params.col = (k - 1) % cols
    <3> TAKE k \in 1..Len(g)
    <3> DEFINE u == (k - 1) \div cols
    <3> DEFINE v == (k - 1) % cols
    <3>1. g[k] = RegionSpec(id, <<family.region_id, u, v>>, "grid",
                            [rows |-> family.params.rows, cols |-> cols, row |-> u, col |-> v],
                            None, None)
      BY <2>3
    <3> HIDE DEF u, v
    <3>2. g[k].params.row = u /\ g[k].params.col = v
      BY <3>1 DEF RegionSpec
    <3>3. IsRegion(g[k])
      BY <3>1 DEF RegionSpec, IsRegion
    <3>4. g[k].region_id = id /\ g[k].kind = family.kind
      BY <1>1, <3>1 DEF RegionSpec
    <3> QED BY <3>2, <3>3, <3>4 DEF u, v
  <2>5. ASSUME NEW a \in 1..Len(g), NEW b \in 1..Len(g), g[a] = g[b] PROVE a = b
    <3>1. (a - 1) \div cols = (b - 1) \div cols /\ (a - 1) % cols = (b - 1) % cols
      BY <2>4, <2>5
    <3>2. a - 1 = b - 1
      BY <2>3, <3>1
    <3> QED BY <3>2
  <2>6. Fine
    BY <2>2, <2>4, <2>5 DEF Regions, Once, Members
  <2>7. Len(g) # 0 /\ g # <<>>
    <3>1. Len(<<>>) = 0
      OBVIOUS
    <3> QED BY <2>2, <3>1
  <2> QED BY <1>1, <2>6, <2>7 DEF Expands, g
<1>2. ASSUME NEW x, IsRegion(x), x.region_id = id, x.kind = family.kind, g = <<x>>
      PROVE  Fine /\ Len(g) # 0 /\ g # <<>>
  <2> HIDE DEF g
  <2>1. <<x>> \in Seq({x}) /\ Len(<<x>>) = 1 /\ <<x>>[1] = x /\ 1..1 = {1} /\ <<x>> # <<>>
    OBVIOUS
  <2>2. IsSeq(g)
    BY <1>2, <2>1, SequenceOf
  <2>3. Members(g) = {x} /\ Once(g)
    BY <1>2, <2>1 DEF Members, Once
  <2> QED BY <1>2, <2>1, <2>2, <2>3 DEF Regions
<1>3. CASE family.kind = "explicit"
  <2> DEFINE x == RegionSpec(id, <<family.region_id>>, "explicit", <<>>, family.ref, family.ref_hash)
  <2>1. g = <<x>> /\ IsRegion(x) /\ x.region_id = id /\ x.kind = family.kind
    BY <1>3 DEF Instances, RegionSpec, IsRegion
  <2> HIDE DEF x, g
  <2>2. Fine /\ Len(g) # 0 /\ g # <<>>
    BY <1>2, <2>1
  <2> QED BY <1>3, <2>2 DEF Expands, g
<1>4. CASE family.kind = "skeleton_parts"
  <2>1. CASE <<sample, family.params.part>> \notin PartsTracked
    <3>1. g = <<>>
      BY <1>4, <2>1 DEF Instances
    <3>2. <<>> \in Seq({}) /\ Len(<<>>) = 0 /\ 1..0 = {}
      OBVIOUS
    <3>3. IsSeq(g)
      BY <3>1, <3>2, SequenceOf
    <3> HIDE DEF g
    <3>4. Fine /\ Len(g) = 0
      BY <3>1, <3>2, <3>3 DEF Regions, Once, Members
    <3> QED BY <1>4, <2>1, <3>1, <3>4 DEF Expands, g
  <2>2. CASE <<sample, family.params.part>> \in PartsTracked
    <3> DEFINE x == RegionSpec(id, <<family.region_id, sample>>, "skeleton_parts",
                               [sample |-> sample, part |-> family.params.part,
                                scale |-> family.params.scale], None, None)
    <3>1. g = <<x>> /\ IsRegion(x) /\ x.region_id = id /\ x.kind = family.kind
      BY <1>4, <2>2 DEF Instances, RegionSpec, IsRegion
    <3> HIDE DEF x, g
    <3>2. Fine /\ Len(g) # 0 /\ g # <<>>
      BY <1>2, <3>1
    <3> QED BY <1>4, <2>2, <3>2 DEF Expands, g
  <2> QED BY <2>1, <2>2
<1> QED BY <1>1, <1>3, <1>4 DEF FamilyIs, Families

InstancesOf(sample, c) == [f \in DOMAIN c.regions |-> Instances(sample, c.regions[f])]
FamilyNamed(c, id) == CHOOSE f \in DOMAIN c.regions : c.regions[f].region_id = id
ControlsBy(sample, c) ==
    [k \in DOMAIN c.controls |->
        ControlRegions(c.controls[k], k,
                       InstancesOf(sample, c)[FamilyNamed(c, c.controls[k].match_area_of)])]
Own(sample, c) == FlattenSeq(InstancesOf(sample, c))
Added(sample, c) == FlattenSeq(ControlsBy(sample, c))

\* a sample has the items of its regions, then those of the controls
LEMMA ItemsSplit ==
    ASSUME NEW sample, NEW c
    PROVE  SampleItems(sample, c) = ItemsOf(sample, Own(sample, c), c.perturbations, FALSE)
                                    \o ItemsOf(sample, Added(sample, c), c.perturbations, TRUE)
BY DEF SampleItems, Own, Added, InstancesOf, ControlsBy, FamilyNamed

\* instances of two families differ in their region_id
LEMMA OwnAre ==
    ASSUME NEW sample, NEW c, Validated(c)
    PROVE  /\ Regions(Own(sample, c))
           /\ \A x : x \in Members(Own(sample, c))
                <=> \E f \in DOMAIN c.regions : x \in Members(Instances(sample, c.regions[f]))
<1> DEFINE F == InstancesOf(sample, c)
<1> DEFINE n == Len(c.regions)
<1>1. /\ IsSeq(c.regions) /\ n \in Nat /\ DOMAIN c.regions = 1..n
  BY SequenceIs DEF Validated
<1>2. /\ F = [i \in 1..n |-> F[i]] /\ \A i \in 1..n : F[i] = Instances(sample, c.regions[i])
  BY <1>1 DEF InstancesOf
<1> HIDE DEF F, n
<1>3. ASSUME NEW i \in 1..n
      PROVE  /\ Regions(F[i]) /\ \A x \in Members(F[i]) : x.region_id = <<c.regions[i].region_id>>
  <2>1. FamilyIs(c.regions[i])
    BY <1>1 DEF Validated
  <2>2. Regions(Instances(sample, c.regions[i]))
    BY <2>1, InstancesOnce
  <2>3. \A x \in Members(Instances(sample, c.regions[i])) : x.region_id = <<c.regions[i].region_id>>
    BY <2>1, InstancesOnce
  <2> QED BY <1>2, <2>2, <2>3
<1>4. \A i \in 1..n : IsSeq(F[i]) /\ Once(F[i])
  BY <1>3 DEF Regions
<1>5. ASSUME NEW i \in 1..n, NEW j \in 1..n, i # j PROVE Disjoint(F[i], F[j])
  <2> SUFFICES ASSUME NEW a \in 1..Len(F[i]), NEW b \in 1..Len(F[j]), F[i][a] = F[j][b]
               PROVE  FALSE
    BY DEF Disjoint
  <2>1. F[i][a] \in Members(F[i]) /\ F[j][b] \in Members(F[j])
    BY DEF Members
  <2>2. <<c.regions[i].region_id>> = <<c.regions[j].region_id>>
    BY <1>3, <1>5, <2>1
  <2>3. RegionIds(c)[i] = RegionIds(c)[j] /\ Len(RegionIds(c)) = n
    <3> DEFINE ids == RegionIds(c)
    <3>1. ids = [k \in 1..n |-> c.regions[k].region_id]
      BY <1>1 DEF RegionIds
    <3> HIDE DEF ids
    <3>2. ids = [k \in 1..n |-> ids[k]]
      BY <3>1
    <3>3. Len(ids) = n
      BY <1>1, <3>2, MadeSequence
    <3> QED BY <2>2, <3>1, <3>3 DEF ids
  <2> QED BY <1>5, <2>3 DEF Validated, Once
<1>6. IsSeq(FlattenSeq(F))
  BY <1>1, <1>2, <1>4, FlatSequence
<1>7. Members(FlattenSeq(F)) = UNION {Members(F[i]) : i \in 1..n}
  BY <1>1, <1>2, <1>4, FlatSequence
<1>8. Once(FlattenSeq(F))
  BY <1>1, <1>2, <1>4, <1>5, FlatOnce
<1>9. \A x \in Members(FlattenSeq(F)) : IsRegion(x)
  BY <1>3, <1>7 DEF Regions
<1>10. ASSUME NEW x
       PROVE  x \in Members(FlattenSeq(F))
                <=> \E f \in DOMAIN c.regions : x \in Members(Instances(sample, c.regions[f]))
  <2>1. x \in Members(FlattenSeq(F)) <=> \E i \in 1..n : x \in Members(F[i])
    BY <1>7
  <2> QED BY <1>1, <1>2, <2>1
<1> QED BY <1>6, <1>8, <1>9, <1>10 DEF Own, Regions, F

ControlOf(x, control, k, targets) ==
    \E t \in Members(targets), i \in 1..control.n_samples : x = ControlRegion(control, k, t, i)

\* the controls of a request: so many of every target, all distinct
LEMMA ControlsOnce ==
    ASSUME NEW control, control.n_samples \in Nat, NEW k, NEW targets, Regions(targets)
    PROVE  /\ Regions(ControlRegions(control, k, targets))
           /\ \A x : x \in Members(ControlRegions(control, k, targets))
                        <=> ControlOf(x, control, k, targets)
<1> DEFINE n == Len(targets)
<1> DEFINE m == control.n_samples
<1> DEFINE row(t) == [i \in 1..m |-> ControlRegion(control, k, targets[t], i)]
<1> DEFINE F == [t \in DOMAIN targets |-> row(t)]
<1>1. n \in Nat /\ DOMAIN targets = 1..n /\ IsSeq(targets) /\ Once(targets)
  BY SequenceIs DEF Regions
<1>2. ControlRegions(control, k, targets) = FlattenSeq(F)
  BY DEF ControlRegions
<1>3. F = [t \in 1..n |-> F[t]] /\ \A t \in 1..n : F[t] = row(t)
  BY <1>1
<1> HIDE DEF F, n
<1>4. ASSUME NEW t \in 1..n
      PROVE  /\ IsSeq(F[t]) /\ Len(F[t]) = m
             /\ \A i \in 1..m : F[t][i] = ControlRegion(control, k, targets[t], i)
  <2> DEFINE s == row(t)
  <2>1. s = [i \in 1..m |-> s[i]]
    OBVIOUS
  <2>2. \A i \in 1..m : s[i] = ControlRegion(control, k, targets[t], i)
    OBVIOUS
  <2> HIDE DEF s
  <2>3. IsSeq(s) /\ Len(s) = m
    BY <2>1, MadeSequence
  <2> QED BY <1>3, <2>2, <2>3 DEF s
<1> HIDE DEF row
<1>5. ASSUME NEW t, NEW u, NEW i, NEW j,
             ControlRegion(control, k, t, i) = ControlRegion(control, k, u, j)
      PROVE  t = u /\ i = j
  <2>1. /\ ControlRegion(control, k, t, i).params
             = [target_region |-> t, request |-> k, index |-> i]
        /\ ControlRegion(control, k, u, j).params
             = [target_region |-> u, request |-> k, index |-> j]
    BY DEF ControlRegion, RegionSpec
  <2> QED BY <1>5, <2>1
<1>6. \A t \in 1..n : Once(F[t])
  <2> SUFFICES ASSUME NEW t \in 1..n, NEW a \in 1..m, NEW b \in 1..m, F[t][a] = F[t][b]
               PROVE  a = b
    BY <1>4 DEF Once
  <2>1. ControlRegion(control, k, targets[t], a) = ControlRegion(control, k, targets[t], b)
    BY <1>4
  <2> QED BY <1>5, <2>1
<1>7. ASSUME NEW t \in 1..n, NEW u \in 1..n, t # u PROVE Disjoint(F[t], F[u])
  <2> SUFFICES ASSUME NEW a \in 1..m, NEW b \in 1..m, F[t][a] = F[u][b] PROVE FALSE
    BY <1>4 DEF Disjoint
  <2>1. ControlRegion(control, k, targets[t], a) = ControlRegion(control, k, targets[u], b)
    BY <1>4
  <2>2. targets[t] = targets[u]
    BY <1>5, <2>1
  <2> QED BY <1>1, <1>7, <2>2 DEF Once, n
<1>8. IsSeq(FlattenSeq(F))
  BY <1>1, <1>3, <1>4, FlatSequence
<1>9. Members(FlattenSeq(F)) = UNION {Members(F[t]) : t \in 1..n}
  BY <1>1, <1>3, <1>4, FlatSequence
<1>10. Once(FlattenSeq(F))
  BY <1>1, <1>3, <1>4, <1>6, <1>7, FlatOnce
<1>11. ASSUME NEW x PROVE x \in Members(FlattenSeq(F)) <=> ControlOf(x, control, k, targets)
  <2>1. \A t \in 1..n : x \in Members(F[t])
           <=> \E i \in 1..m : x = ControlRegion(control, k, targets[t], i)
    BY <1>4 DEF Members
  <2>2. x \in Members(FlattenSeq(F)) <=> \E t \in 1..n : x \in Members(F[t])
    BY <1>9
  <2>3. x \in Members(FlattenSeq(F))
          <=> \E t \in 1..n : \E i \in 1..m : x = ControlRegion(control, k, targets[t], i)
    BY <2>1, <2>2
  <2> QED BY <2>3 DEF ControlOf, Members, n
<1>12. \A x \in Members(FlattenSeq(F)) : IsRegion(x)
  BY <1>11 DEF ControlOf, ControlRegion, RegionSpec, IsRegion
<1> QED BY <1>2, <1>8, <1>10, <1>11, <1>12 DEF Regions

\* what a control copies is an instance of a family
ControlMember(x, sample, c) ==
    \E k \in DOMAIN c.controls, f \in DOMAIN c.regions :
       /\ f = FamilyNamed(c, c.controls[k].match_area_of)
       /\ ControlOf(x, c.controls[k], k, Instances(sample, c.regions[f]))

\* the controls of a sample are those of its requests, all distinct
LEMMA AddedAre ==
    ASSUME NEW sample, NEW c, Validated(c)
    PROVE  /\ Regions(Added(sample, c))
           /\ \A x : x \in Members(Added(sample, c)) <=> ControlMember(x, sample, c)
<1> DEFINE F == ControlsBy(sample, c)
<1> DEFINE n == Len(c.controls)
<1> DEFINE target(k) == FamilyNamed(c, c.controls[k].match_area_of)
<1>1. n \in Nat /\ DOMAIN c.controls = 1..n
  BY SequenceIs DEF Validated, Expandable
<1>2. ASSUME NEW k \in 1..n
      PROVE  target(k) \in DOMAIN c.regions /\ c.controls[k].n_samples \in Nat
  BY <1>1 DEF Validated, Expandable, FamilyNamed
<1> HIDE DEF target
<1>3. /\ F = [k \in 1..n |-> F[k]]
      /\ \A k \in 1..n : F[k] = ControlRegions(c.controls[k], k,
                                               Instances(sample, c.regions[target(k)]))
  BY <1>1, <1>2 DEF ControlsBy, InstancesOf, target
<1> HIDE DEF F, n
<1>4. ASSUME NEW k \in 1..n
      PROVE  /\ Regions(F[k])
             /\ \A x : x \in Members(F[k])
                  <=> ControlOf(x, c.controls[k], k, Instances(sample, c.regions[target(k)]))
  <2> DEFINE targets == Instances(sample, c.regions[target(k)])
  <2>1. FamilyIs(c.regions[target(k)])
    BY <1>2 DEF Validated
  <2>2. Regions(targets)
    BY <2>1, InstancesOnce
  <2> HIDE DEF targets
  <2>3. c.controls[k].n_samples \in Nat
    BY <1>2
  <2>4. Regions(ControlRegions(c.controls[k], k, targets))
    BY <2>2, <2>3, ControlsOnce
  <2>5. \A x : x \in Members(ControlRegions(c.controls[k], k, targets))
                <=> ControlOf(x, c.controls[k], k, targets)
    BY <2>2, <2>3, ControlsOnce
  <2> QED BY <1>3, <2>4, <2>5 DEF targets
<1>5. \A k \in 1..n : IsSeq(F[k]) /\ Once(F[k])
  BY <1>4 DEF Regions
<1>6. ASSUME NEW k \in 1..n, NEW a \in 1..Len(F[k])
      PROVE  F[k][a].params.request = k
  <2>1. F[k][a] \in Members(F[k])
    BY DEF Members
  <2>2. PICK t, i : F[k][a] = ControlRegion(c.controls[k], k, t, i)
    BY <1>4, <2>1 DEF ControlOf
  <2> QED BY <2>2 DEF ControlRegion, RegionSpec
<1>7. \A i, j \in 1..n : i # j => Disjoint(F[i], F[j])
  <2> SUFFICES ASSUME NEW i \in 1..n, NEW j \in 1..n, i # j,
                      NEW a \in 1..Len(F[i]), NEW b \in 1..Len(F[j]), F[i][a] = F[j][b]
               PROVE  FALSE
    BY DEF Disjoint
  <2>1. F[i][a].params.request = i /\ F[j][b].params.request = j
    BY <1>6
  <2> QED BY <2>1
<1>8. IsSeq(FlattenSeq(F))
  BY <1>1, <1>3, <1>5, FlatSequence
<1>9. Members(FlattenSeq(F)) = UNION {Members(F[k]) : k \in 1..n}
  BY <1>1, <1>3, <1>5, FlatSequence
<1>10. Once(FlattenSeq(F))
  BY <1>1, <1>3, <1>5, <1>7, FlatOnce
<1>11. \A x \in Members(FlattenSeq(F)) : IsRegion(x)
  BY <1>4, <1>9 DEF Regions
<1>12. ASSUME NEW x PROVE x \in Members(FlattenSeq(F)) <=> ControlMember(x, sample, c)
  <2>1. x \in Members(FlattenSeq(F)) <=> \E k \in 1..n : x \in Members(F[k])
    BY <1>9
  <2>2. x \in Members(FlattenSeq(F))
          <=> \E k \in 1..n : ControlOf(x, c.controls[k], k, Instances(sample, c.regions[target(k)]))
    BY <1>4, <2>1
  <2> QED BY <1>1, <1>2, <2>2 DEF ControlMember, target
<1> QED BY <1>8, <1>10, <1>11, <1>12 DEF Added, Regions, F

\* the items of a sample have one identity each unless there are twins
LEMMA SampleIdsOnce ==
    ASSUME NEW sample, NEW c, Validated(c),
           \A f \in DOMAIN c.regions : Expands(sample, c.regions[f])
    PROVE  /\ IsSeq(SampleItems(sample, c))
           /\ IdsOnce(SampleItems(sample, c)) <=> NoTwins(c.perturbations)
<1> DEFINE ps == c.perturbations
<1> DEFINE own == ItemsOf(sample, Own(sample, c), ps, FALSE)
<1> DEFINE added == ItemsOf(sample, Added(sample, c), ps, TRUE)
<1>1. IsSeq(ps) /\ SaltsOnce(ps)
  BY DEF Validated, Expandable
<1>2. /\ Regions(Own(sample, c)) /\ IsSeq(Own(sample, c)) /\ Regions(Added(sample, c))
      /\ IsSeq(Added(sample, c))
  BY OwnAre, AddedAre DEF Regions
<1> HIDE DEF ps
<1>3. IsSeq(own) /\ IsSeq(added)
  BY <1>1, <1>2, ItemsMembers
<1>4. /\ NoTwins(ps) => IdsOnce(own)
      /\ (IdsOnce(own) /\ Len(Own(sample, c)) # 0) => NoTwins(ps)
  BY <1>1, <1>2, ItemsOnce
<1>5. NoTwins(ps) => IdsOnce(added)
  BY <1>1, <1>2, ItemsOnce
<1>6. Len(Own(sample, c)) # 0
  <2> DEFINE first == Instances(sample, c.regions[1])
  <2>1. 1 \in DOMAIN c.regions
    BY SequenceIs DEF Validated
  <2>2. FamilyIs(c.regions[1]) /\ Expands(sample, c.regions[1])
    BY <2>1 DEF Validated
  <2>3. Len(first) # 0 /\ IsSeq(first)
    BY <2>2, InstancesOnce DEF Regions
  <2> HIDE DEF first
  <2>4. first[1] \in Members(first)
    BY <2>3, SequenceIs DEF Members
  <2>5. first[1] \in Members(Own(sample, c))
    BY <2>1, <2>4, OwnAre DEF first
  <2>6. ASSUME Len(Own(sample, c)) = 0 PROVE FALSE
    <3>1. 1..0 = {}
      OBVIOUS
    <3> QED BY <2>5, <2>6, <3>1 DEF Members
  <2> QED BY <2>6
<1>7. IdsApart(own, added)
  <2> SUFFICES ASSUME NEW a \in 1..Len(own), NEW b \in 1..Len(added),
                      own[a].item_id = added[b].item_id
               PROVE  FALSE
    BY DEF IdsApart
  <2>0. own[a].item_id = added[b].item_id
    OBVIOUS
  <2>1. own[a] \in Members(own) /\ added[b] \in Members(added)
    BY DEF Members
  <2> HIDE DEF own, added
  <2>2. PICK r \in Members(Own(sample, c)) : VariantOf(own[a], sample, r, ps, FALSE)
    BY <1>1, <1>2, <2>1, ItemsMembers DEF own
  <2>3. PICK u \in Members(Added(sample, c)) : VariantOf(added[b], sample, u, ps, TRUE)
    BY <1>1, <1>2, <2>1, ItemsMembers DEF added
  <2>4. PICK p, salt : own[a] = Item(sample, r, p, salt, FALSE)
    BY <2>2 DEF VariantOf
  <2>5. PICK q, other : added[b] = Item(sample, u, q, other, TRUE)
    BY <2>3 DEF VariantOf
  <2>6. own[a].item_id[6] = FALSE /\ added[b].item_id[6] = TRUE
    <3>1. Item(sample, r, p, salt, FALSE).item_id[6] = FALSE
      <4>1. Item(sample, r, p, salt, FALSE).item_id = ItemId(sample, r, p, salt, FALSE)
        BY DEF Item
      <4>2. ItemId(sample, r, p, salt, FALSE)[6] = FALSE
        BY DEF ItemId
      <4> QED BY <4>1, <4>2
    <3>2. Item(sample, u, q, other, TRUE).item_id[6] = TRUE
      <4>1. Item(sample, u, q, other, TRUE).item_id = ItemId(sample, u, q, other, TRUE)
        BY DEF Item
      <4>2. ItemId(sample, u, q, other, TRUE)[6] = TRUE
        BY DEF ItemId
      <4> QED BY <4>1, <4>2
    <3> QED BY <2>4, <2>5, <3>1, <3>2
  <2>7. own[a].item_id[6] = added[b].item_id[6]
    BY <2>0
  <2> QED BY <2>6, <2>7
<1>8. SampleItems(sample, c) = own \o added
  BY ItemsSplit DEF ps
<1> HIDE DEF own, added
<1>9. IsSeq(own \o added)
  BY <1>3, JoinedSequence
<1>10. IdsOnce(own \o added) <=> IdsOnce(own) /\ IdsOnce(added) /\ IdsApart(own, added)
  BY <1>3, JoinedIds
<1> QED BY <1>4, <1>5, <1>6, <1>7, <1>8, <1>9, <1>10 DEF ps

\* a resolved configuration is accepted: what validation asked of it still holds
LEMMA ResolvedValidated ==
    ASSUME NEW c \in Configs, NEW fs, NEW readable, Resolves(c, fs, readable)
    PROVE  Validated(Resolved(c, fs, readable))
<1> DEFINE r == Resolved(c, fs, readable)
<1>0. c \in Shape(c) /\ ConfigOK(c)
  BY ConfigsAssumption DEF Resolves
<1>1. IsSeq(c.regions) /\ IsSeq(c.perturbations)
  BY <1>0 DEF Shape, IsSeq
<1>2. /\ r \in Shape(r)
      /\ r.regions = RegionsResolved(c, fs) /\ r.perturbations = ValuesResolved(c, readable)
  BY <1>0, ResolvedShape
<1>3. Expandable(r)
  BY ResolvedExpands
<1>4. IsSeq(r.regions)
  BY <1>3 DEF Expandable
<1>5. DOMAIN r.regions = DOMAIN c.regions /\ DOMAIN r.perturbations = DOMAIN c.perturbations
  BY <1>2 DEF RegionsResolved, ValuesResolved
<1>6. ASSUME NEW f \in DOMAIN c.regions
      PROVE  /\ c.regions[f] \in Range(c.regions)
             /\ r.regions[f].region_id = c.regions[f].region_id
             /\ r.regions[f].kind = c.regions[f].kind
             /\ r.regions[f].params = c.regions[f].params
  <2>1. c.regions[f] \in Range(c.regions)
    BY DEF Range
  <2>2. c.regions[f] \in FamilyShape(c.regions[f])
    BY <2>1, ConfigsAssumption
  <2>3. r.regions[f] = ResolvedRegion(c.regions[f], fs)
    BY <1>2 DEF RegionsResolved
  <2> QED BY <2>1, <2>2, <2>3, RegionKept
<1>7. SaltsOnce(r.perturbations)
  <2> SUFFICES ASSUME NEW p \in DOMAIN r.perturbations
               PROVE  IsSeq(r.perturbations[p].salts) /\ Once(r.perturbations[p].salts)
    BY DEF SaltsOnce
  <2> DEFINE q == c.perturbations[p]
  <2>1. r.perturbations[p] = ResolvedPerturbation(q, Stats(c, readable))
    BY <1>2, <1>5 DEF ValuesResolved
  <2>2. q \in Range(c.perturbations)
    BY <1>5 DEF Range
  <2> HIDE DEF q, r
  <2>3. r.perturbations[p].salts = q.salts
    BY <2>1 DEF ResolvedPerturbation
  <2>4. IsSeq(q.salts) /\ Distinct(q.salts)
    BY <1>0, <2>2, ConfigsAssumption DEF IsSeq, ConfigOK, OperatorOK
  <2>5. Once(q.salts)
    BY <2>4, DistinctIsOnce
  <2> QED BY <2>3, <2>4, <2>5
<1>8. Len(r.regions) # 0
  <2>1. Len(c.regions) \in Nat /\ DOMAIN c.regions = 1..Len(c.regions) /\ c.regions # <<>>
    BY <1>0, <1>1, SequenceIs DEF ConfigOK
  <2>2. Len(c.regions) # 0
    BY <1>1, <2>1, EmptySeq DEF IsSeq
  <2>3. Len(r.regions) \in Nat /\ DOMAIN r.regions = 1..Len(r.regions)
    BY <1>4, SequenceIs
  <2>4. 1 \in 1..Len(c.regions)
    BY <2>1, <2>2
  <2>5. 1 \in 1..Len(r.regions)
    BY <1>5, <2>1, <2>3, <2>4
  <2> HIDE DEF r
  <2> QED BY <2>3, <2>5
<1>9. Once(RegionIds(r))
  <2>1. RegionIds(r) = RegionIds(c)
    BY <1>5, <1>6 DEF RegionIds
  <2>2. IsSeq(RegionIds(c))
    <3> DEFINE ids == RegionIds(c)
    <3>1. Len(c.regions) \in Nat /\ DOMAIN c.regions = 1..Len(c.regions)
      BY <1>1, SequenceIs
    <3>2. ids = [i \in 1..Len(c.regions) |-> ids[i]]
      BY <3>1 DEF RegionIds
    <3> HIDE DEF ids
    <3>3. IsSeq(ids)
      BY <3>1, <3>2, MadeSequence
    <3> QED BY <3>3 DEF ids
  <2>3. Distinct(RegionIds(c))
    BY <1>0 DEF ConfigOK
  <2> QED BY <2>1, <2>2, <2>3, DistinctIsOnce
<1>10. ASSUME NEW f \in DOMAIN r.regions PROVE FamilyIs(r.regions[f])
  <2>1. FamilyOK(c.regions[f])
    BY <1>0, <1>5, <1>6 DEF ConfigOK
  <2>2. c.regions[f].kind = "grid" =>
          /\ c.regions[f].params.rows \in Int /\ c.regions[f].params.rows > 0
          /\ c.regions[f].params.cols \in Int /\ c.regions[f].params.cols > 0
    BY <1>5, <1>6, <2>1, ConfigsAssumption DEF FamilyOK
  <2>5. c.regions[f].kind = "skeleton_parts" => c.regions[f].params.scale \in Int
    BY <1>5, <1>6, ConfigsAssumption
  <2>3. c.regions[f].kind \in Families
    BY <2>1 DEF FamilyOK
  <2>4. ASSUME NEW m \in Int, m > 0 PROVE m \in Nat \ {0}
    BY <2>4
  <2> HIDE DEF r
  <2> QED BY <1>5, <1>6, <2>2, <2>3, <2>4, <2>5 DEF FamilyIs
<1>12. ASSUME NEW p \in DOMAIN r.perturbations PROVE r.perturbations[p].invert \in BOOLEAN
  <2> DEFINE q == c.perturbations[p]
  <2>1. r.perturbations[p] = ResolvedPerturbation(q, Stats(c, readable))
    BY <1>2, <1>5 DEF ValuesResolved
  <2>2. q \in Range(c.perturbations)
    BY <1>5 DEF Range
  <2> HIDE DEF q, r
  <2>3. q.invert \in BOOLEAN
    BY <1>0, <2>2, ConfigsAssumption
  <2> QED BY <2>1, <2>3 DEF ResolvedPerturbation
<1> HIDE DEF r
<1>11. Validated(r)
  BY <1>3, <1>4, <1>7, <1>8, <1>9, <1>10, <1>12 DEF Validated
<1> QED BY <1>11 DEF r

-----------------------------------------------------------------------------
(* Which configurations have a plan.                                       *)

Planned == {"resolved", "planned", "unplannable"}
AsPlanned ==
    /\ Validated(config)
    /\ \A s \in Range(config.listed) : items[s] = SampleItems(s, config)
PlanInv ==
    /\ phase \in Planned => AsPlanned
    /\ phase = "planned" => PlanOK(config, items) /\ plan = Enumerated(config, items)
    /\ phase = "unplannable" => ~PlanOK(config, items)

\* no configuration has been resolved in the beginning
LEMMA InitPlan == Init => PlanInv
BY DEF Init, PlanInv, Planned

\* what resolves has passed every check, and its samples have their items
LEMMA ResolvePlan ==
    ASSUME Typed, StableInv, ResolveConfig
    PROVE  PlanInv'
<1>1. phase = "new" /\ config \in Configs
  BY DEF ResolveConfig, StableInv
<1>2. /\ phase' \in {"resolved", "rejected"}
      /\ phase' = "resolved" =>
           \E readable : /\ Resolves(config, files, readable)
                         /\ config' = Resolved(config, files, readable)
                         /\ items' = [s \in Range(config.listed) |-> SampleItems(s, config')]
  BY Zenon DEF ResolveConfig
<1>3. ASSUME phase' = "resolved" PROVE AsPlanned'
  <2>1. PICK readable : /\ Resolves(config, files, readable)
                        /\ config' = Resolved(config, files, readable)
                        /\ items' = [s \in Range(config.listed) |-> SampleItems(s, config')]
    BY <1>2, <1>3
  <2>2. Validated(config')
    BY <1>1, <2>1, ResolvedValidated
  <2>3. config'.listed = config.listed
    <3>1. config \in Shape(config)
      BY DEF Typed
    <3> QED BY <2>1, <3>1, ResolvedShape
  <2>4. \A s \in Range(config'.listed) : items'[s] = SampleItems(s, config')
    BY <2>1, <2>3
  <2> QED BY <2>2, <2>4 DEF AsPlanned
<1> QED BY <1>2, <1>3 DEF PlanInv, Planned

\* a step that leaves configuration and plan keeps the plan
LEMMA SamePlan ==
    ASSUME PlanInv, UNCHANGED <<config, items, plan>>, phase' = phase \/ phase' \notin Planned
    PROVE  PlanInv'
<1>1. AsPlanned' <=> AsPlanned
  BY DEF AsPlanned
<1> QED BY <1>1 DEF PlanInv, Planned

\* enumerating plans what can be planned
LEMMA EnumeratePlanInv ==
    ASSUME PlanInv, EnumeratePlan
    PROVE  PlanInv'
<1>1. /\ phase = "resolved" /\ UNCHANGED <<config, items>>
      /\ \/ PlanOK(config, items) /\ phase' = "planned" /\ plan' = Enumerated(config, items)
         \/ ~PlanOK(config, items) /\ phase' = "unplannable"
  BY DEF EnumeratePlan
<1>2. AsPlanned'
  BY <1>1 DEF PlanInv, AsPlanned, Planned
<1> QED BY <1>1, <1>2 DEF PlanInv

\* every step keeps the plan what was resolved
LEMMA NextPlan == Typed /\ StableInv /\ PlanInv /\ [Next]_vars => PlanInv'
<1> SUFFICES ASSUME Typed, StableInv, PlanInv, [Next]_vars PROVE PlanInv'
  OBVIOUS
<1>1. CASE ResolveConfig
  BY <1>1, ResolvePlan
<1>2. CASE EnumeratePlan
  BY <1>2, EnumeratePlanInv
<1>3. CASE Accept
  <2>1. UNCHANGED <<config, items, plan>>
        /\ (phase' = phase \/ phase' = "divergent" \/ phase' = "contract_error")
    BY <1>3 DEF Accept
  <2> QED BY <2>1, SamePlan DEF Planned
<1>4. CASE \E p \in Processes : Works(p)
  <2>1. PICK p \in Processes : Works(p)
    BY <1>4
  <2>2. UNCHANGED <<config, items, plan>> /\ (phase' = phase \/ phase' = "divergent")
    <3>1. CASE Take(p)
      BY <3>1, TakeIs
    <3>2. CASE Finish(p)
      BY <3>2 DEF Finish
    <3>3. CASE PrepareItem(p) \/ CheckDigest(p) \/ DecodeMask(p)
      BY <3>3 DEF PrepareItem, CheckDigest, DecodeMask
    <3> QED BY <2>1, <3>1, <3>2, <3>3 DEF Works
  <2> QED BY <2>2, SamePlan DEF Planned
<1>5. CASE \E f \in DOMAIN files, c \in Contents : ReplaceFile(f, c)
  BY <1>5, SamePlan DEF ReplaceFile
<1>6. CASE UNCHANGED vars
  BY <1>6, SamePlan DEF vars
<1> QED BY <1>1, <1>2, <1>3, <1>4, <1>5, <1>6 DEF Next, Step

\* the length of a list is at least the number of its members
LEMMA ListedTwice ==
    ASSUME NEW s, IsSeq(s)
    PROVE  Cardinality(Range(s)) < Len(s) <=> ~Distinct(s)
<1>1. Len(s) \in Nat /\ DOMAIN s = 1..Len(s) /\ s = [i \in 1..Len(s) |-> s[i]]
      /\ Range(s) = Members(s)
  BY SequenceIs
<1>2. s \in [1..Len(s) -> Members(s)]
  <2>1. \A i \in 1..Len(s) : s[i] \in Members(s)
    BY DEF Members
  <2> QED BY <1>1, <2>1
<1>3. s \in Surjection(1..Len(s), Members(s))
  BY <1>2 DEF Surjection, Members
<1>4. IsFiniteSet(1..Len(s)) /\ Cardinality(1..Len(s)) = Len(s)
  BY <1>1, FS_Interval
<1>5. IsFiniteSet(Members(s)) /\ Cardinality(Members(s)) <= Len(s)
  BY <1>3, <1>4, FS_Surjection
<1>6. Cardinality(Members(s)) \in Nat
  BY <1>5, FS_CardinalityType
<1> QED BY <1>1, <1>5, <1>6 DEF Distinct

\* a sample lacks a part
Lacking(c) ==
    \E r \in Range(c.regions), s \in Range(c.listed) :
       r.kind = "skeleton_parts" /\ <<s, r.params.part>> \notin PartsTracked

\* only a lack of samples, an id listed twice, a missing part or twins leave no plan
LEMMA OnlyTwinsFollow == Typed /\ PlanInv => OnlyTwinsAreUnplannable
<1> SUFFICES ASSUME Typed, PlanInv, phase \in {"planned", "unplannable"}
             PROVE  phase = "unplannable" <=>
            \/ config.listed = <<>> \/ Cardinality(Range(config.listed)) < Len(config.listed)
            \/ Lacking(config)
            \/ ~NoTwins(config.perturbations)
  BY DEF OnlyTwinsAreUnplannable, Lacking, NoTwins
<1>1. Validated(config) /\ \A s \in Range(config.listed) : items[s] = SampleItems(s, config)
  BY DEF PlanInv, AsPlanned, Planned
<1>2. phase = "unplannable" <=> ~PlanOK(config, items)
  BY DEF PlanInv
<1>3. IsSeq(config.listed) /\ config.listed \in Seq(Int)
  <2>1. config.listed \in Seq(Int)
    BY DEF Typed, Shape
  <2> QED BY <2>1, SequenceOf
<1>4. Cardinality(Range(config.listed)) < Len(config.listed) <=> ~Distinct(config.listed)
  BY <1>3, ListedTwice
<1>5. Lacking(config) <=>
        ~\A s \in Range(config.listed) : \A f \in DOMAIN config.regions : Expands(s, config.regions[f])
  <2>1. ASSUME NEW s, NEW f \in DOMAIN config.regions
        PROVE  Expands(s, config.regions[f]) <=>
                 ~(config.regions[f].kind = "skeleton_parts"
                   /\ <<s, config.regions[f].params.part>> \notin PartsTracked)
    <3>1. FamilyIs(config.regions[f])
      BY <1>1 DEF Validated
    <3> QED BY <3>1, InstancesOnce
  <2> QED BY <2>1 DEF Lacking, Range
<1>6. ASSUME NEW s \in Range(config.listed),
             \A f \in DOMAIN config.regions : Expands(s, config.regions[f])
      PROVE  Distinct(IdsOf(items[s])) <=> NoTwins(config.perturbations)
  <2> DEFINE its == SampleItems(s, config)
  <2>1. IsSeq(its)
    BY <1>1, <1>6, SampleIdsOnce
  <2>2. IdsOnce(its) <=> NoTwins(config.perturbations)
    BY <1>1, <1>6, SampleIdsOnce
  <2>3. items[s] = its
    BY <1>1
  <2> HIDE DEF its
  <2>4. IsSeq(IdsOf(its)) /\ Len(IdsOf(its)) = Len(its)
        /\ \A i \in 1..Len(its) : IdsOf(its)[i] = its[i].item_id
    BY <2>1, IdsAre
  <2>5. Distinct(IdsOf(its)) <=> Once(IdsOf(its))
    BY <2>4, DistinctIsOnce
  <2>6. Once(IdsOf(its)) <=> IdsOnce(its)
    BY <2>4 DEF Once, IdsOnce
  <2> QED BY <2>2, <2>3, <2>5, <2>6
<1>7. config.listed # <<>> => Range(config.listed) # {}
  <2>1. config.listed # <<>> => Len(config.listed) # 0
    BY <1>3, EmptySeq
  <2>2. Len(config.listed) \in Nat /\ DOMAIN config.listed = 1..Len(config.listed)
    BY <1>3, SequenceIs
  <2>3. Len(config.listed) # 0 => config.listed[1] \in Range(config.listed)
    BY <2>2 DEF Range
  <2> QED BY <2>1, <2>3
<1>8. PlanOK(config, items) <=>
        /\ config.listed # <<>> /\ Distinct(config.listed)
        /\ \A s \in Range(config.listed) : \A f \in DOMAIN config.regions : Expands(s, config.regions[f])
        /\ \A s \in Range(config.listed) : Distinct(IdsOf(items[s]))
  BY DEF PlanOK
<1> QED BY <1>2, <1>4, <1>5, <1>6, <1>7, <1>8

-----------------------------------------------------------------------------
(* Chunks cut the items of a sample into pieces.                           *)

Slot(s, ordinal, size) == {q \in 1..Len(s) : (ordinal - 1) * size < q /\ q <= ordinal * size}

\* a slice is the slot of its number: no longer than a chunk, and empty only if that is
LEMMA SlotIs ==
    ASSUME NEW s, IsSeq(s), NEW ordinal \in Nat \ {0}, NEW size \in Nat \ {0}
    PROVE  /\ IsSeq(Slice(s, ordinal, size))
           /\ Members(Slice(s, ordinal, size)) = {s[q] : q \in Slot(s, ordinal, size)}
           /\ Len(Slice(s, ordinal, size)) <= size
           /\ Slot(s, ordinal, size) # {} => Len(Slice(s, ordinal, size)) # 0
<1> DEFINE start == (ordinal - 1) * size
<1> DEFINE first == start + 1
<1> DEFINE stop == ordinal * size
<1> DEFINE end == IF stop < Len(s) THEN stop ELSE Len(s)
<1> DEFINE t == Slice(s, ordinal, size)
<1>1. Len(s) \in Nat
  BY SequenceIs
<1>2. start \in Nat /\ stop \in Nat /\ stop = start + size
  <2>1. \A a, b \in Nat : a * b \in Nat
    OBVIOUS
  <2>2. ordinal - 1 \in Nat /\ ordinal \in Nat /\ size \in Nat
    OBVIOUS
  <2>3. start \in Nat /\ stop \in Nat
    BY <2>1, <2>2
  <2>4. ordinal * size = (ordinal - 1) * size + size
    OBVIOUS
  <2> QED BY <2>3, <2>4
<1>3. t = SubSeq(s, first, end)
  BY DEF Slice
<1>4. Slot(s, ordinal, size) = {q \in 1..Len(s) : start < q /\ q <= stop}
  BY DEF Slot
<1> HIDE DEF start, stop
<1>5. first \in Int /\ end \in Int /\ first >= 1 /\ end <= Len(s) /\ end - first + 1 <= size
  BY <1>1, <1>2
<1>6. \A i \in first..end : s[i] \in Members(s)
  BY <1>1, <1>5 DEF Members
<1> HIDE DEF t
<1>6a. Slot(s, ordinal, size) = first..end
  BY <1>1, <1>2, <1>4
<1> HIDE DEF first, end
<1>7. /\ t \in Seq(Members(s))
      /\ Len(t) = IF first <= end THEN end - first + 1 ELSE 0
      /\ \A i \in 1..end - first + 1 : t[i] = s[first + i - 1]
  BY <1>3, <1>5, <1>6, SubSeqProperties
<1>8. IsSeq(t)
  BY <1>7, SequenceOf
<1>9. Members(t) = {s[q] : q \in first..end}
  <2>1. ASSUME NEW i \in 1..Len(t) PROVE \E q \in first..end : t[i] = s[q]
    <3>1. first + i - 1 \in first..end /\ t[i] = s[first + i - 1]
      BY <1>5, <1>7
    <3> QED BY <3>1
  <2>2. ASSUME NEW q \in first..end PROVE \E i \in 1..Len(t) : t[i] = s[q]
    <3> DEFINE i == q - first + 1
    <3>1. i \in 1..end - first + 1 /\ first + i - 1 = q /\ first <= end
      BY <1>5
    <3> HIDE DEF i
    <3>2. t[i] = s[q]
      <4>1. t[i] = s[first + i - 1]
        BY <1>7, <3>1
      <4> QED BY <3>1, <4>1
    <3>3. Len(t) = end - first + 1
      BY <1>7, <3>1
    <3>4. i \in 1..Len(t)
      BY <3>1, <3>3
    <3>5. i \in 1..Len(t) /\ t[i] = s[q]
      BY <3>2, <3>4
    <3> QED BY <3>5
  <2>3. Members(t) \subseteq {s[q] : q \in first..end}
    BY <2>1 DEF Members
  <2>4. {s[q] : q \in first..end} \subseteq Members(t)
    BY <2>2 DEF Members
  <2> QED BY <2>3, <2>4
<1>10. Len(t) <= size /\ (first..end # {} => Len(t) # 0)
  BY <1>5, <1>7
<1> QED BY <1>6a, <1>8, <1>9, <1>10 DEF t

\* how many pieces there are
LEMMA CeilingBounds ==
    ASSUME NEW a \in Nat, NEW b \in Nat \ {0}
    PROVE  /\ Ceiling(a, b) \in Nat /\ a <= b * Ceiling(a, b) /\ b * Ceiling(a, b) < a + b
<1> DEFINE q == (-a) \div b
<1> DEFINE r == (-a) % b
<1>1. q \in Int /\ r \in 0..b - 1 /\ b * q \in Int /\ -a = b * q + r
  <2> DEFINE x == -a
  <2>1. x \in Int
    OBVIOUS
  <2> HIDE DEF x
  <2>2. /\ x % b \in 0..b - 1 /\ x \div b \in Int
        /\ b * (x \div b) \in Int /\ x = b * (x \div b) + (x % b)
    BY <2>1, DivMod
  <2> QED BY <2>2 DEF x
<1>2. Ceiling(a, b) = -q
  BY DEF Ceiling
<1>3. Ceiling(a, b) \in Nat
  BY CeilingIs
<1> HIDE DEF q, r
<1>4. b * (-q) = -(b * q)
  BY <1>1
<1> QED BY <1>1, <1>2, <1>3, <1>4

\* products grow
LEMMA Grows ==
    ASSUME NEW a \in Int, NEW b \in Int, NEW n \in Nat
    PROVE  /\ a * n \in Int /\ b * n \in Int /\ a <= b => a * n <= b * n
<1>1. a * n \in Int /\ b * n \in Int /\ (b - a) * n = b * n - a * n
  OBVIOUS
<1>2. a <= b => (b - a) * n >= 0
  <2>1. \A x, y \in Nat : x * y >= 0
    OBVIOUS
  <2>2. a <= b => b - a \in Nat
    OBVIOUS
  <2> QED BY <2>1, <2>2
<1> QED BY <1>1, <1>2

\* every position is in exactly one piece
LEMMA SlotOf ==
    ASSUME NEW s, IsSeq(s), NEW size \in Nat \ {0}
    PROVE  /\ \A q \in 1..Len(s) : \E o \in 1..ChunkCount(s, size) : q \in Slot(s, o, size)
           /\ \A o, u \in Nat : Slot(s, o, size) \cap Slot(s, u, size) # {} => o = u
           /\ \A o \in 1..ChunkCount(s, size) : Slot(s, o, size) # {}
           /\ ChunkCount(s, size) \in Nat
<1> DEFINE n == Len(s)
<1> DEFINE c == ChunkCount(s, size)
<1>1. n \in Nat
  BY SequenceIs
<1>2. c \in Nat /\ n <= size * c /\ size * c < n + size
  BY <1>1, CeilingBounds DEF ChunkCount
<1>3. \A o : Slot(s, o, size) = {q \in 1..n : (o - 1) * size < q /\ q <= o * size}
  BY DEF Slot
<1>3a. size * c = c * size
  BY <1>2
<1> HIDE DEF n, c
<1>4. ASSUME NEW o \in Nat PROVE (o - 1) * size = o * size - size /\ o * size \in Nat
  <2>1. \A a, b \in Nat : a * b \in Nat
    OBVIOUS
  <2>2. (o - 1) * size = o * size - size
    OBVIOUS
  <2> QED BY <2>1, <2>2
<1>5. ASSUME NEW q \in 1..n PROVE \E o \in 1..c : q \in Slot(s, o, size)
  <2> DEFINE x == q - 1
  <2> DEFINE d == x \div size
  <2>1. x \in Nat
    BY <1>1
  <2>2. d \in Nat /\ x % size \in 0..size - 1 /\ size * d \in Int /\ x = size * d + (x % size)
    <3>1. x \in Int
      BY <2>1
    <3> HIDE DEF x
    <3>2. d \in Int /\ x % size \in 0..size - 1 /\ size * d \in Int /\ x = size * d + (x % size)
      BY <3>1, DivMod
    <3>3. d >= 0
      <4> HIDE DEF d
      <4> SUFFICES ASSUME d <= -1 PROVE FALSE
        BY <3>2
      <4>1. d * size <= (-1) * size
        BY <3>2, Grows
      <4> QED BY <2>1, <3>2, <4>1
    <3> QED BY <3>2, <3>3
  <2> HIDE DEF d
  <2> DEFINE o == d + 1
  <2>3. (o - 1) * size = size * d /\ o * size = size * d + size /\ o \in Nat \ {0}
    BY <2>2
  <2>4. (o - 1) * size < q /\ q <= o * size
    BY <1>1, <2>2, <2>3
  <2>5. o <= c
    <3> SUFFICES ASSUME c + 1 <= o PROVE FALSE
      BY <1>2, <2>2
    <3>1. c * size <= (o - 1) * size
      BY <1>2, <2>2, Grows
    <3> QED BY <1>1, <1>2, <1>3a, <2>2, <2>3, <2>4, <3>1
  <2>6. q \in Slot(s, o, size) /\ o \in 1..c
    BY <1>2, <1>3, <2>3, <2>4, <2>5
  <2> QED BY <2>6
<1>6. ASSUME NEW o \in Nat, NEW u \in Nat, NEW q \in Slot(s, o, size), q \in Slot(s, u, size)
      PROVE  o = u
  <2>1. /\ q \in 1..n /\ (o - 1) * size < q /\ q <= o * size
        /\ (u - 1) * size < q /\ q <= u * size
    BY <1>3, <1>6
  <2>2. ~(o <= u - 1) /\ ~(u <= o - 1)
    <3>1. o <= u - 1 => o * size <= (u - 1) * size
      BY Grows
    <3>2. u <= o - 1 => u * size <= (o - 1) * size
      BY Grows
    <3>3. o * size \in Nat /\ u * size \in Nat /\ (o - 1) * size \in Int /\ (u - 1) * size \in Int
      BY <1>4
    <3> QED BY <1>1, <2>1, <3>1, <3>2, <3>3
  <2> QED BY <2>2
<1>7. ASSUME NEW o \in 1..c PROVE Slot(s, o, size) # {}
  <2> DEFINE q == (o - 1) * size + 1
  <2>1. o \in Nat \ {0} /\ o - 1 \in Nat /\ o - 1 <= c - 1 /\ c - 1 \in Int
    BY <1>2
  <2>2. (o - 1) * size <= (c - 1) * size
    BY <2>1, Grows
  <2>3. (c - 1) * size = c * size - size
    BY <1>2, <1>4
  <2>4. (o - 1) * size \in Nat /\ o * size = (o - 1) * size + size
    BY <1>4, <2>1
  <2>5. q \in 1..n /\ (o - 1) * size < q /\ q <= o * size
    <3>1. (o - 1) * size < n
      <4>1. c * size < n + size
        BY <1>2, <1>3a
      <4>2. c * size \in Nat
        BY <1>2, <1>4
      <4> QED BY <1>1, <2>2, <2>3, <2>4, <4>1, <4>2
    <3> QED BY <1>1, <2>4, <3>1
  <2> QED BY <1>3, <2>5
<1> QED BY <1>2, <1>5, <1>6, <1>7 DEF n, c

-----------------------------------------------------------------------------
(* The plan has every chunk of every sample once.                          *)

Rank(S, s) == Cardinality({t \in S : t < s})

\* two samples have two ranks
LEMMA RankOnce ==
    ASSUME NEW S, S \subseteq Int, IsFiniteSet(S), NEW s \in S, NEW t \in S, s < t
    PROVE  Rank(S, s) # Rank(S, t)
<1> DEFINE below(x) == {u \in S : u < x}
<1>1. below(s) \in SUBSET below(t) /\ s \in below(t) /\ s \notin below(s)
  <2>1. s \in Int /\ t \in Int
    OBVIOUS
  <2>2. ASSUME NEW u \in S, u < s PROVE u < t
    <3>1. u \in Int
      OBVIOUS
    <3> QED BY <2>1, <2>2, <3>1
  <2>3. ~(s < s)
    BY <2>1
  <2> QED BY <2>2, <2>3
<1>2. IsFiniteSet(below(t))
  <2>1. below(t) \in SUBSET S
    OBVIOUS
  <2> HIDE DEF below
  <2> QED BY <2>1, FS_Subset
<1>3. Rank(S, s) = Cardinality(below(s)) /\ Rank(S, t) = Cardinality(below(t))
  BY DEF Rank
<1> HIDE DEF below
<1>4. Cardinality(below(t)) = Cardinality(below(s)) => below(t) = below(s)
  BY <1>1, <1>2, FS_Subset
<1> QED BY <1>1, <1>3, <1>4

\* the ranks of samples are 1 to their number
LEMMA RankIs ==
    ASSUME NEW S, S \subseteq Int, IsFiniteSet(S), NEW s \in S
    PROVE  /\ Rank(S, s) + 1 \in 1..Cardinality(S)
           /\ \A t \in S : Rank(S, t) = Rank(S, s) => t = s
<1> DEFINE below == {u \in S : u < s}
<1>1. below \in SUBSET S /\ below # S
  OBVIOUS
<1>2. Rank(S, s) = Cardinality(below)
  BY DEF Rank
<1> HIDE DEF below
<1>3. /\ IsFiniteSet(below) /\ Cardinality(below) <= Cardinality(S)
      /\ Cardinality(S) = Cardinality(below) => S = below
  BY <1>1, FS_Subset
<1>4. Cardinality(below) \in Nat /\ Cardinality(S) \in Nat
  BY <1>3, FS_CardinalityType
<1>5. ASSUME NEW t \in S, Rank(S, t) = Rank(S, s) PROVE t = s
  <2>1. ~(s < t) /\ ~(t < s)
    BY <1>5, RankOnce
  <2> QED BY <2>1
<1> QED BY <1>1, <1>2, <1>3, <1>4, <1>5

\* the samples are finitely many
LEMMA ListedIs ==
    ASSUME NEW c, c \in Shape(c)
    PROVE  Range(c.listed) \subseteq Int /\ IsFiniteSet(Range(c.listed))
<1>1. c.listed \in Seq(Int)
  BY DEF Shape
<1>2. Range(c.listed) = Members(c.listed) /\ Members(c.listed) \subseteq Int
  BY <1>1, RangeIsMembers, MembersType
<1>3. /\ Len(c.listed) \in Nat
      /\ c.listed \in [1..Len(c.listed) -> Members(c.listed)]
  BY <1>1, LenProperties, ElementOfSeq DEF Members
<1>4. c.listed \in Surjection(1..Len(c.listed), Members(c.listed))
  BY <1>3 DEF Surjection, Members
<1>5. IsFiniteSet(1..Len(c.listed))
  <2>1. 1 \in Int /\ Len(c.listed) \in Int
    BY <1>3
  <2> QED BY <2>1, FS_Interval
<1>6. IsFiniteSet(Members(c.listed))
  BY <1>4, <1>5, FS_Surjection
<1> QED BY <1>2, <1>6

\* chunk k is a piece of a sample, every piece is a chunk, and only one
IsPiece(meta, c, its) ==
    /\ meta.sample \in Range(c.listed)
    /\ meta.ordinal \in 1..ChunkCount(its[meta.sample], c.variants_per_chunk)
    /\ meta = ChunkMeta(meta.sample, its[meta.sample], meta.ordinal, c.variants_per_chunk)
Pieces(chunks, c, its) == \A k \in 1..Len(chunks) : IsPiece(chunks[k], c, its)
Covering(chunks, c, its) ==
    \A s \in Range(c.listed) : \A o \in 1..ChunkCount(its[s], c.variants_per_chunk) :
       ChunkMeta(s, its[s], o, c.variants_per_chunk) \in Members(chunks)

\* the plan has every piece of every sample, once
LEMMA PlanIs ==
    ASSUME NEW c, c \in Shape(c), NEW its, \A s \in Range(c.listed) : IsSeq(its[s])
    PROVE  LET chunks == Enumerated(c, its) IN
           /\ IsSeq(chunks) /\ Once(chunks)
           /\ Pieces(chunks, c, its) /\ Covering(chunks, c, its)
<1> DEFINE samples == Range(c.listed)
<1> DEFINE n == Cardinality(samples)
<1> DEFINE size == c.variants_per_chunk
<1> DEFINE nth(i) == CHOOSE s \in samples : Rank(samples, s) = i - 1
<1> DEFINE chunks(s) == SampleChunks(s, its[s], size)
<1> DEFINE F == [i \in 1..n |-> chunks(nth(i))]
<1>1. size \in Nat \ {0}
  BY DEF Shape
<1>2. samples \subseteq Int /\ IsFiniteSet(samples)
  BY ListedIs
<1>3. Enumerated(c, its) = FlattenSeq(F)
  BY DEF Enumerated, Rank
<1>4. \A s \in samples : IsSeq(its[s])
  OBVIOUS
<1> HIDE DEF samples
<1>5. n \in Nat
  BY <1>2, FS_CardinalityType
<1>6. ASSUME NEW i \in 1..n PROVE nth(i) \in samples /\ Rank(samples, nth(i)) = i - 1
  <2>1. \E s \in samples : Rank(samples, s) = i - 1
    BY <1>2, RankReaches DEF Rank
  <2> QED BY <2>1
<1>7. ASSUME NEW s \in samples PROVE \E i \in 1..n : nth(i) = s
  <2> DEFINE i == Rank(samples, s) + 1
  <2>1. i \in 1..n
    BY <1>2, RankIs
  <2> HIDE DEF nth
  <2>2. nth(i) \in samples /\ Rank(samples, nth(i)) = i - 1
    BY <1>6, <2>1
  <2>3. i - 1 = Rank(samples, s)
    <3>1. \A r : r + 1 \in 1..n /\ r \in Int => r + 1 - 1 = r
      OBVIOUS
    <3>2. Rank(samples, s) \in Int
      <4>1. {t \in samples : t < s} \in SUBSET samples
        OBVIOUS
      <4>2. IsFiniteSet({t \in samples : t < s})
        BY <1>2, <4>1, FS_Subset
      <4> QED BY <4>2, FS_CardinalityType DEF Rank
    <3> QED BY <3>2
  <2>4. nth(i) = s
    BY <1>2, <2>2, <2>3, RankIs
  <2> QED BY <2>1, <2>4
<1>8. ASSUME NEW i \in 1..n, NEW j \in 1..n, nth(i) = nth(j) PROVE i = j
  <2> HIDE DEF nth
  <2>1. i - 1 = j - 1
    BY <1>6, <1>8
  <2> QED BY <2>1
<1> HIDE DEF nth
<1>9. ASSUME NEW s \in samples
      PROVE  /\ IsSeq(chunks(s)) /\ Len(chunks(s)) = ChunkCount(its[s], size)
             /\ \A k \in 1..ChunkCount(its[s], size) :
                   /\ chunks(s)[k] = ChunkMeta(s, its[s], k, size)
                   /\ chunks(s)[k].sample = s /\ chunks(s)[k].ordinal = k
  <2> DEFINE m == ChunkCount(its[s], size)
  <2> DEFINE g == chunks(s)
  <2>1. m \in Nat
    <3>1. IsSeq(its[s])
      BY <1>4
    <3> QED BY <1>1, <3>1, SlotOf
  <2>2. g = [k \in 1..m |-> ChunkMeta(s, its[s], k, size)]
    BY DEF SampleChunks
  <2> HIDE DEF m, g
  <2>3. g = [k \in 1..m |-> g[k]]
    BY <2>2
  <2>4. IsSeq(g) /\ Len(g) = m
    BY <2>1, <2>3, MadeSequence
  <2>5. \A k \in 1..m : g[k].sample = s /\ g[k].ordinal = k
    BY <2>2 DEF ChunkMeta
  <2> QED BY <2>2, <2>4, <2>5 DEF g, m
<1> HIDE DEF chunks
<1>10. F = [i \in 1..n |-> F[i]] /\ \A i \in 1..n : F[i] = chunks(nth(i))
  OBVIOUS
<1> HIDE DEF F, n
<1>11. \A i \in 1..n : IsSeq(F[i])
  BY <1>6, <1>9, <1>10
<1>12. \A i \in 1..n : Once(F[i])
  <2> SUFFICES ASSUME NEW i \in 1..n, NEW a \in 1..Len(F[i]), NEW b \in 1..Len(F[i]),
                      F[i][a] = F[i][b]
               PROVE  a = b
    BY DEF Once
  <2>1. nth(i) \in samples /\ F[i] = chunks(nth(i))
    BY <1>6, <1>10
  <2>2. F[i][a].ordinal = a /\ F[i][b].ordinal = b
    BY <1>9, <2>1
  <2> QED BY <2>2
<1>13. ASSUME NEW i \in 1..n, NEW j \in 1..n, i # j PROVE Disjoint(F[i], F[j])
  <2> SUFFICES ASSUME NEW a \in 1..Len(F[i]), NEW b \in 1..Len(F[j]), F[i][a] = F[j][b]
               PROVE  FALSE
    BY DEF Disjoint
  <2>1. nth(i) \in samples /\ F[i] = chunks(nth(i)) /\ nth(j) \in samples /\ F[j] = chunks(nth(j))
    BY <1>6, <1>10
  <2>2. F[i][a].sample = nth(i) /\ F[j][b].sample = nth(j)
    BY <1>9, <2>1
  <2> QED BY <1>8, <1>13, <2>2
<1>14. IsSeq(FlattenSeq(F))
  BY <1>5, <1>10, <1>11, FlatSequence
<1>15. Members(FlattenSeq(F)) = UNION {Members(F[i]) : i \in 1..n}
  BY <1>5, <1>10, <1>11, FlatSequence
<1>16. Once(FlattenSeq(F))
  BY <1>5, <1>10, <1>11, <1>12, <1>13, FlatOnce
<1>17. ASSUME NEW k \in 1..Len(FlattenSeq(F)) PROVE IsPiece(FlattenSeq(F)[k], c, its)
  <2>1. FlattenSeq(F)[k] \in Members(FlattenSeq(F))
    BY DEF Members
  <2>2. PICK i \in 1..n : FlattenSeq(F)[k] \in Members(F[i])
    BY <1>15, <2>1
  <2>3. PICK j \in 1..Len(F[i]) : FlattenSeq(F)[k] = F[i][j]
    BY <2>2 DEF Members
  <2>4. nth(i) \in samples /\ F[i] = chunks(nth(i))
    BY <1>6, <1>10
  <2> DEFINE s == nth(i)
  <2>5. /\ j \in 1..ChunkCount(its[s], size) /\ F[i][j] = ChunkMeta(s, its[s], j, size)
        /\ F[i][j].sample = s /\ F[i][j].ordinal = j
    BY <1>9, <2>4
  <2> QED BY <2>3, <2>4, <2>5 DEF IsPiece, samples
<1>18. ASSUME NEW s \in samples, NEW o \in 1..ChunkCount(its[s], size)
       PROVE  ChunkMeta(s, its[s], o, size) \in Members(FlattenSeq(F))
  <2>1. PICK i \in 1..n : nth(i) = s
    BY <1>7
  <2>2. F[i] = chunks(s)
    BY <1>10, <2>1
  <2>3. o \in 1..Len(F[i]) /\ F[i][o] = ChunkMeta(s, its[s], o, size)
    BY <1>9, <2>2
  <2>4. ChunkMeta(s, its[s], o, size) \in Members(F[i])
    BY <2>3 DEF Members
  <2> QED BY <1>15, <2>4
<1> QED BY <1>3, <1>14, <1>16, <1>17, <1>18 DEF Pieces, Covering, samples

-----------------------------------------------------------------------------
(* What becomes of every item of a chunk.                                  *)

ChunkItems(k) == Slice(items[plan[k].sample], plan[k].ordinal, config.variants_per_chunk)
TargetOf(item) == Generated(Frames[item.sample], Recipe(item))

\* an item of a file may fail; another fails where it is not possible
Excused(item) ==
    OfFile(item) \/ \E mask \in ItemMasks(item, TargetOf(item)) :
                       ~Possible(item, mask)
Drawn(e) ==
    OfFile(e.item) \/ \E mask \in ItemMasks(e.item, TargetOf(e.item)) :
                         /\ Possible(e.item, mask)
                         /\ e.mask = UsedMask(e.item, mask)
Told(id, own) == \E x \in Members(own) : id = x.item_id /\ Excused(x)
Tracked(own, prepared, failed) ==
    /\ \A e \in Range(prepared) : e.item \in Members(own) /\ Drawn(e)
    /\ \A id \in Range(failed) : Told(id, own)

\* a chunk whose sample could not be loaded has nothing prepared
Kept(result, own) ==
    IF result.status = "prepared" THEN Tracked(own, result.prepared, result.failed)
    ELSE Range(result.prepared) = {}
TrackInv ==
    /\ \A p \in AllProcesses : job[p] # None =>
          /\ job[p].items = ChunkItems(job[p].chunk)
          /\ Tracked(job[p].items, job[p].prepared, job[p].failed)
    /\ \A k \in DOMAIN results : Kept(results[k], ChunkItems(k))
    /\ 1..accepted \subseteq DOMAIN results

\* no item was worked on in the beginning
LEMMA InitTrack == Init => TrackInv
<1> SUFFICES ASSUME Init PROVE TrackInv
  OBVIOUS
<1>1. /\ \A p \in AllProcesses : job[p] = None
      /\ DOMAIN results = {} /\ accepted = 0
  BY DEF Init
<1> QED BY <1>1 DEF TrackInv

\* a job whose items are tracked stays tracked
LEMMA WorkingTrack ==
    ASSUME Typed, TrackInv, NEW p \in Processes, Working(p),
           job'[p].items = job[p].items, job'[p].chunk = job[p].chunk,
           Tracked(job[p].items, job'[p].prepared, job'[p].failed),
           UNCHANGED <<config, items, plan, results, accepted>>
    PROVE  TrackInv'
<1>1. \A k : ChunkItems(k)' = ChunkItems(k)
  BY DEF ChunkItems
<1>2. ASSUME NEW q \in AllProcesses, job'[q] # None
      PROVE  /\ job'[q].items = ChunkItems(job'[q].chunk)
             /\ Tracked(job'[q].items, job'[q].prepared, job'[q].failed)
  <2>1. CASE q = p
    <3>1. job[p] # None
      BY DEF Working
    <3>2. job[p].items = ChunkItems(job[p].chunk)
      BY <2>1, <3>1 DEF TrackInv
    <3> QED BY <2>1, <3>2
  <2>2. CASE q # p
    <3>1. job'[q] = job[q]
      BY <2>2 DEF Typed, Working, Over
    <3> QED BY <1>2, <3>1 DEF TrackInv
  <2> QED BY <2>1, <2>2
<1>3. \A q \in AllProcesses : job'[q] # None => (job[q].items = ChunkItems(job[q].chunk))'
  BY <1>1, <1>2 DEF ChunkItems
<1>4. \A k \in DOMAIN results' : Kept(results'[k], ChunkItems(k)')
  BY <1>1 DEF TrackInv
<1>5. 1..accepted' \subseteq DOMAIN results'
  BY DEF TrackInv
<1> QED BY <1>2, <1>3, <1>4, <1>5 DEF TrackInv, Tracked, Told, Kept

\* a process works on an item of its chunk
LEMMA DoingIsIn ==
    ASSUME Typed, StableInv, NEW p \in Processes, HasWork(p)
    PROVE  Doing(p) \in Members(job[p].items) /\ p \in AllProcesses /\ job[p] # None /\ IsJob(job[p])
<1> DEFINE j == job[p]
<1>1. p \in AllProcesses /\ j # None /\ IsJob(j) /\ Underway(j)
  BY ProcessesAreKnown DEF Typed, StableInv, HasWork
<1>2. Len(j.prepared) \in Nat /\ Len(j.failed) \in Nat /\ Len(j.items) \in Nat
  <2>1. IsSeq(j.prepared) /\ IsSeq(j.failed) /\ IsSeq(j.items)
    BY <1>1 DEF IsJob, IsSeq, Underway
  <2> QED BY <2>1, SequenceIs
<1> DEFINE n == Len(j.prepared) + Len(j.failed)
<1>3. n < Len(j.items)
  BY DEF HasWork
<1>4. n \in Nat
  <2>1. \A a, b \in Nat : a + b \in Nat
    OBVIOUS
  <2> QED BY <1>2, <2>1
<1>5. Doing(p) = j.items[n + 1]
  BY DEF Doing
<1> HIDE DEF n
<1>6. n + 1 \in 1..Len(j.items)
  BY <1>2, <1>3, <1>4
<1>7. j.items[n + 1] \in Members(j.items)
  <2> DEFINE i == n + 1
  <2>1. i \in 1..Len(j.items)
    BY <1>6
  <2> HIDE DEF i
  <2>2. j.items[i] \in Members(j.items)
    BY <2>1 DEF Members
  <2> QED BY <2>2 DEF i
<1> QED BY <1>1, <1>5, <1>7

\* an item that may fail has failed
LEMMA FailingTrack ==
    ASSUME Typed, StableInv, TrackInv, NEW p \in Processes, HasWork(p), Working(p),
           job'[p] = Failing(job[p], Doing(p).item_id), Excused(Doing(p)),
           UNCHANGED <<config, items, plan, results, accepted>>
    PROVE  TrackInv'
<1> DEFINE item == Doing(p)
<1> DEFINE j == job[p]
<1>1. item \in Members(j.items) /\ p \in AllProcesses /\ j # None /\ IsJob(j)
  BY DoingIsIn
<1>2. Tracked(j.items, j.prepared, j.failed)
  BY <1>1 DEF TrackInv
<1>3. /\ job'[p].items = j.items /\ job'[p].chunk = j.chunk /\ job'[p].prepared = j.prepared
      /\ job'[p].failed = Append(j.failed, item.item_id)
  BY DEF Failing
<1> HIDE DEF item
<1>4. Range(Append(j.failed, item.item_id)) = Range(j.failed) \cup {item.item_id}
  <2>1. j.failed \in Seq(Range(j.failed))
    BY <1>1 DEF IsJob
  <2> QED BY <2>1, AppendRangeIs
<1>5. Told(item.item_id, j.items)
  BY <1>1 DEF Told, item
<1>6. Tracked(j.items, job'[p].prepared, job'[p].failed)
  BY <1>2, <1>3, <1>4, <1>5 DEF Tracked
<1> QED BY <1>3, <1>6, WorkingTrack

\* an attempt fails only what may fail, and adds an entry of the item
LEMMA AttemptTrack ==
    ASSUME Typed, StableInv, TrackInv, NEW p \in Processes, HasWork(p), Working(p), NEW mask,
           Attempt(p, Doing(p), mask),
           OfFile(Doing(p)) \/ mask \in ItemMasks(Doing(p), TargetOf(Doing(p))),
           UNCHANGED <<config, items, plan, results, accepted>>
    PROVE  TrackInv'
<1> DEFINE item == Doing(p)
<1> DEFINE j == job[p]
<1>1. item \in Members(j.items) /\ p \in AllProcesses /\ j # None /\ IsJob(j)
  BY DoingIsIn
<1>2. Tracked(j.items, j.prepared, j.failed)
  BY <1>1 DEF TrackInv
<1>3. ASSUME job'[p] = Failing(j, item.item_id), ~Possible(item, mask)
      PROVE  TrackInv'
  <2>1. Excused(item)
    BY <1>3 DEF Excused
  <2> QED BY <1>3, <2>1, FailingTrack
<1>4. ASSUME Possible(item, mask), NEW e, EntryOf(e, item, mask),
             job'[p] = Adding(j, e)
      PROVE  TrackInv'
  <2>1. e.item = item /\ e.mask = UsedMask(item, mask)
    BY <1>4 DEF EntryOf
  <2>2. Drawn(e)
    <3>1. OfFile(item) \/ mask \in ItemMasks(item, TargetOf(item))
      OBVIOUS
    <3> HIDE DEF item
    <3> QED BY <1>4, <2>1, <3>1 DEF Drawn
  <2>3. /\ job'[p].items = j.items /\ job'[p].chunk = j.chunk /\ job'[p].failed = j.failed
        /\ job'[p].prepared = Append(j.prepared, e)
    BY <1>4 DEF Adding
  <2>4. Range(Append(j.prepared, e)) = Range(j.prepared) \cup {e}
    <3>1. j.prepared \in Seq(Range(j.prepared))
      BY <1>1 DEF IsJob
    <3> QED BY <3>1, AppendRangeIs
  <2>5. Tracked(j.items, job'[p].prepared, job'[p].failed)
    BY <1>1, <1>2, <2>1, <2>2, <2>3, <2>4 DEF Tracked
  <2> QED BY <2>3, <2>5, WorkingTrack
<1> QED BY <1>3, <1>4 DEF Attempt

\* a result that keeps track of its items is recorded
LEMMA ReturnTrack ==
    ASSUME Typed, TrackInv, NEW p \in Processes, NEW k, NEW result, Returned(p, k, result),
           Kept(result, ChunkItems(k)),
           UNCHANGED <<config, items, plan, accepted>>
    PROVE  TrackInv'
<1>1. DOMAIN results' = DOMAIN results \cup {k} /\ results'[k] = result
  BY DEF Returned
<1>2. \A i \in DOMAIN results : i # k => results'[i] = results[i]
  BY ReturnTyped, ZenonT(30)
<1>3. job'[p] = None
  BY ReturnTyped
<1>4. \A q \in AllProcesses : q # p => job'[q] = job[q]
  BY ReturnTyped
<1>5. \A i : ChunkItems(i)' = ChunkItems(i)
  BY DEF ChunkItems
<1>6. ASSUME NEW q \in AllProcesses, job'[q] # None
      PROVE  /\ job'[q].items = ChunkItems(job[q].chunk)'
             /\ Tracked(job'[q].items, job'[q].prepared, job'[q].failed)
  <2>1. job'[q] = job[q] /\ job[q] # None
    BY <1>3, <1>4, <1>6
  <2>2. job[q].items = ChunkItems(job[q].chunk)
        /\ Tracked(job[q].items, job[q].prepared, job[q].failed)
    BY <2>1 DEF TrackInv
  <2> QED BY <2>1, <2>2 DEF ChunkItems
<1>7. \A i \in DOMAIN results' : Kept(results'[i], ChunkItems(i)')
  BY <1>1, <1>2, <1>5 DEF TrackInv
<1>8. 1..accepted' \subseteq DOMAIN results'
  BY <1>1 DEF TrackInv
<1> QED BY <1>6, <1>7, <1>8 DEF TrackInv, Tracked, Told, Kept

\* a chunk is begun with nothing done, or comes back as not loaded
LEMMA TakeTrack ==
    ASSUME Typed, StableInv, TrackInv, NEW p \in Processes, Take(p)
    PROVE  TrackInv'
<1> DEFINE k == NextChunk(p)
<1> DEFINE own == Materialized(p, plan[k])
<1>1. /\ phase = "planned" /\ k \in 1..Len(plan)
      /\ \/ IdsOf(own) # plan[k].item_ids
         \/ job' = [job EXCEPT ![p] = NewJob(k, own)] /\ UNCHANGED results
         \/ Returned(p, k, LoadFailed(own))
      /\ UNCHANGED <<config, items, plan, accepted>>
  BY TakeIs
<1>2. p \in AllProcesses /\ Over(job, AllProcesses)
  BY ProcessesAreKnown DEF Typed
<1> HIDE DEF k
<1>3. IdsOf(own) = plan[k].item_ids /\ SampleItemsOf(p, plan[k].sample) = items[plan[k].sample]
  BY <1>1, <1>2, RebuiltIs
<1>4. own = ChunkItems(k)
  BY <1>3 DEF Materialized, ChunkItems
<1> HIDE DEF own
<1>5. CASE job' = [job EXCEPT ![p] = NewJob(k, own)] /\ UNCHANGED results
  <2>1. job'[p] = NewJob(k, own) /\ \A q \in AllProcesses : q # p => job'[q] = job[q]
    BY <1>2, <1>5 DEF Over
  <2>2. job'[p].items = own /\ job'[p].chunk = k /\ job'[p].prepared = <<>> /\ job'[p].failed = <<>>
    BY <2>1 DEF NewJob
  <2>3. Tracked(job'[p].items, job'[p].prepared, job'[p].failed)
    BY <2>2 DEF Tracked, Range
  <2>4. \A i : ChunkItems(i)' = ChunkItems(i)
    BY <1>1 DEF ChunkItems
  <2>5. ASSUME NEW q \in AllProcesses, job'[q] # None
        PROVE  /\ job'[q].items = ChunkItems(job[q].chunk)'
               /\ Tracked(job'[q].items, job'[q].prepared, job'[q].failed)
    <3>1. CASE q = p
      BY <1>1, <1>4, <2>2, <2>3, <3>1 DEF ChunkItems
    <3>2. CASE q # p
      <4>1. job'[q] = job[q]
        BY <2>1, <3>2
      <4>2. job[q].items = ChunkItems(job[q].chunk)
            /\ Tracked(job[q].items, job[q].prepared, job[q].failed)
        BY <2>5, <4>1 DEF TrackInv
      <4> QED BY <1>1, <4>1, <4>2 DEF ChunkItems
    <3> QED BY <3>1, <3>2
  <2>6. \A i \in DOMAIN results' : Kept(results'[i], ChunkItems(i)')
    BY <1>5, <2>4 DEF TrackInv
  <2>7. 1..accepted' \subseteq DOMAIN results'
    BY <1>1, <1>5 DEF TrackInv
  <2> QED BY <2>5, <2>6, <2>7 DEF TrackInv, Tracked, Told, Kept
<1>6. CASE Returned(p, k, LoadFailed(own))
  <2>1. Kept(LoadFailed(own), ChunkItems(k))
    BY DEF LoadFailed, Kept, Range
  <2> QED BY <1>1, <1>6, <2>1, ReturnTrack
<1> QED BY <1>1, <1>3, <1>5, <1>6

\* a finished job keeps track of its items
LEMMA FinishTrack ==
    ASSUME Typed, TrackInv, NEW p \in Processes, Finish(p)
    PROVE  TrackInv'
<1>1. /\ p \in AllProcesses /\ job[p] # None
      /\ Returned(p, job[p].chunk, Done(job[p]))
      /\ UNCHANGED <<config, items, plan, accepted>>
  BY FinishIs
<1>2. Kept(Done(job[p]), ChunkItems(job[p].chunk))
  BY <1>1 DEF TrackInv, Done, Kept
<1> DEFINE k == job[p].chunk
<1> DEFINE result == Done(job[p])
<1> HIDE DEF k, result
<1>3. Returned(p, k, result) /\ Kept(result, ChunkItems(k))
  BY <1>1, <1>2 DEF k, result
<1> QED BY <1>1, <1>3, ReturnTrack

\* a step that leaves jobs and results keeps track
LEMMA SameTrack ==
    ASSUME TrackInv, UNCHANGED <<config, items, plan, job, results>>,
           1..accepted' \subseteq DOMAIN results'
    PROVE  TrackInv'
<1>1. \A k : ChunkItems(k)' = ChunkItems(k)
  BY DEF ChunkItems
<1>2. \A q \in AllProcesses : job'[q] # None => (job[q].items = ChunkItems(job[q].chunk))'
  BY DEF ChunkItems, TrackInv
<1>3. \A k \in DOMAIN results' : Kept(results'[k], ChunkItems(k)')
  BY <1>1 DEF TrackInv
<1> QED BY <1>2, <1>3 DEF TrackInv, Tracked, Told, Kept

\* where nothing was begun nothing is lost
LEMMA IdleTrack ==
    ASSUME Idle, UNCHANGED <<job, results, accepted>>
    PROVE  TrackInv'
<1>1. (\A q \in AllProcesses : job'[q] = None) /\ DOMAIN results' = {} /\ accepted' = 0
  BY DEF Idle
<1> QED BY <1>1 DEF TrackInv

\* steps of a worker keep track of every item
LEMMA WorkTrack ==
    ASSUME Typed, StableInv, SoundInv, TrackInv, NEW p \in Processes, Works(p)
    PROVE  TrackInv'
<1>1. CASE Take(p)
  BY <1>1, TakeTrack
<1>2. CASE Finish(p)
  BY <1>2, FinishTrack
<1>3. CASE PrepareItem(p)
  <2>1. HasWork(p) /\ Working(p)
        /\ \E mask \in ItemMasks(Doing(p), TargetOf(Doing(p))) : Attempt(p, Doing(p), mask)
    BY <1>3, PrepareIs DEF TargetOf
  <2>2. PICK mask \in ItemMasks(Doing(p), TargetOf(Doing(p))) : Attempt(p, Doing(p), mask)
    BY <2>1
  <2>3. UNCHANGED <<config, items, plan, results, accepted>>
    BY <1>3 DEF PrepareItem
  <2> QED BY <2>1, <2>2, <2>3, AttemptTrack
<1>4. CASE CheckDigest(p)
  <2>1. Working(p) /\ (Checked(p) \/ job'[p] = Failing(job[p], Doing(p).item_id))
    BY <1>4, CheckIs
  <2>2. HasWork(p) /\ OfFile(Doing(p)) /\ UNCHANGED <<config, items, plan, results, accepted>>
    BY <1>4 DEF CheckDigest, OfFile
  <2>3. CASE Checked(p)
    <3>1. /\ job'[p].items = job[p].items /\ job'[p].chunk = job[p].chunk
          /\ job'[p].prepared = job[p].prepared /\ job'[p].failed = job[p].failed
      BY <2>3 DEF Checked
    <3>2. Tracked(job[p].items, job[p].prepared, job[p].failed)
      BY <2>2, DoingIsIn DEF TrackInv
    <3>3. Tracked(job[p].items, job'[p].prepared, job'[p].failed)
      BY <3>1, <3>2
    <3> QED BY <2>1, <2>2, <3>1, <3>3, WorkingTrack
  <2>4. CASE job'[p] = Failing(job[p], Doing(p).item_id)
    <3>1. Excused(Doing(p))
      BY <2>2 DEF Excused
    <3> QED BY <2>1, <2>2, <2>4, <3>1, FailingTrack
  <2> QED BY <2>1, <2>3, <2>4
<1>5. CASE DecodeMask(p)
  <2>1. HasWork(p) /\ job[p].digest # None /\ UNCHANGED <<config, items, plan, results, accepted>>
    BY <1>5 DEF DecodeMask
  <2>2. OfFile(Doing(p))
    BY <2>1, DoingIsIn DEF SoundInv
  <2>3. Working(p)
    BY <1>5, DecodeIs
  <2>4. PICK mask : Attempt(p, Doing(p), mask)
    BY <1>5, DecodeIs
  <2> QED BY <2>1, <2>2, <2>3, <2>4, AttemptTrack
<1> QED BY <1>1, <1>2, <1>3, <1>4, <1>5 DEF Works

\* every step keeps track of every item
LEMMA NextTrack ==
    Typed /\ StableInv /\ SoundInv /\ TrackInv /\ [Next]_vars => TrackInv'
<1> SUFFICES ASSUME Typed, StableInv, SoundInv, TrackInv, [Next]_vars PROVE TrackInv'
  OBVIOUS
<1>1. CASE ResolveConfig
  <2>1. Idle /\ UNCHANGED <<job, results, accepted>>
    BY <1>1 DEF ResolveConfig, StableInv, unprepared
  <2> QED BY <2>1, IdleTrack
<1>2. CASE EnumeratePlan
  <2>1. Idle /\ UNCHANGED <<job, results, accepted>>
    BY <1>2 DEF EnumeratePlan, StableInv, unprepared
  <2> QED BY <2>1, IdleTrack
<1>3. CASE Accept
  <2>1. /\ UNCHANGED <<config, items, plan, job, results>> /\ accepted + 1 \in DOMAIN results
        /\ accepted' \in {accepted, accepted + 1}
    BY <1>3 DEF Accept
  <2>2. accepted \in Nat /\ 1..accepted \subseteq DOMAIN results
    BY DEF TrackInv, StableInv
  <2>3. 1..accepted' \subseteq DOMAIN results'
    BY <2>1, <2>2
  <2> QED BY <2>1, <2>3, SameTrack
<1>4. CASE \E p \in Processes : Works(p)
  BY <1>4, WorkTrack
<1>5. CASE \E f \in DOMAIN files, c \in Contents : ReplaceFile(f, c)
  <2>1. UNCHANGED <<config, items, plan, job, results, accepted>>
    BY <1>5 DEF ReplaceFile
  <2>2. 1..accepted' \subseteq DOMAIN results'
    BY <2>1 DEF TrackInv
  <2> QED BY <2>1, <2>2, SameTrack
<1>6. CASE UNCHANGED vars
  <2>1. UNCHANGED <<config, items, plan, job, results, accepted>>
    BY <1>6 DEF vars
  <2>2. 1..accepted' \subseteq DOMAIN results'
    BY <2>1 DEF TrackInv
  <2> QED BY <2>1, <2>2, SameTrack
<1> QED BY <1>1, <1>2, <1>3, <1>4, <1>5, <1>6 DEF Next, Step

-----------------------------------------------------------------------------
(* Which chunk an item is in, and what became of it there.                 *)

\* the members of a piece
LEMMA SlotMembers ==
    ASSUME NEW s, IsSeq(s), NEW ordinal \in Nat \ {0}, NEW size \in Nat \ {0}
    PROVE  Members(Slice(s, ordinal, size)) = {s[q] : q \in Slot(s, ordinal, size)}
BY SlotIs

\* the items of a chunk, as planned
LEMMA ChunkOwn ==
    ASSUME Typed, StableInv, phase = "planned", NEW k \in 1..Len(plan)
    PROVE  /\ plan[k].sample \in Range(config.listed)
           /\ IsSeq(ChunkItems(k)) /\ IdsOf(ChunkItems(k)) = plan[k].item_ids
           /\ IdsOnce(ChunkItems(k))
           /\ Members(ChunkItems(k)) \subseteq Members(items[plan[k].sample])
<1> DEFINE meta == plan[k]
<1> DEFINE own == ChunkItems(k)
<1>1. IsChunk(meta, config, items) /\ config \in Shape(config)
  BY DEF StableInv, Chunked, Typed
<1>2. meta.sample \in Range(config.listed) /\ meta.ordinal \in Nat \ {0}
  BY <1>1 DEF IsChunk
<1>3. IsSeq(items[meta.sample])
  BY <1>2 DEF StableInv, ItemsKnown
<1>4. IdsOf(own) = meta.item_ids /\ IsSeq(own) /\ Once(meta.item_ids)
  BY <1>1, <1>3, ChunkIs DEF ChunkItems
<1>5. config.variants_per_chunk \in Nat \ {0}
  BY <1>1 DEF Shape
<1>6. Members(own) \subseteq Members(items[meta.sample])
  <2>1. Members(own) = {items[meta.sample][q] :
                          q \in Slot(items[meta.sample], meta.ordinal, config.variants_per_chunk)}
    <3> DEFINE s == items[meta.sample]
    <3> DEFINE o == meta.ordinal
    <3> DEFINE size == config.variants_per_chunk
    <3>1. own = Slice(s, o, size)
      BY DEF ChunkItems
    <3>2. IsSeq(s) /\ o \in Nat \ {0} /\ size \in Nat \ {0}
      BY <1>2, <1>3, <1>5
    <3> HIDE DEF own, s, o, size
    <3>3. Members(Slice(s, o, size)) = {s[q] : q \in Slot(s, o, size)}
      BY <3>2, SlotMembers
    <3>4. Members(own) = {s[q] : q \in Slot(s, o, size)}
      BY <3>1, <3>3
    <3> QED BY <3>4 DEF s, o, size
  <2> HIDE DEF own
  <2> QED BY <2>1 DEF Slot, Members
<1> HIDE DEF own, meta
<1>7. Len(IdsOf(own)) = Len(own) /\ \A i \in 1..Len(own) : IdsOf(own)[i] = own[i].item_id
  BY <1>4, IdsAre
<1>8. IdsOnce(own)
  BY <1>4, <1>7 DEF IdsOnce, Once
<1> QED BY <1>2, <1>4, <1>6, <1>8 DEF own, meta

\* In a chunk that came back whole every item that cannot fail was prepared,
\* and none twice.
LEMMA Survives ==
    ASSUME Typed, StableInv, TrackInv, phase = "planned", NEW k \in DOMAIN results, Full(k)
    PROVE  /\ \A item \in Members(ChunkItems(k)) :
                 ~Excused(item) => \E e \in Range(results[k].prepared) : e.item = item
           /\ \A d, e \in Range(results[k].prepared) : d.item = e.item => d = e
           /\ \A e \in Range(results[k].prepared) : e.item \in Members(ChunkItems(k)) /\ Drawn(e)
<1> DEFINE own == ChunkItems(k)
<1> DEFINE ids == plan[k].item_ids
<1> DEFINE prepared == results[k].prepared
<1> DEFINE failed == results[k].failed
<1> DEFINE ok == PreparedIds(results[k])
<1>1. k \in 1..Len(plan) /\ ResultOK(results[k], ids)
  BY DEF StableInv, Delivered
<1>2. IsSeq(own) /\ IdsOf(own) = ids /\ IdsOnce(own)
  BY <1>1, ChunkOwn
<1>3. results[k].status = "prepared"
  BY DEF Full
<1>4. Tracked(own, prepared, failed)
  BY <1>3 DEF TrackInv, Kept
<1>5. ok = Those(ids, Range(ids) \ Range(failed))
  <2>1. results[k].status # "load_failed"
    BY <1>3
  <2>2. ~(config.fail_fast /\ failed # <<>>)
    BY DEF Full
  <2> QED BY <1>1, <2>1, <2>2 DEF ResultOK
<1>6. /\ DOMAIN ok = DOMAIN prepared
      /\ \A i \in DOMAIN prepared : ok[i] = prepared[i].item.item_id
  BY DEF PreparedIds
<1> HIDE DEF own, ids, prepared, failed, ok
<1>7. /\ IsSeq(ids) /\ Len(ids) = Len(own) /\ \A i \in 1..Len(own) : ids[i] = own[i].item_id
  BY <1>2, IdsAre
<1>8. Once(ids)
  BY <1>2, <1>7 DEF IdsOnce, Once
<1>9. Range(ids) = Members(ids)
  BY <1>7, SequenceIs
<1>10. ok \in Seq(Range(ids)) /\ Members(ok) = Members(ids) \cap (Range(ids) \ Range(failed)) /\ Once(ok)
  <2>1. ids \in Seq(Range(ids))
    BY <1>7 DEF IsSeq
  <2> QED BY <1>5, <1>8, <2>1, ThoseMembers
<1>11. DOMAIN ok = 1..Len(ok)
  BY <1>10, RangeIsMembers
<1>12. ASSUME NEW x \in Members(own), NEW y \in Members(own), x.item_id = y.item_id PROVE x = y
  BY <1>2, <1>12 DEF IdsOnce, Members
<1>13. \A e \in Range(prepared) : e.item \in Members(own) /\ Drawn(e)
  BY <1>4 DEF Tracked
<1>14. ASSUME NEW d \in Range(prepared), NEW e \in Range(prepared), d.item = e.item
       PROVE  d = e
  <2>1. PICK i \in DOMAIN prepared : d = prepared[i]
    BY DEF Range
  <2>2. PICK j \in DOMAIN prepared : e = prepared[j]
    BY DEF Range
  <2>3. ok[i] = ok[j] /\ i \in 1..Len(ok) /\ j \in 1..Len(ok)
    BY <1>6, <1>11, <1>14, <2>1, <2>2
  <2>4. i = j
    BY <1>10, <2>3 DEF Once
  <2> QED BY <2>1, <2>2, <2>4
<1>15. ASSUME NEW item \in Members(own), ~Excused(item)
       PROVE  \E e \in Range(prepared) : e.item = item
  <2>1. item.item_id \in Members(ids)
    BY <1>7 DEF Members
  <2>2. item.item_id \notin Range(failed)
    <3> SUFFICES ASSUME item.item_id \in Range(failed) PROVE FALSE
      OBVIOUS
    <3>1. Told(item.item_id, own)
      BY <1>4 DEF Tracked
    <3>2. PICK x \in Members(own) : item.item_id = x.item_id /\ Excused(x)
      BY <3>1 DEF Told
    <3>3. x = item
      BY <1>12, <3>2
    <3> QED BY <1>15, <3>2, <3>3
  <2>3. item.item_id \in Members(ok)
    BY <1>9, <1>10, <2>1, <2>2
  <2>4. PICK i \in 1..Len(ok) : ok[i] = item.item_id
    BY <2>3 DEF Members
  <2>5. i \in DOMAIN prepared /\ prepared[i] \in Range(prepared)
    BY <1>6, <1>11 DEF Range
  <2>6. prepared[i].item \in Members(own) /\ prepared[i].item.item_id = item.item_id
    BY <1>6, <1>13, <2>4, <2>5
  <2>7. prepared[i].item = item
    BY <1>12, <2>6
  <2> QED BY <2>5, <2>7
<1> QED BY <1>13, <1>14, <1>15 DEF own, prepared

\* what a plan says of its samples
LEMMA PlannedSample ==
    ASSUME Typed, StableInv, PlanInv, phase = "planned", NEW s \in Range(config.listed)
    PROVE  /\ Validated(config) /\ IsSeq(items[s]) /\ items[s] = SampleItems(s, config)
           /\ IdsOnce(items[s]) /\ NoTwins(config.perturbations)
           /\ config \in Shape(config) /\ plan = Enumerated(config, items)
<1>1. Validated(config) /\ items[s] = SampleItems(s, config)
  BY DEF PlanInv, AsPlanned, Planned
<1>2. PlanOK(config, items) /\ plan = Enumerated(config, items)
  BY DEF PlanInv
<1>3. IsSeq(items[s]) /\ config \in Shape(config)
  BY DEF StableInv, ItemsKnown, Typed
<1>4. Distinct(IdsOf(items[s]))
  BY <1>2 DEF PlanOK
<1>5. IsSeq(IdsOf(items[s])) /\ Len(IdsOf(items[s])) = Len(items[s])
      /\ \A i \in 1..Len(items[s]) : IdsOf(items[s])[i] = items[s][i].item_id
  BY <1>3, IdsAre
<1>6. Once(IdsOf(items[s]))
  BY <1>4, <1>5, DistinctIsOnce
<1>7. IdsOnce(items[s])
  BY <1>5, <1>6 DEF IdsOnce, Once
<1>8. \A f \in DOMAIN config.regions : Expands(s, config.regions[f])
  BY <1>2 DEF PlanOK
<1>9. NoTwins(config.perturbations)
  BY <1>1, <1>7, <1>8, SampleIdsOnce
<1> QED BY <1>1, <1>2, <1>3, <1>7, <1>9

\* Every item of a sample is in exactly one of its chunks.
LEMMA InOneChunk ==
    ASSUME Typed, StableInv, PlanInv, phase = "planned", NEW s \in Range(config.listed),
           NEW item \in Members(items[s])
    PROVE  /\ \E k \in 1..Len(plan) : plan[k].sample = s /\ item \in Members(ChunkItems(k))
           /\ \A j, k \in 1..Len(plan) :
                (/\ plan[j].sample = s /\ item \in Members(ChunkItems(j))
                 /\ plan[k].sample = s /\ item \in Members(ChunkItems(k))) => j = k
<1> DEFINE its == items[s]
<1> DEFINE size == config.variants_per_chunk
<1>1. IsSeq(its) /\ IdsOnce(its) /\ config \in Shape(config) /\ plan = Enumerated(config, items)
  BY PlannedSample
<1>2. size \in Nat \ {0}
  BY <1>1 DEF Shape
<1>3. \A t \in Range(config.listed) : IsSeq(items[t])
  BY DEF StableInv, ItemsKnown
<1>4. IsSeq(plan) /\ Once(plan) /\ Pieces(plan, config, items) /\ Covering(plan, config, items)
  BY <1>1, <1>3, PlanIs
<1>5. ASSUME NEW o \in Nat \ {0}
      PROVE  Members(Slice(its, o, size)) = {its[q] : q \in Slot(its, o, size)}
  <2> HIDE DEF its, size
  <2> QED BY <1>1, <1>2, SlotMembers
<1>6. /\ \A q \in 1..Len(its) : \E o \in 1..ChunkCount(its, size) : q \in Slot(its, o, size)
      /\ \A o, u \in Nat : Slot(its, o, size) \cap Slot(its, u, size) # {} => o = u
      /\ ChunkCount(its, size) \in Nat
  BY <1>1, <1>2, SlotOf
<1>7. ASSUME NEW k \in 1..Len(plan), plan[k].sample = s
      PROVE  /\ plan[k].ordinal \in Nat \ {0}
             /\ plan[k] = ChunkMeta(s, its, plan[k].ordinal, size)
             /\ ChunkItems(k) = Slice(its, plan[k].ordinal, size)
  <2>1. IsPiece(plan[k], config, items)
    BY <1>4 DEF Pieces
  <2>2. plan[k].ordinal \in 1..ChunkCount(its, size) /\ plan[k] = ChunkMeta(s, its, plan[k].ordinal, size)
    BY <1>7, <2>1 DEF IsPiece
  <2>3. plan[k].ordinal \in Nat \ {0}
    BY <1>6, <2>2
  <2> QED BY <1>7, <2>2, <2>3 DEF ChunkItems
<1>8. \E k \in 1..Len(plan) : plan[k].sample = s /\ item \in Members(ChunkItems(k))
  <2>1. PICK q \in 1..Len(its) : its[q] = item
    BY DEF Members
  <2>2. PICK o \in 1..ChunkCount(its, size) : q \in Slot(its, o, size)
    BY <1>6
  <2>3. ChunkMeta(s, its, o, size) \in Members(plan)
    BY <1>4 DEF Covering
  <2>4. PICK k \in 1..Len(plan) : plan[k] = ChunkMeta(s, its, o, size)
    BY <2>3 DEF Members
  <2>5. plan[k].sample = s /\ plan[k].ordinal = o
    BY <2>4 DEF ChunkMeta
  <2>6. ChunkItems(k) = Slice(its, o, size)
    BY <2>5 DEF ChunkItems
  <2>7. o \in Nat \ {0}
    BY <1>6
  <2>8. its[q] \in Members(Slice(its, o, size))
    BY <1>5, <2>2, <2>7
  <2> QED BY <2>1, <2>5, <2>6, <2>8
<1>9. ASSUME NEW j \in 1..Len(plan), NEW k \in 1..Len(plan),
             plan[j].sample = s, item \in Members(ChunkItems(j)),
             plan[k].sample = s, item \in Members(ChunkItems(k))
      PROVE  j = k
  <2> DEFINE o == plan[j].ordinal
  <2> DEFINE u == plan[k].ordinal
  <2>1. /\ o \in Nat \ {0} /\ plan[j] = ChunkMeta(s, its, o, size) /\ ChunkItems(j) = Slice(its, o, size)
        /\ u \in Nat \ {0} /\ plan[k] = ChunkMeta(s, its, u, size) /\ ChunkItems(k) = Slice(its, u, size)
    BY <1>7, <1>9
  <2> HIDE DEF o, u, its, size
  <2>2. item \in {its[q] : q \in Slot(its, o, size)} /\ item \in {its[q] : q \in Slot(its, u, size)}
    BY <1>5, <1>9, <2>1
  <2>3. PICK a \in Slot(its, o, size) : its[a] = item
    BY <2>2
  <2>4. PICK b \in Slot(its, u, size) : its[b] = item
    BY <2>2
  <2>5. a \in 1..Len(its) /\ b \in 1..Len(its)
    BY DEF Slot
  <2>6. a = b
    BY <1>1, <2>3, <2>4, <2>5 DEF IdsOnce
  <2>7. o = u
    <3>1. o \in Nat /\ u \in Nat
      BY <2>1
    <3>2. Slot(its, o, size) \cap Slot(its, u, size) # {}
      BY <2>6
    <3> QED BY <1>6, <3>1, <3>2
  <2> QED BY <1>4, <2>1, <2>7 DEF Once
<1> QED BY <1>8, <1>9

\* an item says which sample it is of
LEMMA SampleOfItem ==
    ASSUME Typed, StableInv, PlanInv, phase = "planned", NEW s \in Range(config.listed),
           NEW x \in Members(items[s])
    PROVE  x.sample = s /\ x.item_id[1] = s
<1>1. Validated(config) /\ items[s] = SampleItems(s, config)
  BY PlannedSample
<1>2. ItemsIn(items[s], s, config.perturbations)
  BY <1>1, SampleItemsAre DEF Validated
<1>3. IsItemOf(x, s, config.perturbations)
  BY <1>2 DEF ItemsIn
<1>4. PICK p \in DOMAIN config.perturbations :
         \E region, salt, is_control : x = Item(s, region, config.perturbations[p], salt, is_control)
  BY <1>3 DEF IsItemOf
<1>5. PICK region, salt, is_control : x = Item(s, region, config.perturbations[p], salt, is_control)
  BY <1>4
<1> QED BY <1>5 DEF Item, ItemId

\* and its identity which chunk it is in
LEMMA FoundById ==
    ASSUME Typed, StableInv, PlanInv, phase = "planned", NEW s \in Range(config.listed),
           NEW item \in Members(items[s]), NEW k \in 1..Len(plan),
           item.item_id \in Range(plan[k].item_ids)
    PROVE  plan[k].sample = s /\ item \in Members(ChunkItems(k))
<1> DEFINE own == ChunkItems(k)
<1>1. /\ plan[k].sample \in Range(config.listed) /\ IsSeq(own) /\ IdsOf(own) = plan[k].item_ids
      /\ Members(own) \subseteq Members(items[plan[k].sample])
  BY ChunkOwn
<1>2. IsSeq(IdsOf(own)) /\ Len(IdsOf(own)) = Len(own)
      /\ \A i \in 1..Len(own) : IdsOf(own)[i] = own[i].item_id
  BY <1>1, IdsAre
<1>3. Range(IdsOf(own)) = Members(IdsOf(own))
  BY <1>2, SequenceIs
<1>4. PICK i \in 1..Len(own) : own[i].item_id = item.item_id
  BY <1>1, <1>2, <1>3 DEF Members
<1>5. own[i] \in Members(own)
  BY DEF Members
<1> DEFINE x == own[i]
<1>6. x \in Members(own) /\ x \in Members(items[plan[k].sample]) /\ x.item_id = item.item_id
  BY <1>1, <1>4, <1>5
<1> HIDE DEF x
<1>7. x.item_id[1] = plan[k].sample /\ item.item_id[1] = s
  BY <1>1, <1>6, SampleOfItem
<1>8. plan[k].sample = s
  BY <1>6, <1>7
<1>9. IdsOnce(items[s])
  BY PlannedSample
<1>10. x = item
  BY <1>6, <1>8, <1>9 DEF IdsOnce, Members
<1> QED BY <1>6, <1>8, <1>10

-----------------------------------------------------------------------------
(* The cells of a grid.                                                    *)

\* quotients grow
LEMMA QuotientGrows ==
    ASSUME NEW a \in Int, NEW b \in Int, a <= b, NEW n \in Nat \ {0}
    PROVE  a \div n <= b \div n
<1> DEFINE q == a \div n
<1> DEFINE t == b \div n
<1>1. a % n \in 0..n - 1 /\ q \in Int /\ n * q \in Int /\ a = n * q + (a % n)
  BY DivMod
<1>2. b % n \in 0..n - 1 /\ t \in Int /\ n * t \in Int /\ b = n * t + (b % n)
  BY DivMod
<1> HIDE DEF q, t
<1> SUFFICES ASSUME ~(q <= t) PROVE FALSE
  BY DEF q, t
<1>3. t + 1 <= q /\ t + 1 \in Int
  BY <1>1, <1>2
<1>4. (t + 1) * n <= q * n
  BY <1>1, <1>3, Grows
<1>5. (t + 1) * n = n * t + n /\ q * n = n * q
  BY <1>1, <1>2
<1>6. n * t + n <= n * q
  BY <1>4, <1>5
<1> QED BY <1>1, <1>2, <1>6

\* x is in the i-th of n parts of a side
Within(i, side, n, x) == (i * side) \div n <= x /\ x < ((i + 1) * side) \div n

\* The parts of a side have every number below it once.
LEMMA OnePart ==
    ASSUME NEW side \in Nat \ {0}, NEW n \in Nat \ {0}, NEW x \in 0..side - 1
    PROVE  /\ \E i \in 0..n - 1 : Within(i, side, n, x)
           /\ \A i, j \in 0..n - 1 : Within(i, side, n, x) /\ Within(j, side, n, x) => i = j
<1> DEFINE edge(i) == (i * side) \div n
<1>1. ASSUME NEW i \in Int PROVE edge(i) \in Int /\ i * side \in Int
  <2>1. i * side \in Int
    OBVIOUS
  <2> QED BY <2>1, DivMod
<1>2. edge(0) = 0
  <2>1. 0 * side = 0
    OBVIOUS
  <2>2. 0 \div n = 0
    <3>1. 0 % n \in 0..n - 1 /\ 0 \div n \in Int /\ 0 = n * (0 \div n) + (0 % n)
      BY DivMod
    <3>2. 0 = n * 0 + 0 /\ 0 \in 0..n - 1
      OBVIOUS
    <3> QED BY <3>1, <3>2, OneQuotient
  <2> QED BY <2>1, <2>2
<1>3. edge(n) = side
  <2>1. n * side = n * side + 0 /\ 0 \in 0..n - 1
    OBVIOUS
  <2>2. (n * side + 0) \div n = side
    BY <2>1, QuotientIs
  <2> QED BY <2>1, <2>2
<1>4. ASSUME NEW i \in Int, NEW j \in Int, i <= j PROVE edge(i) <= edge(j)
  <2>1. i * side \in Int /\ j * side \in Int /\ i * side <= j * side
    BY <1>4, Grows
  <2> QED BY <2>1, QuotientGrows
<1>5. \A i : Within(i, side, n, x) <=> edge(i) <= x /\ x < edge(i + 1)
  BY DEF Within
<1> HIDE DEF edge
<1>6. \E i \in 0..n - 1 : Within(i, side, n, x)
  <2> DEFINE Beyond == {i \in 0..n - 1 : x < edge(i + 1)}
  <2>1. n - 1 \in Beyond
    <3>1. n - 1 \in 0..n - 1 /\ (n - 1) + 1 = n
      OBVIOUS
    <3> QED BY <1>3, <3>1
  <2>2. Beyond \subseteq Nat /\ Beyond # {}
    BY <2>1
  <2> HIDE DEF Beyond
  <2>3. PICK i \in Beyond : \A y \in Beyond : i <= y
    BY <2>2, NatLeast
  <2>4. i \in 0..n - 1 /\ x < edge(i + 1)
    BY <2>3 DEF Beyond
  <2>5. edge(i) <= x
    <3>1. CASE i = 0
      BY <1>2, <3>1
    <3>2. CASE i # 0
      <4>1. i - 1 \in 0..n - 1 /\ (i - 1) + 1 = i /\ ~(i <= i - 1)
        BY <2>4, <3>2
      <4>2. i - 1 \notin Beyond
        BY <2>3, <4>1
      <4>3. ~(x < edge(i))
        BY <4>1, <4>2 DEF Beyond
      <4> QED BY <1>1, <2>4, <4>3
    <3> QED BY <3>1, <3>2
  <2> QED BY <1>5, <2>4, <2>5
<1>7. ASSUME NEW i \in 0..n - 1, NEW j \in 0..n - 1, Within(i, side, n, x), Within(j, side, n, x)
      PROVE  ~(i < j)
  <2> SUFFICES ASSUME i < j PROVE FALSE
    OBVIOUS
  <2>1. i + 1 \in Int /\ j \in Int /\ i + 1 <= j
    OBVIOUS
  <2>2. edge(i + 1) <= edge(j) /\ edge(i + 1) \in Int /\ edge(j) \in Int
    BY <1>1, <1>4, <2>1
  <2>3. x < edge(i + 1) /\ edge(j) <= x
    BY <1>5, <1>7
  <2> QED BY <2>2, <2>3
<1>8. \A i, j \in 0..n - 1 : Within(i, side, n, x) /\ Within(j, side, n, x) => i = j
  <2> SUFFICES ASSUME NEW i \in 0..n - 1, NEW j \in 0..n - 1,
                      Within(i, side, n, x), Within(j, side, n, x)
               PROVE  i = j
    OBVIOUS
  <2>1. ~(i < j) /\ ~(j < i)
    BY <1>7
  <2> QED BY <2>1
<1> QED BY <1>6, <1>8

\* every pixel of a side is in some part of it
LEMMA PartThere ==
    ASSUME NEW side \in Nat \ {0}, NEW n \in Nat \ {0}, NEW x \in 0..side - 1
    PROVE  \E i \in 0..n - 1 : Within(i, side, n, x)
BY OnePart

\* no pixel of a side is in two parts of it
LEMMA PartOnce ==
    ASSUME NEW side \in Nat \ {0}, NEW n \in Nat \ {0}, NEW x \in 0..side - 1,
           NEW i \in 0..n - 1, NEW j \in 0..n - 1, Within(i, side, n, x), Within(j, side, n, x)
    PROVE  i = j
BY OnePart

\* a pixel of the frame is in the mask of a cell if it is within its sides
LEMMA CellHas ==
    ASSUME NEW shape, NEW params, NEW pixel \in Pixels(shape)
    PROVE  pixel \in GridMask(shape, params).at[1] <=>
              /\ Within(params.row, shape.h, params.rows, pixel[1])
              /\ Within(params.col, shape.w, params.cols, pixel[2])
BY DEF GridMask, Whole, Within

\* The cells of a grid have every pixel once.
LEMMA OneCell ==
    ASSUME NEW shape \in FrameShapes, NEW family, family.params.rows \in Nat \ {0},
           family.params.cols \in Nat \ {0}, NEW pixel \in Pixels(shape)
    PROVE  /\ \E g \in Members(GridCells(family)) : pixel \in GridMask(shape, g.params).at[1]
           /\ \A g, u \in Members(GridCells(family)) :
                 (/\ pixel \in GridMask(shape, g.params).at[1]
                  /\ pixel \in GridMask(shape, u.params).at[1]) => g = u
<1> DEFINE rows == family.params.rows
<1> DEFINE cols == family.params.cols
<1> DEFINE cells == GridCells(family)
<1> DEFINE spec(row, col) ==
      RegionSpec(<<family.region_id>>, <<family.region_id, row, col>>, "grid",
                 [rows |-> rows, cols |-> cols, row |-> row, col |-> col], None, None)
<1>0. rows \in Nat \ {0} /\ cols \in Nat \ {0}
  OBVIOUS
<1>1. /\ shape.h \in Nat \ {0} /\ shape.w \in Nat \ {0}
      /\ pixel[1] \in 0..shape.h - 1 /\ pixel[2] \in 0..shape.w - 1
  BY DEF FrameShapes, Pixels
<1>2. /\ Len(cells) = rows * cols /\ Len(cells) \in Nat
      /\ \A k \in 1..Len(cells) :
           /\ (k - 1) \div cols \in 0..rows - 1 /\ (k - 1) % cols \in 0..cols - 1
           /\ cells[k] = spec((k - 1) \div cols, (k - 1) % cols)
  BY CellsAre
<1>3. \A row, col : LET params == spec(row, col).params IN
         params.row = row /\ params.col = col /\ params.rows = rows /\ params.cols = cols
  BY DEF RegionSpec
<1> HIDE DEF spec
<1>4. ASSUME NEW row, NEW col
      PROVE  pixel \in GridMask(shape, spec(row, col).params).at[1] <=>
                Within(row, shape.h, rows, pixel[1]) /\ Within(col, shape.w, cols, pixel[2])
  BY <1>3, CellHas
<1> HIDE DEF cells, rows, cols
<1>5. \E g \in Members(cells) : pixel \in GridMask(shape, g.params).at[1]
  <2>1. PICK row \in 0..rows - 1 : Within(row, shape.h, rows, pixel[1])
    BY <1>0, <1>1, PartThere
  <2>2. PICK col \in 0..cols - 1 : Within(col, shape.w, cols, pixel[2])
    BY <1>0, <1>1, PartThere
  <2> DEFINE k == row * cols + col + 1
  <2>3. row * cols + col \in 0..rows * cols - 1
    BY <1>0, TileIs
  <2>4. k \in 1..Len(cells) /\ k - 1 = cols * row + col
    <3>1. cols \in Int /\ rows \in Int /\ row \in Int
      BY <1>0
    <3>2. row * cols = cols * row /\ row * cols \in Int /\ rows * cols \in Int
      BY <3>1
    <3> QED BY <1>2, <2>3, <3>1, <3>2
  <2>5. (cols * row + col) \div cols = row /\ (cols * row + col) % cols = col
    <3>1. row \in Int
      BY <1>0
    <3> QED BY <1>0, <3>1, QuotientIs
  <2> HIDE DEF k
  <2>6. cells[k] = spec(row, col)
    BY <1>2, <2>4, <2>5
  <2>7. pixel \in GridMask(shape, cells[k].params).at[1]
    BY <1>4, <2>1, <2>2, <2>6
  <2>8. cells[k] \in Members(cells)
    BY <2>4 DEF Members
  <2> QED BY <2>7, <2>8
<1>6. ASSUME NEW g \in Members(cells), NEW u \in Members(cells),
             pixel \in GridMask(shape, g.params).at[1], pixel \in GridMask(shape, u.params).at[1]
      PROVE  g = u
  <2>1. PICK k \in 1..Len(cells) : cells[k] = g
    BY DEF Members
  <2>2. PICK j \in 1..Len(cells) : cells[j] = u
    BY DEF Members
  <2>3. PICK a \in 0..rows - 1, b \in 0..cols - 1 : g = spec(a, b)
    BY <1>2, <2>1
  <2>4. PICK c \in 0..rows - 1, d \in 0..cols - 1 : u = spec(c, d)
    BY <1>2, <2>2
  <2>5. /\ Within(a, shape.h, rows, pixel[1]) /\ Within(b, shape.w, cols, pixel[2])
        /\ Within(c, shape.h, rows, pixel[1]) /\ Within(d, shape.w, cols, pixel[2])
    BY <1>4, <1>6, <2>3, <2>4
  <2>6. a = c
    BY <1>0, <1>1, <2>5, PartOnce
  <2>7. b = d
    BY <1>0, <1>1, <2>5, PartOnce
  <2> QED BY <2>3, <2>4, <2>6, <2>7
<1> QED BY <1>5, <1>6 DEF cells

\* the items of a sample: of its own regions, and of controls
LEMMA ItemsOfSample ==
    ASSUME NEW s, NEW c, Validated(c), NEW x
    PROVE  x \in Members(SampleItems(s, c)) <=>
              \/ \E r \in Members(Own(s, c)) : VariantOf(x, s, r, c.perturbations, FALSE)
              \/ \E r \in Members(Added(s, c)) : VariantOf(x, s, r, c.perturbations, TRUE)
<1> DEFINE own == ItemsOf(s, Own(s, c), c.perturbations, FALSE)
<1> DEFINE added == ItemsOf(s, Added(s, c), c.perturbations, TRUE)
<1>1. SampleItems(s, c) = own \o added
  BY ItemsSplit
<1>2. IsSeq(Own(s, c)) /\ IsSeq(Added(s, c))
  BY OwnAre, AddedAre DEF Regions
<1>3. IsSeq(c.perturbations) /\ SaltsOnce(c.perturbations)
  BY DEF Validated, Expandable
<1>4. IsSeq(own) /\ (x \in Members(own) <=>
         \E r \in Members(Own(s, c)) : VariantOf(x, s, r, c.perturbations, FALSE))
  BY <1>2, <1>3, ItemsMembers
<1>5. IsSeq(added) /\ (x \in Members(added) <=>
         \E r \in Members(Added(s, c)) : VariantOf(x, s, r, c.perturbations, TRUE))
  BY <1>2, <1>3, ItemsMembers
<1> HIDE DEF own, added
<1>6. Members(own \o added) = Members(own) \cup Members(added)
  <2> DEFINE A == Range(own) \cup Range(added)
  <2>1. own \in Seq(A) /\ added \in Seq(A)
    BY <1>4, <1>5 DEF IsSeq
  <2> QED BY <2>1, MembersOfConcat
<1> QED BY <1>1, <1>4, <1>5, <1>6

\* the chunks of a plan that is through have been delivered
LEMMA SettledHas ==
    ASSUME StableInv, TrackInv, Settled, NEW k \in 1..Len(plan)
    PROVE  k \in DOMAIN results /\ Entries[k] = Range(results[k].prepared)
BY DEF Settled, TrackInv, Entries

\* DOMAIN of a plan
LEMMA PlanDomain ==
    ASSUME StableInv, phase = "planned"
    PROVE  DOMAIN plan = 1..Len(plan)
<1>1. IsSeq(plan)
  BY DEF StableInv, Chunked
<1> QED BY <1>1, SequenceIs

\* a cell of a grid fails for the levels of its fill only, and its mask is
\* that of the cell
LEMMA CellSurvives ==
    ASSUME NEW item, item.region.kind = "grid"
    PROVE  /\ LevelsFit(item, item.sample) => ~Excused(item)
           /\ ~OfFile(item)
           /\ \A e : (e.item = item /\ Drawn(e)) =>
                /\ LevelsFit(item, item.sample)
                /\ e.mask = UsedMask(item, GridMask(Frames[item.sample], item.region.params))
<1> DEFINE grid == GridMask(Frames[item.sample], item.region.params)
<1>1. Recipe(item) = item.region /\ TargetOf(item) = grid
  BY DEF Recipe, TargetOf, Generated
<1>2. ItemMasks(item, TargetOf(item)) = {grid}
  BY <1>1 DEF ItemMasks
<1>3. FitsSample(Frames[item.sample], grid)
  BY DEF FitsSample, IsMask, GridMask, Whole, Failed
<1> HIDE DEF grid
<1>4. ~OfFile(item)
  BY <1>1 DEF OfFile
<1> QED BY <1>2, <1>3, <1>4 DEF Excused, Drawn, Possible, grid

\* an instance says which family it is of
LEMMA InstanceIs ==
    ASSUME NEW sample, NEW family, FamilyIs(family), NEW x \in Members(Instances(sample, family))
    PROVE  x.region_id = <<family.region_id>> /\ x.kind = family.kind
BY InstancesOnce

\* the items of a grid: of a cell, with a perturbation of the configuration
LEMMA GridItems ==
    ASSUME Typed, StableInv, PlanInv, phase = "planned", NEW s \in Range(config.listed),
           NEW x \in Members(items[s]), x.region.kind = "grid"
    PROVE  \E f \in DOMAIN config.regions :
              /\ config.regions[f].kind = "grid"
              /\ x.region \in Members(GridCells(config.regions[f]))
              /\ x.region.region_id = <<config.regions[f].region_id>>
              /\ VariantOf(x, s, x.region, config.perturbations, FALSE)
<1>1. Validated(config) /\ items[s] = SampleItems(s, config)
  BY PlannedSample
<1>2. \/ \E r \in Members(Own(s, config)) : VariantOf(x, s, r, config.perturbations, FALSE)
      \/ \E r \in Members(Added(s, config)) : VariantOf(x, s, r, config.perturbations, TRUE)
  BY <1>1, ItemsOfSample
<1>3. ASSUME NEW r, NEW c, VariantOf(x, s, r, config.perturbations, c)
      PROVE  x.region = r
  BY <1>3 DEF VariantOf, Item
<1>4. ASSUME NEW r \in Members(Added(s, config)), VariantOf(x, s, r, config.perturbations, TRUE)
      PROVE  FALSE
  <2>1. r.kind = "grid"
    BY <1>3, <1>4
  <2>2. ControlMember(r, s, config)
    BY <1>1, AddedAre
  <2>3. \E control, k, t, i : r = ControlRegion(control, k, t, i)
    BY <2>2 DEF ControlMember, ControlOf
  <2> QED BY <2>1, <2>3 DEF ControlRegion, RegionSpec
<1>5. PICK r \in Members(Own(s, config)) : VariantOf(x, s, r, config.perturbations, FALSE)
  BY <1>2, <1>4
<1>6. x.region = r
  BY <1>3, <1>5
<1>7. PICK f \in DOMAIN config.regions : r \in Members(Instances(s, config.regions[f]))
  BY <1>1, OwnAre
<1>8. FamilyIs(config.regions[f])
  BY <1>1 DEF Validated
<1>9. r.region_id = <<config.regions[f].region_id>> /\ r.kind = config.regions[f].kind
  BY <1>7, <1>8, InstanceIs
<1>10. config.regions[f].kind = "grid"
  BY <1>6, <1>9
<1>11. Instances(s, config.regions[f]) = GridCells(config.regions[f])
  BY <1>10 DEF Instances
<1> QED BY <1>5, <1>6, <1>7, <1>9, <1>10, <1>11

\* two items of a cell with one operator, value and salt are one
LEMMA SameVariant ==
    ASSUME NEW x, NEW y, NEW s, NEW r, NEW ps, NoTwins(ps), IsSeq(ps), SaltsOnce(ps),
           VariantOf(x, s, r, ps, FALSE), VariantOf(y, s, r, ps, FALSE),
           x.op = y.op, x.value = y.value, x.n_values = y.n_values, x.invert = y.invert,
           x.salt = y.salt
    PROVE  x = y
<1>13. PICK p \in DOMAIN ps : \E k \in 1..Len(ps[p].salts) : x = Item(s, r, ps[p], ps[p].salts[k], FALSE)
  BY DEF VariantOf
<1>1. PICK k \in 1..Len(ps[p].salts) : x = Item(s, r, ps[p], ps[p].salts[k], FALSE)
  BY <1>13
<1>14. PICK q \in DOMAIN ps : \E j \in 1..Len(ps[q].salts) : y = Item(s, r, ps[q], ps[q].salts[j], FALSE)
  BY DEF VariantOf
<1>2. PICK j \in 1..Len(ps[q].salts) : y = Item(s, r, ps[q], ps[q].salts[j], FALSE)
  BY <1>14
<1> DEFINE a == ps[p]
<1> DEFINE b == ps[q]
<1>3. /\ a.op = b.op /\ a.value = b.value /\ a.n_values = b.n_values
      /\ a.invert = b.invert /\ a.salts[k] = b.salts[j]
  BY <1>1, <1>2 DEF Item
<1>4. IdentityValue(a) = IdentityValue(b)
  BY <1>3 DEF IdentityValue
<1>5. IsSeq(a.salts) /\ IsSeq(b.salts)
  BY DEF SaltsOnce
<1>6. Range(a.salts) = Members(a.salts) /\ Range(b.salts) = Members(b.salts)
  BY <1>5, SequenceIs
<1>7. a.salts[k] \in Members(a.salts) /\ b.salts[j] \in Members(b.salts)
  BY <1>1, <1>2 DEF Members
<1>8. Range(a.salts) \cap Range(b.salts) # {}
  BY <1>3, <1>6, <1>7
<1>9. Twins(a, b) /\ Twins(b, a)
  BY <1>3, <1>4, <1>8 DEF Twins
<1>10. p \in Nat /\ q \in Nat
  <2>1. Len(ps) \in Nat /\ DOMAIN ps = 1..Len(ps)
    BY SequenceIs
  <2> QED BY <2>1
<1>11. ~(p < q) /\ ~(q < p)
  BY <1>9 DEF NoTwins
<1>12. p = q
  BY <1>10, <1>11
<1> QED BY <1>1, <1>2, <1>3, <1>12

\* one region_id, one family
LEMMA FamilyOnce ==
    ASSUME NEW c, Validated(c), NEW f \in DOMAIN c.regions, NEW g \in DOMAIN c.regions,
           c.regions[f].region_id = c.regions[g].region_id
    PROVE  f = g
<1> DEFINE ids == RegionIds(c)
<1>1. IsSeq(c.regions) /\ Once(ids)
  BY DEF Validated
<1>2. Len(c.regions) \in Nat /\ DOMAIN c.regions = 1..Len(c.regions)
  BY <1>1, SequenceIs
<1>3. ids = [i \in 1..Len(c.regions) |-> ids[i]]
  BY <1>2 DEF RegionIds
<1>4. \A i \in DOMAIN c.regions : ids[i] = c.regions[i].region_id
  BY DEF RegionIds
<1> HIDE DEF ids
<1>5. Len(ids) = Len(c.regions)
  BY <1>2, <1>3, MadeSequence
<1> QED BY <1>1, <1>2, <1>4, <1>5 DEF Once

\* the cells of a grid have every pixel once, if they could be prepared
LEMMA CellsFollow ==
    Typed /\ StableInv /\ SoundInv /\ PlanInv /\ TrackInv => GridCellsPartition
<1> SUFFICES ASSUME Typed, StableInv, SoundInv, PlanInv, TrackInv, Settled,
                    NEW s \in Range(config.listed), NEW r \in Range(config.regions),
                    NEW p \in Range(config.perturbations), NEW salt \in Range(p.salts),
                    r.kind = "grid", ~p.invert,
                    \A k \in DOMAIN plan : plan[k].sample = s => Full(k),
                    NEW pixel \in Pixels(Frames[s])
             PROVE  Cardinality({e \in CellsOf(s, r, p, salt) : pixel \in e.mask.at[1]})
                        = IF LevelsFit(p, s) THEN 1 ELSE 0
  BY DEF GridCellsPartition
<1> DEFINE shape == Frames[s]
<1> DEFINE Here == {e \in CellsOf(s, r, p, salt) : pixel \in e.mask.at[1]}
<1>1. phase = "planned" /\ DOMAIN plan = 1..Len(plan)
  BY PlanDomain DEF Settled
<1>2. /\ Validated(config) /\ items[s] = SampleItems(s, config) /\ NoTwins(config.perturbations)
      /\ IsSeq(items[s])
  BY <1>1, PlannedSample
<1>3. PICK f \in DOMAIN config.regions : r = config.regions[f]
  BY DEF Range
<1>4. r.params.rows \in Nat \ {0} /\ r.params.cols \in Nat \ {0}
  BY <1>2, <1>3 DEF Validated, FamilyIs
<1>5. IsSeq(config.perturbations) /\ SaltsOnce(config.perturbations)
  BY <1>2 DEF Validated, Expandable
<1>6. PICK pi \in DOMAIN config.perturbations : p = config.perturbations[pi]
  BY DEF Range
<1>7. PICK si \in 1..Len(p.salts) : p.salts[si] = salt
  <2>1. IsSeq(p.salts)
    BY <1>5, <1>6 DEF SaltsOnce
  <2>2. DOMAIN p.salts = 1..Len(p.salts)
    BY <2>1, SequenceIs
  <2> QED BY <2>2 DEF Range
<1>8. Instances(s, r) = GridCells(r)
  BY DEF Instances
<1> DEFINE ItemAt(g) == Item(s, g, p, salt, FALSE)
<1>9. ASSUME NEW g \in Members(GridCells(r))
      PROVE  /\ VariantOf(ItemAt(g), s, g, config.perturbations, FALSE)
             /\ ItemAt(g) \in Members(items[s])
             /\ g.kind = "grid" /\ g.region_id = <<r.region_id>>
  <2>1. FamilyIs(r)
    BY <1>2, <1>3 DEF Validated
  <2>2. g.kind = "grid" /\ g.region_id = <<r.region_id>>
    BY <1>8, <2>1, InstancesOnce
  <2>3. g \in Members(Own(s, config))
    BY <1>2, <1>3, <1>8, OwnAre
  <2>4. VariantOf(ItemAt(g), s, g, config.perturbations, FALSE)
    BY <1>6, <1>7 DEF VariantOf
  <2> HIDE DEF ItemAt
  <2>5. ItemAt(g) \in Members(SampleItems(s, config))
    BY <1>2, <2>3, <2>4, ItemsOfSample
  <2> QED BY <1>2, <2>2, <2>4, <2>5
<1>10. shape \in FrameShapes
  <2>1. PICK g \in Members(GridCells(r)) : TRUE
    <3>1. Len(GridCells(r)) \in Nat \ {0}
      BY <1>4, CellsAre
    <3>2. GridCells(r)[1] \in Members(GridCells(r))
      BY <3>1 DEF Members
    <3> QED BY <3>2
  <2>2. AllFit(items[s])
    BY <1>1 DEF SoundInv
  <2>3. Fit(ItemAt(g)) /\ ItemAt(g).sample = s
    BY <1>9, <2>1, <2>2 DEF AllFit, Members, Item
  <2> QED BY <2>3 DEF Fit
<1>11. ASSUME NEW k \in 1..Len(plan), plan[k].sample = s
       PROVE  /\ k \in DOMAIN results /\ Full(k) /\ Entries[k] = Range(results[k].prepared)
              /\ \A x \in Members(ChunkItems(k)) :
                    ~Excused(x) => \E e \in Entries[k] : e.item = x
              /\ \A d, e \in Entries[k] : d.item = e.item => d = e
              /\ \A e \in Entries[k] : e.item \in Members(ChunkItems(k)) /\ Drawn(e)
              /\ Members(ChunkItems(k)) \subseteq Members(items[s])
  <2>1. k \in DOMAIN results /\ Full(k) /\ Entries[k] = Range(results[k].prepared)
    BY <1>1, <1>11, SettledHas
  <2>2. Members(ChunkItems(k)) \subseteq Members(items[s])
    BY <1>1, <1>11, ChunkOwn
  <2> QED BY <1>1, <2>1, <2>2, Survives
<1>12. ASSUME LevelsFit(p, s) PROVE \E e : e \in Here
  <2>1. PICK g \in Members(GridCells(r)) : pixel \in GridMask(shape, g.params).at[1]
    BY <1>4, <1>10, OneCell
  <2> DEFINE x == ItemAt(g)
  <2>2. x \in Members(items[s]) /\ g.kind = "grid" /\ g.region_id = <<r.region_id>>
    BY <1>9
  <2>3. /\ x.region = g /\ x.sample = s /\ x.op = p.op /\ x.value = p.value
        /\ x.n_values = p.n_values /\ x.salt = salt /\ x.invert = p.invert
    BY DEF Item
  <2> HIDE DEF x
  <2>4. PICK k \in 1..Len(plan) : plan[k].sample = s /\ x \in Members(ChunkItems(k))
    BY <1>1, <2>2, InOneChunk
  <2>11. LevelsFit(x, x.sample)
    BY <1>12, <2>3 DEF LevelsFit
  <2>5. ~Excused(x)
    BY <2>2, <2>3, <2>11, CellSurvives
  <2>6. PICK e \in Entries[k] : e.item = x
    BY <1>11, <2>4, <2>5
  <2>7. e.mask = UsedMask(x, GridMask(shape, g.params))
    BY <1>11, <2>2, <2>3, <2>4, <2>6, CellSurvives
  <2>8. e.mask = GridMask(shape, g.params)
    BY <2>3, <2>7 DEF UsedMask
  <2>9. e \in UNION {Entries[i] : i \in {j \in DOMAIN plan : plan[j].sample = s}}
    BY <1>1, <2>4
  <2>10. e \in CellsOf(s, r, p, salt)
    BY <2>2, <2>3, <2>6, <2>9 DEF CellsOf
  <2> QED BY <2>1, <2>8, <2>10
<1>13. ASSUME NEW d \in Here, NEW e \in Here PROVE d = e /\ LevelsFit(p, s)
  <2>1. ASSUME NEW z \in Here
        PROVE  \E k \in 1..Len(plan), g \in Members(GridCells(r)) :
                 /\ plan[k].sample = s /\ z \in Entries[k]
                 /\ z.item \in Members(ChunkItems(k)) /\ z.item \in Members(items[s])
                 /\ z.item.region = g /\ pixel \in GridMask(shape, g.params).at[1]
                 /\ VariantOf(z.item, s, g, config.perturbations, FALSE)
                 /\ z.item.op = p.op /\ z.item.value = p.value /\ z.item.salt = salt
                 /\ z.item.invert = p.invert /\ z.item.n_values = p.n_values /\ LevelsFit(p, s)
    <3>1. /\ z \in CellsOf(s, r, p, salt) /\ pixel \in z.mask.at[1]
      OBVIOUS
    <3>2. /\ z \in UNION {Entries[i] : i \in {j \in DOMAIN plan : plan[j].sample = s}}
          /\ z.item.region.kind = "grid" /\ z.item.region.region_id = <<r.region_id>>
          /\ z.item.op = p.op /\ z.item.value = p.value /\ z.item.n_values = p.n_values
          /\ z.item.salt = salt /\ ~z.item.invert
      BY <3>1 DEF CellsOf
    <3>3. PICK k \in 1..Len(plan) : plan[k].sample = s /\ z \in Entries[k]
      BY <1>1, <3>2
    <3>4. z.item \in Members(ChunkItems(k)) /\ Drawn(z) /\ z.item \in Members(items[s])
      BY <1>11, <3>3
    <3>5. PICK h \in DOMAIN config.regions :
             /\ z.item.region \in Members(GridCells(config.regions[h]))
             /\ z.item.region.region_id = <<config.regions[h].region_id>>
             /\ VariantOf(z.item, s, z.item.region, config.perturbations, FALSE)
      BY <1>1, <3>2, <3>4, GridItems
    <3>6. h = f
      <4>1. <<config.regions[h].region_id>> = <<r.region_id>>
        BY <3>2, <3>5
      <4>2. config.regions[h].region_id = config.regions[f].region_id
        BY <1>3, <4>1
      <4> QED BY <1>2, <4>2, FamilyOnce
    <3>7. z.mask = UsedMask(z.item, GridMask(Frames[z.item.sample], z.item.region.params))
      BY <3>2, <3>4, CellSurvives
    <3>8. z.item.sample = s
      BY <1>1, <3>4, SampleOfItem
    <3>9. z.mask = GridMask(shape, z.item.region.params)
      BY <3>2, <3>7, <3>8 DEF UsedMask
    <3>10. z.item.invert = p.invert
      <4>1. PICK q \in DOMAIN config.perturbations :
               \E k2 \in 1..Len(config.perturbations[q].salts) :
                  z.item = Item(s, z.item.region, config.perturbations[q],
                                config.perturbations[q].salts[k2], FALSE)
        BY <3>5 DEF VariantOf
      <4>2. z.item.invert = config.perturbations[q].invert
        BY <4>1 DEF Item
      <4>3. config.perturbations[q].invert \in BOOLEAN /\ p.invert \in BOOLEAN
        BY <1>2, <1>6 DEF Validated
      <4> QED BY <3>2, <4>2, <4>3
    <3>11. LevelsFit(z.item, z.item.sample)
      BY <3>2, <3>4, CellSurvives
    <3>12. LevelsFit(p, s)
      BY <3>2, <3>8, <3>11 DEF LevelsFit
    <3> QED BY <1>3, <3>1, <3>2, <3>3, <3>4, <3>5, <3>6, <3>9, <3>10, <3>12
  <2> HIDE DEF Here
  <2>2. PICK j \in 1..Len(plan), g \in Members(GridCells(r)) :
                 /\ plan[j].sample = s /\ d \in Entries[j]
                 /\ d.item \in Members(ChunkItems(j)) /\ d.item \in Members(items[s])
                 /\ d.item.region = g /\ pixel \in GridMask(shape, g.params).at[1]
                 /\ VariantOf(d.item, s, g, config.perturbations, FALSE)
                 /\ d.item.op = p.op /\ d.item.value = p.value /\ d.item.salt = salt
                 /\ d.item.invert = p.invert /\ d.item.n_values = p.n_values /\ LevelsFit(p, s)
    BY <2>1
  <2>3. PICK k \in 1..Len(plan), u \in Members(GridCells(r)) :
                 /\ plan[k].sample = s /\ e \in Entries[k]
                 /\ e.item \in Members(ChunkItems(k)) /\ e.item \in Members(items[s])
                 /\ e.item.region = u /\ pixel \in GridMask(shape, u.params).at[1]
                 /\ VariantOf(e.item, s, u, config.perturbations, FALSE)
                 /\ e.item.op = p.op /\ e.item.value = p.value /\ e.item.salt = salt
                 /\ e.item.invert = p.invert /\ e.item.n_values = p.n_values
    BY <2>1
  <2>4. g = u
    BY <1>4, <1>10, <2>2, <2>3, OneCell
  <2>5. d.item = e.item
    BY <1>2, <1>5, <2>2, <2>3, <2>4, SameVariant
  <2>6. j = k
    BY <1>1, <2>2, <2>3, <2>5, InOneChunk
  <2> QED BY <1>11, <2>2, <2>3, <2>5, <2>6
<1> HIDE DEF Here
<1>14. CASE LevelsFit(p, s)
  <2>1. PICK e \in Here : TRUE
    BY <1>12, <1>14
  <2>2. \A d \in Here : d = e
    BY <1>13, <2>1
  <2>3. Here = {e}
    BY <2>1, <2>2
  <2>4. Cardinality(Here) = 1
    BY <2>3, FS_Singleton
  <2> QED BY <1>14, <2>4 DEF Here
<1>15. CASE ~LevelsFit(p, s)
  <2>1. Here = {}
    BY <1>13, <1>15
  <2>2. Cardinality(Here) = 0
    BY <2>1, FS_EmptySet
  <2> QED BY <1>15, <2>2 DEF Here
<1> QED BY <1>14, <1>15

-----------------------------------------------------------------------------
(* Controls keep the shape of their target.                                *)

\* moved numbers have a moved minimum
LEMMA MinMoves ==
    ASSUME NEW A, A \subseteq Nat, A # {}, NEW d \in Int, NEW B, B \subseteq Nat,
           B = {a + d : a \in A}
    PROVE  Min(A) \in Nat /\ Min(B) = Min(A) + d
<1>1. Min(A) \in A /\ \A y \in A : Min(A) <= y
  BY MinIsIn
<1>2. B # {}
  OBVIOUS
<1>3. Min(B) \in B /\ \A y \in B : Min(B) <= y
  BY <1>2, MinIsIn
<1> DEFINE a == Min(A)
<1> DEFINE b == Min(B)
<1>4. a \in A /\ b \in B /\ (\A y \in A : a <= y) /\ \A y \in B : b <= y
  BY <1>1, <1>3
<1> HIDE DEF a, b
<1>5. PICK x \in A : b = x + d
  BY <1>4
<1>6. a + d \in B
  BY <1>4
<1>7. b <= a + d /\ a <= x
  BY <1>4, <1>5, <1>6
<1>8. a \in Nat /\ x \in Nat /\ b \in Nat
  BY <1>4, <1>5
<1>9. b = a + d
  BY <1>5, <1>7, <1>8
<1> QED BY <1>8, <1>9 DEF a, b

\* what is moved keeps its shape
LEMMA ShapeKept ==
    ASSUME NEW shape, NEW S, S \subseteq Pixels(shape), S # {}, NEW by, by[1] \in Int, by[2] \in Int,
           Moved(S, by) \subseteq Pixels(shape), shape.h \in Nat, shape.w \in Nat
    PROVE  AtOrigin(Moved(S, by)) = AtOrigin(S)
<1> DEFINE M == Moved(S, by)
<1> DEFINE rows == {p[1] : p \in S}
<1> DEFINE cols == {p[2] : p \in S}
<1> DEFINE Rows == {p[1] : p \in M}
<1> DEFINE Cols == {p[2] : p \in M}
<1>1. \A p \in Pixels(shape) : p[1] \in Nat /\ p[2] \in Nat
  BY DEF Pixels
<1>2. M = {<<p[1] + by[1], p[2] + by[2]>> : p \in S} /\ M \subseteq Pixels(shape)
  BY DEF Moved
<1>3. rows \subseteq Nat /\ cols \subseteq Nat /\ rows # {} /\ cols # {}
  BY <1>1
<1>4. /\ \A p \in M : \E q \in S : p = <<q[1] + by[1], q[2] + by[2]>>
      /\ \A q \in S : <<q[1] + by[1], q[2] + by[2]>> \in M
  BY <1>2
<1> HIDE DEF M
<1>5. Rows \subseteq Nat /\ Cols \subseteq Nat
  BY <1>1, <1>2
<1>6. Rows = {a + by[1] : a \in rows}
  <2>1. \A x \in Rows : \E a \in rows : x = a + by[1]
    BY <1>4
  <2>2. \A a \in rows : a + by[1] \in Rows
    <3> SUFFICES ASSUME NEW q \in S PROVE q[1] + by[1] \in Rows
      OBVIOUS
    <3>1. <<q[1] + by[1], q[2] + by[2]>> \in M
      BY <1>4
    <3>2. <<q[1] + by[1], q[2] + by[2]>>[1] = q[1] + by[1]
      OBVIOUS
    <3> QED BY <3>1, <3>2
  <2> HIDE DEF rows, Rows
  <2> QED BY <2>1, <2>2
<1>7. Cols = {a + by[2] : a \in cols}
  <2>1. \A x \in Cols : \E a \in cols : x = a + by[2]
    BY <1>4
  <2>2. \A a \in cols : a + by[2] \in Cols
    <3> SUFFICES ASSUME NEW q \in S PROVE q[2] + by[2] \in Cols
      OBVIOUS
    <3>1. <<q[1] + by[1], q[2] + by[2]>> \in M
      BY <1>4
    <3>2. <<q[1] + by[1], q[2] + by[2]>>[2] = q[2] + by[2]
      OBVIOUS
    <3> QED BY <3>1, <3>2
  <2> HIDE DEF cols, Cols
  <2> QED BY <2>1, <2>2
<1>8. /\ AtOrigin(M) = {<<p[1] - Min(Rows), p[2] - Min(Cols)>> : p \in M}
      /\ AtOrigin(S) = {<<p[1] - Min(rows), p[2] - Min(cols)>> : p \in S}
  BY DEF AtOrigin
<1> HIDE DEF rows, cols, Rows, Cols
<1>9. /\ Min(rows) \in Nat /\ Min(Rows) = Min(rows) + by[1]
      /\ Min(cols) \in Nat /\ Min(Cols) = Min(cols) + by[2]
  BY <1>3, <1>5, <1>6, <1>7, MinMoves
<1> DEFINE r == Min(rows)
<1> DEFINE c == Min(cols)
<1> DEFINE R == Min(Rows)
<1> DEFINE C == Min(Cols)
<1>10. r \in Nat /\ c \in Nat /\ R = r + by[1] /\ C = c + by[2]
  BY <1>9
<1>11. /\ AtOrigin(M) = {<<p[1] - R, p[2] - C>> : p \in M}
       /\ AtOrigin(S) = {<<p[1] - r, p[2] - c>> : p \in S}
  BY <1>8
<1> HIDE DEF r, c, R, C
<1>12. ASSUME NEW q \in S, NEW p, p = <<q[1] + by[1], q[2] + by[2]>>
       PROVE  <<p[1] - R, p[2] - C>> = <<q[1] - r, q[2] - c>>
  <2>1. q[1] \in Nat /\ q[2] \in Nat
    BY <1>1
  <2>2. p[1] = q[1] + by[1] /\ p[2] = q[2] + by[2]
    BY <1>12
  <2>3. p[1] - R = q[1] - r /\ p[2] - C = q[2] - c
    BY <1>10, <2>1, <2>2
  <2> QED BY <2>3
<1>13. \A z \in AtOrigin(M) : z \in AtOrigin(S)
  <2> SUFFICES ASSUME NEW p \in M PROVE <<p[1] - R, p[2] - C>> \in AtOrigin(S)
    BY <1>11
  <2>1. PICK q \in S : p = <<q[1] + by[1], q[2] + by[2]>>
    BY <1>4
  <2>2. <<p[1] - R, p[2] - C>> = <<q[1] - r, q[2] - c>>
    BY <1>12, <2>1
  <2> QED BY <1>11, <2>2
<1>14. \A z \in AtOrigin(S) : z \in AtOrigin(M)
  <2> SUFFICES ASSUME NEW q \in S PROVE <<q[1] - r, q[2] - c>> \in AtOrigin(M)
    BY <1>11
  <2> DEFINE p == <<q[1] + by[1], q[2] + by[2]>>
  <2>1. p \in M
    BY <1>4
  <2>2. <<p[1] - R, p[2] - C>> = <<q[1] - r, q[2] - c>>
    BY <1>12
  <2> HIDE DEF p
  <2> QED BY <1>11, <2>1, <2>2
<1>15. AtOrigin(M) = AtOrigin(S)
  BY <1>13, <1>14
<1> QED BY <1>15 DEF M

\* There is always a place for a target: where it is already is one of them.
LEMMA SomePlace ==
    ASSUME NEW shape \in FrameShapes, NEW pixels, pixels \subseteq Pixels(shape), pixels # {}
    PROVE  /\ Offsets(shape, pixels) # {}
           /\ \A by \in Offsets(shape, pixels) : by[1] \in Int /\ by[2] \in Int
<1> DEFINE rows == {p[1] : p \in pixels}
<1> DEFINE cols == {p[2] : p \in pixels}
<1>1. shape.h \in Nat /\ shape.w \in Nat
  BY PixelsAre
<1>2. rows \subseteq 0..(shape.h - 1) /\ cols \subseteq 0..(shape.w - 1) /\ rows # {} /\ cols # {}
  BY DEF Pixels
<1>3. Offsets(shape, pixels) = {<<r - Min(rows), c - Min(cols)>> :
              r \in 0..(shape.h - Max(rows) + Min(rows) - 1),
              c \in 0..(shape.w - Max(cols) + Min(cols) - 1)}
  BY DEF Offsets
<1> HIDE DEF rows, cols
<1>4. ASSUME NEW limit \in Nat, NEW S, S \subseteq 0..(limit - 1), S # {}
      PROVE  0 \in 0..(limit - Max(S) + Min(S) - 1) /\ Min(S) \in Int
  <2>1. S \subseteq Nat /\ S \subseteq Int
    BY <1>4
  <2>5. \E b \in Int : \A y \in S : y <= b
    <3>1. limit \in Int /\ \A y \in S : y <= limit
      BY <1>4
    <3> QED BY <3>1
  <2>2. Max(S) \in S /\ Min(S) \in S
    BY <1>4, <2>1, <2>5, MaxIsIn, MinIsIn
  <2> DEFINE low == Min(S)
  <2> DEFINE high == Max(S)
  <2>3. low \in 0..(limit - 1) /\ high \in 0..(limit - 1)
    BY <1>4, <2>2
  <2> HIDE DEF low, high
  <2>4. 0 \in 0..(limit - high + low - 1) /\ low \in Int
    BY <2>3
  <2> QED BY <2>4 DEF low, high
<1>5. 0 \in 0..(shape.h - Max(rows) + Min(rows) - 1) /\ Min(rows) \in Int
  BY <1>1, <1>2, <1>4
<1>6. 0 \in 0..(shape.w - Max(cols) + Min(cols) - 1) /\ Min(cols) \in Int
  BY <1>1, <1>2, <1>4
<1> DEFINE I == 0..(shape.h - Max(rows) + Min(rows) - 1)
<1> DEFINE J == 0..(shape.w - Max(cols) + Min(cols) - 1)
<1> DEFINE a == Min(rows)
<1> DEFINE b == Min(cols)
<1>7. /\ Offsets(shape, pixels) = {<<r - a, c - b>> : r \in I, c \in J}
      /\ 0 \in I /\ 0 \in J /\ a \in Int /\ b \in Int /\ I \subseteq Int /\ J \subseteq Int
  BY <1>3, <1>5, <1>6
<1> HIDE DEF I, J, a, b
<1>8. <<0 - a, 0 - b>> \in Offsets(shape, pixels)
  BY <1>7
<1>9. ASSUME NEW by \in Offsets(shape, pixels) PROVE by[1] \in Int /\ by[2] \in Int
  <2>1. PICK r \in I, c \in J : by = <<r - a, c - b>>
    BY <1>7
  <2>2. by[1] = r - a /\ by[2] = c - b /\ r \in Int /\ c \in Int
    BY <1>7, <2>1
  <2> QED BY <1>7, <2>2
<1> QED BY <1>8, <1>9

\* a control of some pixels that are the same in every frame
LEMMA ControlsOf ==
    ASSUME NEW shape \in FrameShapes, NEW cell, cell \subseteq Pixels(shape)
    PROVE  /\ cell = {} => ControlMasks(shape, Whole(cell)) = {Failed}
           /\ cell # {} => \A mask \in ControlMasks(shape, Whole(cell)) :
                /\ FitsSample(shape, mask) /\ InFrame(shape, mask)
                /\ mask.at[1] \subseteq Pixels(shape)
                /\ ~mask.per_frame /\ Len(mask.at) = 1 /\ DOMAIN mask.at = {1}
                /\ AtOrigin(mask.at[1]) = AtOrigin(cell)
           /\ ControlMasks(shape, Whole(cell)) # {}
<1>1. IsMask(Whole(cell)) /\ ~Whole(cell).per_frame /\ Whole(cell).at[1] = cell
  BY DEF IsMask, Whole, Failed
<1>2. cell = {} => ControlMasks(shape, Whole(cell)) = {Failed}
  BY <1>1 DEF ControlMasks
<1>3. ASSUME cell # {}
      PROVE  ControlMasks(shape, Whole(cell)) = {Whole(Moved(cell, by)) : by \in Offsets(shape, cell)}
  BY <1>1, <1>3, SomePlace DEF ControlMasks
<1>4. ASSUME cell # {}, NEW mask \in ControlMasks(shape, Whole(cell))
      PROVE  /\ FitsSample(shape, mask) /\ InFrame(shape, mask)
             /\ mask.at[1] \subseteq Pixels(shape)
             /\ ~mask.per_frame /\ Len(mask.at) = 1 /\ DOMAIN mask.at = {1}
             /\ AtOrigin(mask.at[1]) = AtOrigin(cell)
  <2>1. PICK by \in Offsets(shape, cell) : mask = Whole(Moved(cell, by))
    BY <1>3, <1>4
  <2>2. Moved(cell, by) \subseteq Pixels(shape)
    BY <1>4, MovedInFrame
  <2>3. by[1] \in Int /\ by[2] \in Int
    BY <1>4, SomePlace
  <2>4. shape.h \in Nat /\ shape.w \in Nat
    BY DEF FrameShapes
  <2>5. AtOrigin(Moved(cell, by)) = AtOrigin(cell)
    BY <1>4, <2>2, <2>3, <2>4, ShapeKept
  <2> DEFINE M == Moved(cell, by)
  <2> HIDE DEF M
  <2>6. mask = Whole(M) /\ M \subseteq Pixels(shape) /\ AtOrigin(M) = AtOrigin(cell)
    BY <2>1, <2>2, <2>5 DEF M
  <2>7. mask.at = <<M>> /\ ~mask.per_frame /\ mask # Failed
    BY <2>6 DEF Whole, Failed
  <2>8. mask.at[1] = M /\ Len(mask.at) = 1 /\ DOMAIN mask.at = {1}
    BY <2>7
  <2>9. InFrame(shape, mask)
    BY <2>6, WholeInFrame
  <2> QED BY <2>6, <2>7, <2>8, <2>9 DEF FitsSample, IsMask
<1>5. ControlMasks(shape, Whole(cell)) # {}
  <2>1. CASE cell = {}
    BY <1>2, <2>1
  <2>2. CASE cell # {}
    <3>1. PICK by : by \in Offsets(shape, cell)
      BY <2>2, SomePlace
    <3> QED BY <1>3, <2>2, <3>1
  <2> QED BY <2>1, <2>2
<1> QED BY <1>2, <1>4, <1>5

\* a control of a tracked part fails
LEMMA TrackedFails ==
    ASSUME NEW shape, NEW params
    PROVE  ControlMasks(shape, SkeletonMask(shape, params)) = {Failed}
<1>1. SkeletonMask(shape, params) = Failed \/ SkeletonMask(shape, params).per_frame
  BY DEF SkeletonMask
<1> QED BY <1>1 DEF ControlMasks, IsMask

\* what controls of a cell, or of a tracked part, become
LEMMA OutcomesOK ==
    ASSUME NEW item, Fit(item), IsControl(item), NEW made, \A e \in made : e.item = item /\ Drawn(e),
           ~Excused(item) => made # {}
    PROVE  ControlOutcomeOK(item, made)
<1> DEFINE shape == Frames[item.sample]
<1> DEFINE recipe == item.region.params.target_region
<1>1. Recipe(item) = recipe /\ shape \in FrameShapes
  BY DEF IsControl, Recipe, Fit
<1>2. ItemMasks(item, TargetOf(item)) = ControlMasks(shape, TargetOf(item))
  BY DEF IsControl, ItemMasks
<1>3. CASE recipe.kind = "grid"
  <2> DEFINE grid == GridMask(shape, recipe.params)
  <2> DEFINE cell == grid.at[1]
  <2>1. TargetOf(item) = grid /\ ~OfFile(item)
    BY <1>1, <1>3 DEF TargetOf, Generated, OfFile
  <2>2. grid = Whole(cell) /\ cell \subseteq Pixels(shape)
    BY DEF GridMask, Whole
  <2> HIDE DEF cell
  <2>3. cell = {} => ItemMasks(item, TargetOf(item)) = {Failed}
    BY <1>1, <1>2, <2>1, <2>2, ControlsOf
  <2>4. ASSUME cell # {}, NEW mask \in ItemMasks(item, TargetOf(item))
        PROVE  /\ FitsSample(shape, mask) /\ InFrame(shape, mask) /\ Len(mask.at) = 1
               /\ mask.at[1] \subseteq Pixels(shape)
               /\ AtOrigin(mask.at[1]) = AtOrigin(cell)
    BY <1>1, <1>2, <2>1, <2>2, <2>4, ControlsOf
  <2>5. cell = {} => made = {}
    <3> SUFFICES ASSUME cell = {}, NEW e \in made PROVE FALSE
      OBVIOUS
    <3>1. FitsSample(shape, Failed)
      BY <2>1, <2>3 DEF Drawn, Possible
    <3> QED BY <3>1 DEF FitsSample, IsMask
  <2>6. cell # {} /\ LevelsFit(item, item.sample) => made # {}
    BY <2>1, <2>4 DEF Excused, Possible
  <2>8. ~LevelsFit(item, item.sample) => made = {}
    BY <2>1 DEF Drawn, Possible
  <2>7. ASSUME NEW e \in made
        PROVE  AtOrigin(IF item.invert THEN Pixels(shape) \ e.mask.at[1] ELSE e.mask.at[1]) = AtOrigin(cell)
    <3>1. cell # {}
      BY <2>5, <2>7
    <3>2. PICK mask \in ItemMasks(item, TargetOf(item)) : e.mask = UsedMask(item, mask)
      BY <2>1 DEF Drawn
    <3>3. /\ mask.at[1] \subseteq Pixels(shape) /\ InFrame(shape, mask) /\ Len(mask.at) = 1
          /\ AtOrigin(mask.at[1]) = AtOrigin(cell)
      BY <2>4, <3>1
    <3>4. CASE ~item.invert
      BY <3>2, <3>3, <3>4 DEF UsedMask
    <3>5. CASE item.invert
      <4>1. e.mask = Inverted(shape, mask)
        BY <3>2, <3>5 DEF UsedMask
      <4>2. 1 \in 1..Len(mask.at)
        BY <3>3
      <4>3. Inverted(shape, mask).at[1] = Pixels(shape) \ mask.at[1]
        BY <3>3, <4>2, InvertedInFrame
      <4>4. Pixels(shape) \ (Pixels(shape) \ mask.at[1]) = mask.at[1]
        BY <3>3
      <4> QED BY <3>3, <3>5, <4>1, <4>3, <4>4
    <3> QED BY <3>4, <3>5
  <2> QED BY <1>3, <2>5, <2>6, <2>7, <2>8 DEF ControlOutcomeOK, cell
<1>4. CASE recipe.kind = "skeleton_parts"
  <2>1. TargetOf(item) = SkeletonMask(shape, recipe.params) /\ ~OfFile(item)
    BY <1>1, <1>4 DEF TargetOf, Generated, OfFile
  <2>2. ItemMasks(item, TargetOf(item)) = {Failed}
    BY <1>2, <2>1, TrackedFails
  <2>3. made = {}
    <3> SUFFICES ASSUME NEW e \in made PROVE FALSE
      OBVIOUS
    <3>1. FitsSample(shape, Failed)
      BY <2>1, <2>2 DEF Drawn, Possible
    <3> QED BY <3>1 DEF FitsSample, IsMask
  <2> QED BY <1>4, <2>3 DEF ControlOutcomeOK
<1>5. CASE recipe.kind # "grid" /\ recipe.kind # "skeleton_parts"
  BY <1>5 DEF ControlOutcomeOK
<1> QED BY <1>3, <1>4, <1>5

\* controls, once prepared, have the shape of their target
LEMMA ControlsFollow ==
    Typed /\ StableInv /\ SoundInv /\ PlanInv /\ TrackInv => ControlsFollowTheirTarget
<1> SUFFICES ASSUME Typed, StableInv, SoundInv, PlanInv, TrackInv, Settled,
                    NEW s \in Range(config.listed), NEW item \in Range(items[s])
             PROVE  LET k == CHOOSE k \in DOMAIN plan : item.item_id \in Range(plan[k].item_ids) IN
                    (IsControl(item) /\ Full(k)) =>
                        ControlOutcomeOK(item, {e \in Entries[k] : e.item = item})
  BY DEF ControlsFollowTheirTarget
<1>1. phase = "planned" /\ DOMAIN plan = 1..Len(plan)
  BY PlanDomain DEF Settled
<1>2. IsSeq(items[s]) /\ Range(items[s]) = Members(items[s])
  BY <1>1, PlannedSample, SequenceIs
<1>3. item \in Members(items[s])
  BY <1>2
<1>4. \E k \in DOMAIN plan : item.item_id \in Range(plan[k].item_ids)
  <2>1. PICK k \in 1..Len(plan) : item \in Members(ChunkItems(k))
    BY <1>1, <1>3, InOneChunk
  <2>2. IsSeq(ChunkItems(k)) /\ IdsOf(ChunkItems(k)) = plan[k].item_ids
    BY <1>1, ChunkOwn
  <2>3. PICK i \in DOMAIN ChunkItems(k) : ChunkItems(k)[i] = item
    <3>1. DOMAIN ChunkItems(k) = 1..Len(ChunkItems(k))
      BY <2>2, SequenceIs
    <3> QED BY <2>1, <3>1 DEF Members
  <2>4. i \in DOMAIN IdsOf(ChunkItems(k)) /\ IdsOf(ChunkItems(k))[i] = item.item_id
    BY <2>3 DEF IdsOf
  <2> QED BY <1>1, <2>2, <2>4 DEF Range
<1> DEFINE k == CHOOSE k \in DOMAIN plan : item.item_id \in Range(plan[k].item_ids)
<1>5. k \in 1..Len(plan) /\ item.item_id \in Range(plan[k].item_ids)
  BY <1>1, <1>4
<1> HIDE DEF k
<1> SUFFICES ASSUME IsControl(item), Full(k)
             PROVE  ControlOutcomeOK(item, {e \in Entries[k] : e.item = item})
  BY DEF k
<1>6. item \in Members(ChunkItems(k))
  BY <1>1, <1>3, <1>5, FoundById
<1>7. k \in DOMAIN results /\ Entries[k] = Range(results[k].prepared)
  BY <1>5, SettledHas
<1>8. /\ ~Excused(item) => \E e \in Entries[k] : e.item = item
      /\ \A e \in Entries[k] : Drawn(e)
  BY <1>1, <1>6, <1>7, Survives
<1>9. Fit(item)
  <2>1. AllFit(items[s])
    BY <1>1 DEF SoundInv
  <2> QED BY <1>3, <2>1 DEF AllFit, Members
<1> DEFINE made == {e \in Entries[k] : e.item = item}
<1>10. (\A e \in made : e.item = item /\ Drawn(e)) /\ (~Excused(item) => made # {})
  BY <1>8
<1> HIDE DEF made
<1>11. ControlOutcomeOK(item, made)
  BY <1>9, <1>10, OutcomesOK
<1> QED BY <1>11 DEF made

-----------------------------------------------------------------------------
(* The box of a part covers its joints.                                    *)

Within2(joints, axis, a, b) == \A j \in joints : a <= j[axis] /\ j[axis] <= b
Bounded(joints, axis) == \E a, b \in Int : Within2(joints, axis, a, b)

\* finitely many joints lie between bounds
LEMMA JointsBounded ==
    ASSUME NEW axis \in {1, 2}, NEW joints \in SUBSET (Int \X Int), IsFiniteSet(joints)
    PROVE  Bounded(joints, axis)
<1> DEFINE loose(n) == \E T \in SUBSET (Int \X Int) :
                          IsFiniteSet(T) /\ Cardinality(T) = n /\ ~Bounded(T, axis)
<1> DEFINE bad == {n \in Nat : loose(n)}
<1>1. ASSUME NEW n \in Nat, loose(n) PROVE n # 0 /\ loose(n - 1)
  <2>1. PICK T \in SUBSET (Int \X Int) : IsFiniteSet(T) /\ Cardinality(T) = n /\ ~Bounded(T, axis)
    BY <1>1
  <2>2. T # {}
    <3>1. Within2({}, axis, 0, 0)
      BY DEF Within2
    <3> QED BY <2>1, <3>1 DEF Bounded
  <2>3. PICK x \in T : TRUE
    BY <2>2
  <2>4. x[axis] \in Int
    OBVIOUS
  <2>5. IsFiniteSet(T \ {x}) /\ Cardinality(T \ {x}) = n - 1 /\ T \ {x} \in SUBSET (Int \X Int)
    BY <2>1, <2>3, FS_RemoveElement
  <2>6. ASSUME Bounded(T \ {x}, axis) PROVE FALSE
    <3>1. PICK a, b \in Int : Within2(T \ {x}, axis, a, b)
      BY <2>6 DEF Bounded
    <3> DEFINE low == IF a <= x[axis] THEN a ELSE x[axis]
    <3> DEFINE high == IF x[axis] <= b THEN b ELSE x[axis]
    <3>2. low \in Int /\ high \in Int /\ low <= a /\ low <= x[axis] /\ b <= high /\ x[axis] <= high
      BY <2>4
    <3> HIDE DEF low, high
    <3>3. \A j \in T : j[axis] \in Int
      OBVIOUS
    <3>4. ASSUME NEW j \in T PROVE low <= j[axis] /\ j[axis] <= high
      <4>1. CASE j = x
        BY <3>2, <4>1
      <4>2. CASE j # x
        <5>1. a <= j[axis] /\ j[axis] <= b
          BY <3>1, <4>2 DEF Within2
        <5> QED BY <3>2, <3>3, <5>1
      <4> QED BY <4>1, <4>2
    <3>5. Bounded(T, axis)
      BY <3>2, <3>4 DEF Bounded, Within2
    <3> QED BY <2>1, <3>5
  <2>7. n # 0
    BY <2>1, <2>2, FS_EmptySet
  <2> QED BY <2>5, <2>6, <2>7
<1> HIDE DEF loose
<1>2. bad = {}
  <2> SUFFICES ASSUME bad # {} PROVE FALSE
    OBVIOUS
  <2>1. bad \subseteq Nat /\ bad # {}
    OBVIOUS
  <2>2. PICK n \in bad : \A m \in bad : n <= m
    <3> HIDE DEF bad
    <3> QED BY <2>1, NatLeast
  <2>3. n \in Nat /\ n # 0 /\ loose(n - 1)
    BY <1>1, <2>2
  <2>4. n - 1 \in bad
    BY <2>3
  <2> QED BY <2>2, <2>3, <2>4
<1>3. Cardinality(joints) \in Nat
  BY FS_CardinalityType
<1>4. ~loose(Cardinality(joints))
  BY <1>2, <1>3
<1> QED BY <1>4 DEF loose

\* the least of integers that have a bound
LEMMA LeastIsIn ==
    ASSUME NEW S, S \subseteq Int, S # {}, \E b \in Int : \A x \in S : b <= x
    PROVE  Min(S) \in S /\ \A y \in S : Min(S) <= y
<1>0. PICK b \in Int : \A x \in S : b <= x
  OBVIOUS
<1> DEFINE T == {x - b : x \in S}
<1>1. PICK t \in T : \A y \in T : t <= y
  <2>1. \A x \in S : x - b \in Nat
    BY <1>0
  <2>2. T \subseteq Nat /\ T # {}
    BY <2>1
  <2> HIDE DEF T
  <2> QED BY <2>2, NatLeast
<1>2. PICK x \in S : t = x - b
  OBVIOUS
<1>3. \A y \in S : x <= y
  <2> TAKE y \in S
  <2>1. x - b <= y - b
    BY <1>1, <1>2
  <2> QED BY <2>1
<1> QED BY <1>3 DEF Min

\* of two numbers
LEMMA OfTwo ==
    ASSUME NEW a \in Int, NEW b \in Int
    PROVE  /\ Max({a, b}) = IF a <= b THEN b ELSE a
           /\ Min({a, b}) = IF a <= b THEN a ELSE b
<1> DEFINE S == {a, b}
<1>1. S \subseteq Int /\ S # {}
  OBVIOUS
<1>2. \E c \in Int : \A x \in S : x <= c
  <2>1. \A x \in S : x <= IF a <= b THEN b ELSE a
    OBVIOUS
  <2> QED BY <2>1
<1>3. \E c \in Int : \A x \in S : c <= x
  <2>1. \A x \in S : (IF a <= b THEN a ELSE b) <= x
    OBVIOUS
  <2> QED BY <2>1
<1>4. a \in S /\ b \in S /\ \A x \in S : x = a \/ x = b
  OBVIOUS
<1> HIDE DEF S
<1>5. Max(S) \in S /\ \A y \in S : y <= Max(S)
  BY <1>1, <1>2, MaxIsIn
<1>6. Min(S) \in S /\ \A y \in S : Min(S) <= y
  BY <1>1, <1>3, LeastIsIn
<1> DEFINE high == Max(S)
<1> DEFINE low == Min(S)
<1> HIDE DEF high, low
<1>8. /\ high = a \/ high = b
      /\ low = a \/ low = b
      /\ a <= high /\ b <= high /\ low <= a /\ low <= b
  BY <1>4, <1>5, <1>6 DEF high, low
<1>9. high = IF a <= b THEN b ELSE a
  BY <1>8
<1>10. low = IF a <= b THEN a ELSE b
  BY <1>8
<1>7. /\ Max(S) = IF a <= b THEN b ELSE a
      /\ Min(S) = IF a <= b THEN a ELSE b
  BY <1>9, <1>10 DEF high, low
<1> QED BY <1>7 DEF S

SideOf(joints, axis, limit) ==
    LET low == Min({j[axis] : j \in joints})
        high == Max({j[axis] : j \in joints})
        share == Ceiling((high - low) * MarginPercent, 100)
        margin == IF share = 0 THEN SubPixels ELSE share IN
    [low |-> Max({0, low - margin}), high |-> Min({limit * SubPixels, high + margin})]

\* on either axis a joint of the frame lies between the ends of the box
LEMMA SideCovers ==
    ASSUME NEW axis \in {1, 2}, NEW joints \in SUBSET (Int \X Int), IsFiniteSet(joints),
           NEW limit \in Nat, NEW j \in joints, j[axis] \div SubPixels \in 0..(limit - 1)
    PROVE  LET x == SideOf(joints, axis, limit) IN
           /\ x.low \in Int /\ x.high \in Int
           /\ x.low <= j[axis] /\ j[axis] < x.high /\ x.low >= 0
<1> DEFINE S == {i[axis] : i \in joints}
<1> DEFINE v == j[axis]
<1> DEFINE low == Min(S)
<1> DEFINE high == Max(S)
<1> DEFINE share == Ceiling((high - low) * MarginPercent, 100)
<1> DEFINE margin == IF share = 0 THEN SubPixels ELSE share
<1>1. S \subseteq Int /\ v \in S
  OBVIOUS
<1>2. PICK a, b \in Int : \A i \in joints : a <= i[axis] /\ i[axis] <= b
  BY JointsBounded DEF Bounded, Within2
<1>3. \A x \in S : a <= x /\ x <= b
  BY <1>2
<1>13. SideOf(joints, axis, limit) =
          [low |-> Max({0, low - margin}), high |-> Min({limit * SubPixels, high + margin})]
  BY DEF SideOf
<1> HIDE DEF S, v
<1>4. low \in Int /\ high \in Int /\ low <= v /\ v <= high /\ v \in Int
  BY <1>1, <1>3, MaxIsIn, LeastIsIn
<1> HIDE DEF low, high
<1>5. SubPixels \in Nat \ {0} /\ MarginPercent \in Nat
  BY MasksAssumption
<1>6. share \in Nat
  <2> DEFINE n == (high - low) * MarginPercent
  <2>1. high - low \in Nat
    BY <1>4
  <2>2. n \in Nat
    BY <1>5, <2>1
  <2> HIDE DEF n
  <2>3. Ceiling(n, 100) \in Nat
    BY <2>2, CeilingIs
  <2> QED BY <2>3 DEF n
<1> HIDE DEF share
<1>7. margin \in Nat \ {0}
  BY <1>5, <1>6
<1> HIDE DEF margin
<1> DEFINE q == v \div SubPixels
<1>8. v % SubPixels \in 0..SubPixels - 1 /\ v = SubPixels * q + (v % SubPixels)
  BY <1>4, <1>5, DivMod
<1>9. q \in 0..(limit - 1)
  BY DEF v
<1> HIDE DEF q
<1>10. /\ SubPixels * q \in Nat /\ limit * SubPixels \in Nat
       /\ SubPixels * q + SubPixels <= limit * SubPixels
  <2>1. q + 1 \in Int /\ limit \in Int /\ q + 1 <= limit /\ SubPixels \in Nat
    BY <1>5, <1>9
  <2>2. (q + 1) * SubPixels <= limit * SubPixels
    BY <2>1, Grows
  <2>3. (q + 1) * SubPixels = SubPixels * q + SubPixels
    BY <1>5, <1>9
  <2>4. \A x, y \in Nat : x * y \in Nat
    OBVIOUS
  <2> QED BY <1>5, <1>9, <2>2, <2>3, <2>4
<1>11. 0 <= v /\ v < limit * SubPixels
  <2> DEFINE d == v % SubPixels
  <2> DEFINE m == SubPixels * q
  <2> DEFINE n == limit * SubPixels
  <2>1. d \in 0..SubPixels - 1 /\ v = m + d /\ m \in Nat /\ n \in Nat /\ m + SubPixels <= n
    BY <1>8, <1>10
  <2> HIDE DEF d, m, n
  <2>2. 0 <= v /\ v < n
    BY <1>5, <2>1
  <2> QED BY <2>2 DEF n
<1> DEFINE n == limit * SubPixels
<1>12. /\ Max({0, low - margin}) \in Int /\ Max({0, low - margin}) <= v
       /\ Max({0, low - margin}) >= 0
       /\ Min({n, high + margin}) \in Int /\ v < Min({n, high + margin})
  <2>1. n \in Int /\ v < n
    BY <1>10, <1>11
  <2> HIDE DEF n
  <2>2. low - margin \in Int /\ high + margin \in Int /\ low - margin <= v /\ v < high + margin
    BY <1>4, <1>7
  <2>3. Max({0, low - margin}) = IF 0 <= low - margin THEN low - margin ELSE 0
    BY <2>2, OfTwo
  <2>4. Min({n, high + margin}) = IF n <= high + margin THEN n ELSE high + margin
    BY <2>1, <2>2, OfTwo
  <2> QED BY <1>11, <2>1, <2>2, <2>3, <2>4
<1> QED BY <1>12, <1>13 DEF v

\* a number between the ends of an interval is in one of its pixels
LEMMA BetweenHas ==
    ASSUME NEW low \in Int, NEW high \in Int, NEW v \in Int, low <= v, v < high,
           NEW scale \in Int, scale >= 2, NEW limit \in Nat,
           v \div SubPixels \in 0..(limit - 1)
    PROVE  v \div SubPixels \in Between(low, high, scale, limit)
<1> DEFINE i == v \div SubPixels
<1> DEFINE r == v % SubPixels
<1> DEFINE sum == 2 * (low + high)
<1> DEFINE span == (high - low) * scale
<1> DEFINE unit == 4 * SubPixels
<1> DEFINE m == SubPixels * i
<1>1. SubPixels \in Nat \ {0}
  BY MasksAssumption
<1>2. r \in 0..SubPixels - 1 /\ v = SubPixels * i + r /\ i \in Int /\ i >= 0
  BY <1>1, DivMod
<1>3. Between(low, high, scale, limit) =
        {x \in 0..(limit - 1) : (sum - span) \div unit <= x /\ x < Ceiling(sum + span, unit)}
  BY DEF Between
<1>4. i \in 0..(limit - 1)
  OBVIOUS
<1> HIDE DEF i, r
<1>5. m \in Int /\ v = m + r /\ unit \in Nat \ {0} /\ unit * i = 4 * m /\ m >= 0
  <2>1. \A x, y \in Nat : x * y \in Nat
    OBVIOUS
  <2>2. m \in Nat
    BY <1>1, <1>2, <2>1
  <2>3. 4 * SubPixels * i = 4 * (SubPixels * i)
    BY <1>1, <1>2
  <2> QED BY <1>1, <1>2, <2>2, <2>3
<1>6. span \in Int /\ 2 * (high - low) <= span
  <2> DEFINE d == high - low
  <2>1. d \in Nat
    OBVIOUS
  <2> HIDE DEF d
  <2>2. scale * d \in Int /\ 2 * d <= scale * d
    BY <2>1, Grows
  <2>3. d * scale = scale * d
    BY <2>1
  <2> QED BY <2>2, <2>3 DEF d
<1>7. sum - span \in Int /\ sum + span \in Int /\ sum - span <= 4 * low /\ 4 * high <= sum + span
  BY <1>6
<1> HIDE DEF sum, span, m
<1>8. sum - span < 4 * m + unit /\ 4 * m < sum + span /\ sum + span \in Nat
  BY <1>1, <1>2, <1>5, <1>7
<1> DEFINE a == sum - span
<1> DEFINE b == sum + span
<1> HIDE DEF a, b, unit
<1>9. a \div unit <= i
  <2> DEFINE q == a \div unit
  <2> DEFINE t == a % unit
  <2>1. a \in Int /\ unit \in Nat \ {0} /\ a < unit * i + unit /\ unit * i \in Int
    BY <1>2, <1>5, <1>7, <1>8 DEF a, unit
  <2>2. t \in 0..unit - 1 /\ q \in Int /\ unit * q \in Int /\ a = unit * q + t
    BY <2>1, DivMod
  <2> HIDE DEF q, t
  <2>3. ~(i + 1 <= q)
    <3> SUFFICES ASSUME i + 1 <= q PROVE FALSE
      OBVIOUS
    <3>1. (i + 1) * unit <= q * unit
      BY <1>2, <2>1, <2>2, Grows
    <3>2. (i + 1) * unit = unit * i + unit /\ q * unit = unit * q
      BY <1>2, <2>1, <2>2
    <3> QED BY <2>1, <2>2, <3>1, <3>2
  <2>4. q <= i
    BY <1>2, <2>2, <2>3
  <2> QED BY <2>4 DEF q
<1>10. i < Ceiling(b, unit)
  <2> DEFINE q == Ceiling(b, unit)
  <2>1. b \in Nat /\ unit \in Nat \ {0} /\ unit * i < b /\ unit * i \in Int
    BY <1>2, <1>5, <1>7, <1>8 DEF b, unit
  <2>2. q \in Nat /\ b <= unit * q
    BY <2>1, CeilingBounds
  <2> HIDE DEF q
  <2>3. ~(q <= i)
    <3> SUFFICES ASSUME q <= i PROVE FALSE
      OBVIOUS
    <3>1. q * unit <= i * unit
      BY <1>2, <2>1, <2>2, Grows
    <3>2. q * unit = unit * q /\ i * unit = unit * i
      BY <1>2, <2>1, <2>2
    <3>3. unit * q \in Int
      BY <2>1, <2>2
    <3> QED BY <2>1, <2>2, <3>1, <3>2, <3>3
  <2>4. i < q
    BY <1>2, <2>2, <2>3
  <2> QED BY <2>4 DEF q
<1>11. i \in Between(low, high, scale, limit)
  BY <1>3, <1>4, <1>9, <1>10 DEF a, b, unit
<1> QED BY <1>11 DEF i

\* the box of joints, at its size or larger, covers those in the frame
LEMMA BoxCovers ==
    ASSUME NEW joints \in SUBSET (Int \X Int), IsFiniteSet(joints), NEW shape \in FrameShapes,
           NEW scale \in Int, scale >= 2, NEW j \in joints,
           <<j[2] \div SubPixels, j[1] \div SubPixels>> \in Pixels(shape)
    PROVE  <<j[2] \div SubPixels, j[1] \div SubPixels>>
              \in BoxPixels(shape, PartBox(joints, [h |-> shape.h, w |-> shape.w]), scale)
<1> DEFINE frame == [h |-> shape.h, w |-> shape.w]
<1> DEFINE x == SideOf(joints, 1, shape.w)
<1> DEFINE y == SideOf(joints, 2, shape.h)
<1>1. shape.h \in Nat /\ shape.w \in Nat
  BY PixelsAre
<1>2. j[1] \in Int /\ j[2] \in Int
  OBVIOUS
<1>3. j[2] \div SubPixels \in 0..(shape.h - 1) /\ j[1] \div SubPixels \in 0..(shape.w - 1)
  BY DEF Pixels
<1>4. /\ x.low \in Int /\ x.high \in Int
      /\ x.low <= j[1] /\ j[1] < x.high
  BY <1>1, <1>3, SideCovers
<1>5. /\ y.low \in Int /\ y.high \in Int
      /\ y.low <= j[2] /\ j[2] < y.high
  BY <1>1, <1>3, SideCovers
<1> DEFINE box == [x1 |-> x.low, x2 |-> x.high, y1 |-> y.low, y2 |-> y.high]
<1>6. PartBox(joints, frame) = IF x.low >= x.high \/ y.low >= y.high THEN Untracked ELSE box
  BY DEF PartBox, SideOf
<1> HIDE DEF x, y
<1>7. x.low < x.high /\ y.low < y.high
  BY <1>2, <1>4, <1>5
<1>8. PartBox(joints, frame) = box
  BY <1>4, <1>5, <1>6, <1>7
<1>9. box.x1 = x.low /\ box.x2 = x.high /\ box.y1 = y.low /\ box.y2 = y.high
  OBVIOUS
<1>10. box # Untracked
  BY <1>4, <1>5, MasksAssumption
<1> HIDE DEF box
<1>11. BoxPixels(shape, box, scale) =
          Between(y.low, y.high, scale, shape.h) \X Between(x.low, x.high, scale, shape.w)
  BY <1>9, <1>10 DEF BoxPixels
<1>12. j[2] \div SubPixels \in Between(y.low, y.high, scale, shape.h)
  BY <1>1, <1>2, <1>3, <1>5, BetweenHas
<1>13. j[1] \div SubPixels \in Between(x.low, x.high, scale, shape.w)
  BY <1>1, <1>2, <1>3, <1>4, BetweenHas
<1> QED BY <1>8, <1>11, <1>12, <1>13

\* an item of a tracked part is of its own sample's
LEMMA SkeletonItems ==
    ASSUME Typed, StableInv, PlanInv, phase = "planned", NEW s \in Range(config.listed),
           NEW x \in Members(items[s]), x.region.kind = "skeleton_parts"
    PROVE  x.region.params.sample = s /\ x.region.params.scale \in Int
<1>1. Validated(config) /\ items[s] = SampleItems(s, config)
  BY PlannedSample
<1>2. \/ \E r \in Members(Own(s, config)) : VariantOf(x, s, r, config.perturbations, FALSE)
      \/ \E r \in Members(Added(s, config)) : VariantOf(x, s, r, config.perturbations, TRUE)
  BY <1>1, ItemsOfSample
<1>3. ASSUME NEW r, NEW c, VariantOf(x, s, r, config.perturbations, c)
      PROVE  x.region = r
  BY <1>3 DEF VariantOf, Item
<1>4. ASSUME NEW r \in Members(Added(s, config)), VariantOf(x, s, r, config.perturbations, TRUE)
      PROVE  FALSE
  <2>1. r.kind = "skeleton_parts"
    BY <1>3, <1>4
  <2>2. ControlMember(r, s, config)
    BY <1>1, AddedAre
  <2>3. \E control, k, t, i : r = ControlRegion(control, k, t, i)
    BY <2>2 DEF ControlMember, ControlOf
  <2> QED BY <2>1, <2>3 DEF ControlRegion, RegionSpec
<1>5. PICK r \in Members(Own(s, config)) : x.region = r
  BY <1>2, <1>3, <1>4
<1>7. PICK f \in DOMAIN config.regions : r \in Members(Instances(s, config.regions[f]))
  BY <1>1, OwnAre
<1> DEFINE family == config.regions[f]
<1>8. FamilyIs(family)
  BY <1>1 DEF Validated
<1>10. family.kind = "skeleton_parts"
  BY <1>5, <1>7, <1>8, InstanceIs
<1> DEFINE spec == RegionSpec(<<family.region_id>>, <<family.region_id, s>>, "skeleton_parts",
                              [sample |-> s, part |-> family.params.part,
                               scale |-> family.params.scale], None, None)
<1>11. Instances(s, family) = <<>> \/ Instances(s, family) = <<spec>>
  BY <1>10 DEF Instances
<1>12. r \in Members(Instances(s, family))
  BY <1>7
<1>14. spec.params.sample = s /\ spec.params.scale = family.params.scale
  BY DEF RegionSpec
<1> HIDE DEF spec
<1>13. r = spec
  BY <1>11, <1>12, MembersOfEmpty, MembersOfOne
<1> QED BY <1>5, <1>8, <1>10, <1>13, <1>14 DEF FamilyIs

\* a box that was prepared covers its joints
LEMMA JointsFollow ==
    Typed /\ StableInv /\ SoundInv /\ PlanInv /\ TrackInv => JointsAreCovered
<1> SUFFICES ASSUME Typed, StableInv, SoundInv, PlanInv, TrackInv,
                    NEW k \in DOMAIN results, NEW e \in Entries[k],
                    e.item.region.kind = "skeleton_parts", e.item.region.params.scale >= 2,
                    ~e.item.invert,
                    NEW i \in DOMAIN Tracks[<<e.item.sample, e.item.region.params.part>>].joints,
                    NEW j \in Tracks[<<e.item.sample, e.item.region.params.part>>].joints[i],
                    <<j[2] \div SubPixels, j[1] \div SubPixels>> \in Pixels(Frames[e.item.sample]),
                    Cardinality(Tracks[<<e.item.sample, e.item.region.params.part>>].joints[i])
                       >= MinValidJoints
             PROVE  <<j[2] \div SubPixels, j[1] \div SubPixels>> \in e.mask.at[i]
  BY DEF JointsAreCovered
<1> DEFINE item == e.item
<1> DEFINE shape == Frames[e.item.sample]
<1> DEFINE params == e.item.region.params
<1> DEFINE key == <<e.item.sample, e.item.region.params.part>>
<1> DEFINE pixel == <<j[2] \div SubPixels, j[1] \div SubPixels>>
<1>1. phase = "planned"
  <2>1. results # <<>>
    <3>1. DOMAIN <<>> = {}
      OBVIOUS
    <3> QED BY <3>1
  <2> QED BY <2>1 DEF StableInv, Idle
<1>2. k \in 1..Len(plan)
  BY DEF StableInv, Delivered
<1>3. e \in Range(results[k].prepared)
  BY DEF Entries
<1>4. item \in Members(ChunkItems(k))
  BY <1>3 DEF TrackInv, Kept, Tracked
<1>5. plan[k].sample \in Range(config.listed) /\ item \in Members(items[plan[k].sample])
  BY <1>1, <1>2, <1>4, ChunkOwn
<1>6. item.sample = plan[k].sample
  BY <1>1, <1>5, SampleOfItem
<1>7. params.sample = item.sample /\ params.scale \in Int
  BY <1>1, <1>5, <1>6, SkeletonItems
<1>8. Made(e)
  BY <1>3 DEF SoundInv, AllMade
<1>9. shape \in FrameShapes
  BY <1>8 DEF Made, Fit
<1>10. PICK mask : InFrame(shape, mask) /\ OfRegion(item, mask) /\ e.mask = UsedMask(item, mask)
  BY <1>8 DEF Made
<1>11. e.mask = SkeletonMask(shape, params) /\ InFrame(shape, e.mask)
  BY <1>10 DEF OfRegion, UsedMask, Generated
<1> HIDE DEF item, shape, params, pixel
<1>12. e.mask # Failed
  <2>1. Len(e.mask.at) # 0
    BY <1>9, <1>11, PixelsAre DEF InFrame, FrameShapes
  <2>2. Len(Failed.at) = 0
    BY DEF Failed
  <2> QED BY <2>1, <2>2
<1>13. key = <<params.sample, params.part>>
  BY <1>7 DEF item, params
<1> DEFINE boxes == Boxes[key].boxes
<1>14. /\ key \in DOMAIN Boxes /\ Boxes[key].frame_size = [h |-> shape.h, w |-> shape.w]
       /\ e.mask = [per_frame |-> TRUE,
                    at |-> [n \in DOMAIN boxes |-> BoxPixels(shape, boxes[n], params.scale)]]
  BY <1>11, <1>12, <1>13, SMTT(30) DEF SkeletonMask
<1> DEFINE joints == Tracks[key].joints[i]
<1>15. /\ key \in DOMAIN Tracks /\ i \in DOMAIN Tracks[key].joints
       /\ j \in joints /\ Cardinality(joints) >= MinValidJoints
  BY <1>14, ZenonT(30) DEF Boxes
<1>16. Boxes[key] = [frame_size |-> Tracks[key].frame_size,
                     boxes |-> [n \in DOMAIN Tracks[key].joints |->
                        IF Cardinality(Tracks[key].joints[n]) < MinValidJoints THEN Untracked
                        ELSE PartBox(Tracks[key].joints[n], Tracks[key].frame_size)]]
  BY <1>15 DEF Boxes
<1>17. joints \in SUBSET (Int \X Int) /\ IsFiniteSet(joints)
  <2> DEFINE all == Tracks[key].joints
  <2>1. all \in Seq(SUBSET (Int \X Int)) /\ \A n \in DOMAIN all : IsFiniteSet(all[n])
    <3> HIDE DEF key
    <3> QED BY <1>15, MasksAssumption
  <2>2. i \in DOMAIN all
    BY <1>15
  <2> HIDE DEF all, key
  <2>3. DOMAIN all = 1..Len(all) /\ \A n \in 1..Len(all) : all[n] \in SUBSET (Int \X Int)
    BY <2>1, SMTT(30)
  <2> QED BY <2>1, <2>2, <2>3 DEF all
<1>18. Cardinality(joints) \in Nat /\ MinValidJoints \in Nat
  BY <1>17, FS_CardinalityType, MasksAssumption
<1>19. i \in DOMAIN boxes /\ boxes[i] = PartBox(joints, [h |-> shape.h, w |-> shape.w])
  <2> HIDE DEF key
  <2>1. Boxes[key].frame_size = Tracks[key].frame_size
    BY <1>16
  <2>2. /\ DOMAIN boxes = DOMAIN Tracks[key].joints
        /\ boxes[i] = IF Cardinality(joints) < MinValidJoints THEN Untracked
                      ELSE PartBox(joints, Tracks[key].frame_size)
    BY <1>15, <1>16
  <2>3. ~(Cardinality(joints) < MinValidJoints)
    BY <1>15, <1>18
  <2> QED BY <1>14, <1>15, <2>1, <2>2, <2>3
<1>20. e.mask.at[i] = BoxPixels(shape, boxes[i], params.scale)
  <2> HIDE DEF key, boxes
  <2>1. e.mask.at = [n \in DOMAIN boxes |-> BoxPixels(shape, boxes[n], params.scale)]
    BY <1>14
  <2> QED BY <1>19, <2>1
<1>21. pixel \in Pixels(shape) /\ params.scale >= 2
  BY DEF pixel, shape, params
<1> HIDE DEF key, boxes, joints
<1>22. pixel \in BoxPixels(shape, PartBox(joints, [h |-> shape.h, w |-> shape.w]), params.scale)
  BY <1>7, <1>9, <1>15, <1>17, <1>21, BoxCovers DEF pixel
<1> QED BY <1>19, <1>20, <1>22 DEF pixel

-----------------------------------------------------------------------------
(* How many items a sample has.                                            *)

SaltsOf(ps) == [i \in 1..Len(ps) |-> Len(ps[i].salts)]
Salts(ps) == Total(SaltsOf(ps), Len(ps))

\* salts are counted
LEMMA SaltsAre ==
    ASSUME NEW ps, IsSeq(ps), SaltsOnce(ps)
    PROVE  /\ \A i \in 1..Len(ps) : SaltsOf(ps)[i] = Len(ps[i].salts) /\ SaltsOf(ps)[i] \in Nat
           /\ Salts(ps) \in Int
<1>1. Len(ps) \in Nat /\ DOMAIN ps = 1..Len(ps)
  BY SequenceIs
<1>2. ASSUME NEW i \in 1..Len(ps)
      PROVE  SaltsOf(ps)[i] = Len(ps[i].salts) /\ SaltsOf(ps)[i] \in Nat
  <2>1. IsSeq(ps[i].salts)
    BY <1>1 DEF SaltsOnce
  <2> QED BY <2>1, SequenceIs DEF SaltsOf
<1>3. Ints(SaltsOf(ps), Len(ps))
  BY <1>2 DEF Ints
<1> QED BY <1>1, <1>2, <1>3, TotalIsInt DEF Salts

\* every region has an item for every salt
LEMMA VariantsLength ==
    ASSUME NEW sample, NEW region, NEW ps, IsSeq(ps), SaltsOnce(ps), NEW c
    PROVE  Len(Variants(sample, region, ps, c)) = Salts(ps)
<1> DEFINE rows == RowsOf(sample, region, ps, c)
<1> DEFINE n == Len(ps)
<1>1. /\ n \in Nat /\ DOMAIN ps = 1..n
      /\ rows = [i \in 1..n |-> rows[i]]
      /\ \A i \in 1..n : rows[i] = Row(sample, region, ps[i], c) /\ IsSeq(rows[i])
  BY RowsAre
<1> HIDE DEF rows
<1>2. Len(FlattenSeq(rows)) = Total(Lengths(rows, n), n)
  BY <1>1, FlatLength
<1>3. ASSUME NEW i \in 1..n PROVE Lengths(rows, n)[i] = SaltsOf(ps)[i]
  <2>1. IsSeq(ps[i].salts) /\ rows[i] = Row(sample, region, ps[i], c)
    BY <1>1 DEF SaltsOnce
  <2>2. Len(rows[i]) = Len(ps[i].salts)
    BY <2>1, RowIs
  <2> QED BY <2>2, SaltsAre DEF Lengths
<1>4. Total(Lengths(rows, n), n) = Total(SaltsOf(ps), n)
  <2>2. \A i \in 1..n : SaltsOf(ps)[i] \in Nat
    BY SaltsAre
  <2>1. Ints(SaltsOf(ps), n) /\ SameTerms(SaltsOf(ps), Lengths(rows, n), n)
    BY <1>3, <2>2 DEF Ints, SameTerms
  <2> HIDE DEF n
  <2> QED BY <1>1, <2>1, TotalEqual
<1> QED BY <1>2, <1>4 DEF Variants, Salts, rows

\* so many items: regions times salts
LEMMA ItemsLength ==
    ASSUME NEW sample, NEW regions, IsSeq(regions), NEW ps, IsSeq(ps), SaltsOnce(ps), NEW c
    PROVE  Len(ItemsOf(sample, regions, ps, c)) = Len(regions) * Salts(ps)
<1> DEFINE all == [r \in DOMAIN regions |-> Variants(sample, regions[r], ps, c)]
<1> DEFINE n == Len(regions)
<1>1. /\ ItemsOf(sample, regions, ps, c) = FlattenSeq(all)
      /\ n \in Nat /\ DOMAIN regions = 1..n
      /\ all = [i \in 1..n |-> all[i]]
      /\ \A i \in 1..n :
                 all[i] = Variants(sample, regions[i], ps, c) /\ IsSeq(all[i])
  BY ItemsOfIs
<1> HIDE DEF all, n
<1>2. Len(FlattenSeq(all)) = Total(Lengths(all, n), n)
  BY <1>1, FlatLength
<1>3. Salts(ps) \in Int /\ \A i \in 1..n : Len(all[i]) = Salts(ps)
  <2>1. Salts(ps) \in Int
    BY SaltsAre
  <2>2. ASSUME NEW i \in 1..n PROVE Len(all[i]) = Salts(ps)
    <3>1. Len(Variants(sample, regions[i], ps, c)) = Salts(ps)
      BY VariantsLength
    <3> QED BY <1>1, <3>1
  <2> QED BY <2>1, <2>2
<1>4. Total(Lengths(all, n), n) = n * Salts(ps)
  <2>1. AllAre(Lengths(all, n), n, Salts(ps))
    BY <1>3 DEF Lengths, AllAre
  <2> QED BY <1>1, <1>3, <2>1, TotalSame
<1> QED BY <1>1, <1>2, <1>4 DEF n

\* a family that expands has the instances it is counted with
LEMMA InstancesLength ==
    ASSUME NEW s, NEW r, FamilyIs(r), Expands(s, r)
    PROVE  Len(Instances(s, r)) = InstanceCount(r) /\ InstanceCount(r) \in Nat
<1>1. CASE r.kind = "grid"
  <2>1. Instances(s, r) = GridCells(r)
    BY <1>1 DEF Instances
  <2>2. r.params.rows \in Nat \ {0} /\ r.params.cols \in Nat \ {0}
    BY <1>1 DEF FamilyIs
  <2>3. Len(GridCells(r)) = r.params.rows * r.params.cols /\ Len(GridCells(r)) \in Nat
    BY <2>2, CellsAre
  <2> QED BY <1>1, <2>1, <2>3 DEF InstanceCount
<1>2. CASE r.kind # "grid"
  <2>1. r.kind = "explicit" \/ r.kind = "skeleton_parts"
    BY <1>2 DEF FamilyIs, Families
  <2>2. \E x : Instances(s, r) = <<x>>
    BY <2>1 DEF Instances, Expands
  <2>3. Len(Instances(s, r)) = 1
    BY <2>2
  <2> QED BY <1>2, <2>3 DEF InstanceCount
<1> QED BY <1>1, <1>2

InstanceNum(c) == [f \in 1..Len(c.regions) |-> InstanceCount(c.regions[f])]
TargetFamily(c, k) == FamilyNamed(c, c.controls[k].match_area_of)
ControlNum(c) ==
    [k \in 1..Len(c.controls) |->
       InstanceCount(c.regions[TargetFamily(c, k)]) * c.controls[k].n_samples]
AllExpand(s, c) == \A f \in DOMAIN c.regions : Expands(s, c.regions[f])

\* the counts of an accepted configuration are natural numbers
LEMMA Counted ==
    ASSUME NEW c, Validated(c), NEW s, AllExpand(s, c)
    PROVE  /\ Len(c.regions) \in Nat /\ DOMAIN c.regions = 1..Len(c.regions)
           /\ Len(c.controls) \in Nat /\ DOMAIN c.controls = 1..Len(c.controls)
           /\ \A f \in 1..Len(c.regions) :
                 /\ Len(Instances(s, c.regions[f])) = InstanceCount(c.regions[f])
                 /\ InstanceCount(c.regions[f]) \in Nat
                 /\ IsSeq(Instances(s, c.regions[f]))
           /\ \A k \in 1..Len(c.controls) :
                 /\ TargetFamily(c, k) \in 1..Len(c.regions)
                 /\ c.controls[k].n_samples \in Nat
<1>1. Len(c.regions) \in Nat /\ DOMAIN c.regions = 1..Len(c.regions)
  BY SequenceIs DEF Validated
<1>2. Len(c.controls) \in Nat /\ DOMAIN c.controls = 1..Len(c.controls)
  BY SequenceIs DEF Validated, Expandable
<1>3. ASSUME NEW f \in 1..Len(c.regions)
      PROVE  /\ Len(Instances(s, c.regions[f])) = InstanceCount(c.regions[f])
             /\ InstanceCount(c.regions[f]) \in Nat
             /\ IsSeq(Instances(s, c.regions[f]))
  <2>1. FamilyIs(c.regions[f]) /\ Expands(s, c.regions[f])
    BY <1>1 DEF Validated, AllExpand
  <2>2. Regions(Instances(s, c.regions[f]))
    BY <2>1, InstancesOnce
  <2> QED BY <2>1, <2>2, InstancesLength DEF Regions
<1>4. ASSUME NEW k \in 1..Len(c.controls)
      PROVE  TargetFamily(c, k) \in 1..Len(c.regions) /\ c.controls[k].n_samples \in Nat
  BY <1>1, <1>2 DEF Validated, Expandable, TargetFamily, FamilyNamed
<1> QED BY <1>1, <1>2, <1>3, <1>4

\* the regions of a sample are counted family by family
LEMMA OwnLength ==
    ASSUME NEW c, Validated(c), NEW s, AllExpand(s, c)
    PROVE  /\ Len(Own(s, c)) = Total(InstanceNum(c), Len(c.regions))
           /\ Ints(InstanceNum(c), Len(c.regions))
<1> DEFINE F == InstancesOf(s, c)
<1> DEFINE n == Len(c.regions)
<1>1. n \in Nat /\ DOMAIN c.regions = 1..n
  BY Counted
<1>2. \A f \in 1..n : /\ Len(Instances(s, c.regions[f])) = InstanceCount(c.regions[f])
                      /\ InstanceCount(c.regions[f]) \in Nat
                      /\ IsSeq(Instances(s, c.regions[f]))
  BY Counted
<1>3. F = [f \in 1..n |-> F[f]] /\ \A f \in 1..n : F[f] = Instances(s, c.regions[f])
  BY <1>1 DEF InstancesOf
<1> HIDE DEF F
<1>4. Len(FlattenSeq(F)) = Total(Lengths(F, n), n)
  BY <1>1, <1>2, <1>3, FlatLength
<1>5. Ints(InstanceNum(c), n) /\ SameTerms(InstanceNum(c), Lengths(F, n), n)
  <2> DEFINE h == InstanceNum(c)
  <2> DEFINE g == Lengths(F, n)
  <2>1. ASSUME NEW f \in 1..n PROVE h[f] = InstanceCount(c.regions[f]) /\ g[f] = Len(F[f])
    BY DEF InstanceNum, Lengths
  <2> HIDE DEF h, g
  <2>2. ASSUME NEW f \in 1..n PROVE h[f] \in Int /\ g[f] = h[f]
    <3> DEFINE count == InstanceCount(c.regions[f])
    <3> DEFINE rows == Instances(s, c.regions[f])
    <3>1. Len(rows) = count /\ count \in Nat
      BY <1>2
    <3>2. F[f] = rows
      BY <1>3
    <3>3. h[f] = count /\ g[f] = Len(F[f])
      BY <2>1
    <3> HIDE DEF count, rows
    <3> QED BY <3>1, <3>2, <3>3
  <2>3. Ints(h, n) /\ SameTerms(h, g, n)
    BY <2>2 DEF Ints, SameTerms
  <2> QED BY <2>3 DEF h, g
<1>6. Total(Lengths(F, n), n) = Total(InstanceNum(c), n)
  <2> HIDE DEF n
  <2> QED BY <1>1, <1>5, TotalEqual
<1> QED BY <1>4, <1>5, <1>6 DEF Own, F

\* so many controls of every target
LEMMA ControlsLength ==
    ASSUME NEW control, control.n_samples \in Nat, NEW k, NEW targets, IsSeq(targets)
    PROVE  Len(ControlRegions(control, k, targets)) = Len(targets) * control.n_samples
<1> DEFINE n == Len(targets)
<1> DEFINE m == control.n_samples
<1> DEFINE row(t) == [i \in 1..m |-> ControlRegion(control, k, targets[t], i)]
<1> DEFINE F == [t \in DOMAIN targets |-> row(t)]
<1>1. n \in Nat /\ DOMAIN targets = 1..n
  BY SequenceIs
<1>2. ControlRegions(control, k, targets) = FlattenSeq(F)
  BY DEF ControlRegions
<1>3. F = [t \in 1..n |-> F[t]] /\ \A t \in 1..n : F[t] = row(t)
  BY <1>1
<1> HIDE DEF F, n
<1>4. ASSUME NEW t \in 1..n PROVE IsSeq(F[t]) /\ Len(F[t]) = m
  <2> DEFINE s == row(t)
  <2>1. s = [i \in 1..m |-> s[i]]
    OBVIOUS
  <2> HIDE DEF s
  <2>2. IsSeq(s) /\ Len(s) = m
    BY <2>1, MadeSequence
  <2> QED BY <1>3, <2>2 DEF s
<1> HIDE DEF row
<1>5. Len(FlattenSeq(F)) = Total(Lengths(F, n), n)
  BY <1>1, <1>3, <1>4, FlatLength
<1>6. AllAre(Lengths(F, n), n, m)
  BY <1>4 DEF AllAre, Lengths
<1>7. Total(Lengths(F, n), n) = n * m
  BY <1>1, <1>6, TotalSame
<1> QED BY <1>2, <1>5, <1>7 DEF n

\* the controls of a sample are counted request by request
LEMMA AddedLength ==
    ASSUME NEW c, Validated(c), NEW s, AllExpand(s, c)
    PROVE  /\ Len(Added(s, c)) = Total(ControlNum(c), Len(c.controls))
           /\ Ints(ControlNum(c), Len(c.controls))
<1> DEFINE F == ControlsBy(s, c)
<1> DEFINE n == Len(c.controls)
<1>1. n \in Nat /\ DOMAIN c.controls = 1..n /\ DOMAIN c.regions = 1..Len(c.regions)
  BY Counted
<1>2. \A k \in 1..n : TargetFamily(c, k) \in 1..Len(c.regions) /\ c.controls[k].n_samples \in Nat
  BY Counted
<1>3. /\ F = [k \in 1..n |-> F[k]]
      /\ \A k \in 1..n : F[k] = ControlRegions(c.controls[k], k,
                                               Instances(s, c.regions[TargetFamily(c, k)]))
  BY <1>1, <1>2 DEF ControlsBy, InstancesOf, TargetFamily
<1> HIDE DEF F, n
<1>4. ASSUME NEW k \in 1..n
      PROVE  /\ IsSeq(F[k]) /\ Len(F[k]) = ControlNum(c)[k] /\ ControlNum(c)[k] \in Int
  <2> DEFINE t == TargetFamily(c, k)
  <2> DEFINE targets == Instances(s, c.regions[t])
  <2> DEFINE control == c.controls[k]
  <2>1. t \in 1..Len(c.regions) /\ control.n_samples \in Nat
    BY <1>2
  <2> HIDE DEF t
  <2>2. Len(targets) = InstanceCount(c.regions[t]) /\ Len(targets) \in Nat /\ IsSeq(targets)
    BY <2>1, Counted
  <2>3. Regions(targets)
    <3>1. FamilyIs(c.regions[t])
      BY <1>1, <2>1 DEF Validated
    <3> QED BY <3>1, InstancesOnce
  <2>4. ControlNum(c)[k] = InstanceCount(c.regions[t]) * control.n_samples
    BY DEF ControlNum, n, t
  <2>5. F[k] = ControlRegions(control, k, targets)
    BY <1>3 DEF t
  <2> HIDE DEF targets, control
  <2>6. Regions(ControlRegions(control, k, targets))
    BY <2>1, <2>3, ControlsOnce
  <2>7. Len(ControlRegions(control, k, targets)) = Len(targets) * control.n_samples
    BY <2>1, <2>2, ControlsLength
  <2>8. Len(targets) * control.n_samples \in Int
    BY <2>1, <2>2
  <2> QED BY <2>2, <2>4, <2>5, <2>6, <2>7, <2>8 DEF Regions
<1>5. Len(FlattenSeq(F)) = Total(Lengths(F, n), n)
  BY <1>1, <1>3, <1>4, FlatLength
<1>6. Ints(ControlNum(c), n) /\ SameTerms(ControlNum(c), Lengths(F, n), n)
  BY <1>4 DEF Ints, SameTerms, Lengths
<1>7. Total(Lengths(F, n), n) = Total(ControlNum(c), n)
  BY <1>1, <1>6, TotalEqual
<1> QED BY <1>5, <1>6, <1>7 DEF Added, F, n

\* how many items there are does not depend on the sample
ItemCount(c) ==
    (Total(InstanceNum(c), Len(c.regions)) + Total(ControlNum(c), Len(c.controls)))
    * Salts(c.perturbations)

\* every sample has the same number of items
LEMMA SampleLength ==
    ASSUME NEW c, Validated(c), NEW s, AllExpand(s, c)
    PROVE  Len(SampleItems(s, c)) = ItemCount(c)
<1> DEFINE ps == c.perturbations
<1> DEFINE own == ItemsOf(s, Own(s, c), ps, FALSE)
<1> DEFINE added == ItemsOf(s, Added(s, c), ps, TRUE)
<1>1. SampleItems(s, c) = own \o added
  BY ItemsSplit
<1>2. IsSeq(ps) /\ SaltsOnce(ps)
  BY DEF Validated, Expandable
<1>3. Regions(Own(s, c)) /\ Regions(Added(s, c))
  BY OwnAre, AddedAre
<1>4. IsSeq(Own(s, c)) /\ IsSeq(Added(s, c))
  BY <1>3 DEF Regions
<1>5. Len(own) = Len(Own(s, c)) * Salts(ps) /\ Len(added) = Len(Added(s, c)) * Salts(ps)
  <2> DEFINE x == Own(s, c)
  <2> DEFINE y == Added(s, c)
  <2> DEFINE q == c.perturbations
  <2>1. IsSeq(x) /\ IsSeq(y) /\ IsSeq(q) /\ SaltsOnce(q)
    BY <1>2, <1>4
  <2> DEFINE no == FALSE
  <2> DEFINE yes == TRUE
  <2> HIDE DEF x, y, q, no, yes
  <2>2. Len(ItemsOf(s, x, q, no)) = Len(x) * Salts(q)
    BY <2>1, ItemsLength
  <2>3. Len(ItemsOf(s, y, q, yes)) = Len(y) * Salts(q)
    BY <2>1, ItemsLength
  <2> QED BY <2>2, <2>3 DEF x, y, q, no, yes
<1>6. IsSeq(own) /\ IsSeq(added)
  BY <1>2, <1>4, ItemsMembers
<1> HIDE DEF own, added
<1>7. Len(own \o added) = Len(own) + Len(added)
  <2> DEFINE A == Range(own) \cup Range(added)
  <2>1. Range(own) \subseteq A /\ Range(added) \subseteq A
    OBVIOUS
  <2>2. own \in Seq(A) /\ added \in Seq(A)
    BY <1>6, <2>1, SeqMonotonic DEF IsSeq
  <2> HIDE DEF A
  <2> QED BY <2>2, ConcatProperties
<1> DEFINE a == Len(Own(s, c))
<1> DEFINE b == Len(Added(s, c))
<1> DEFINE z == Salts(ps)
<1>8. a \in Nat /\ b \in Nat /\ z \in Int
  BY <1>2, <1>4, SaltsAre, SequenceIs
<1>9. ItemCount(c) = (a + b) * z
  BY OwnLength, AddedLength DEF ItemCount
<1> HIDE DEF a, b, z
<1>10. (a + b) * z = a * z + b * z
  BY <1>8
<1> QED BY <1>1, <1>5, <1>7, <1>9, <1>10 DEF a, b, z

\* how often control k repeats every instance of a family
Timed(c, r) ==
    [k \in DOMAIN c.controls |->
        IF c.controls[k].match_area_of = r.region_id THEN c.controls[k].n_samples ELSE 0]

\* what the families come to with the first j controls
Partly(c, j) ==
    [f \in 1..Len(c.regions) |-> InstanceCount(c.regions[f])
                                 * (1 + Total(Timed(c, c.regions[f]), j))]

\* how often controls repeat a family is a sequence of numbers
LEMMA TimedAre ==
    ASSUME NEW c, Validated(c), NEW r
    PROVE  /\ DOMAIN Timed(c, r) = 1..Len(c.controls)
           /\ \A j \in 0..Len(c.controls) : Ints(Timed(c, r), j)
<1>1. Len(c.controls) \in Nat /\ DOMAIN c.controls = 1..Len(c.controls)
  BY SequenceIs DEF Validated, Expandable
<1>2. \A k \in 1..Len(c.controls) : c.controls[k].n_samples \in Nat
  BY <1>1 DEF Validated, Expandable
<1>3. \A k \in 1..Len(c.controls) : Timed(c, r)[k] \in Int
  BY <1>1, <1>2 DEF Timed
<1>4. DOMAIN Timed(c, r) = 1..Len(c.controls)
  BY <1>1 DEF Timed
<1> HIDE DEF Timed
<1>5. ASSUME NEW j \in 0..Len(c.controls) PROVE Ints(Timed(c, r), j)
  <2>1. \A i \in 1..j : i \in 1..Len(c.controls)
    BY <1>1
  <2> QED BY <1>3, <2>1 DEF Ints
<1> QED BY <1>4, <1>5

\* one control more is one family more
LEMMA PartlyMore ==
    ASSUME NEW c, Validated(c), NEW s, AllExpand(s, c), NEW j \in Nat, j + 1 <= Len(c.controls)
    PROVE  /\ Ints(Partly(c, j), Len(c.regions))
           /\ Bumped(Partly(c, j), Partly(c, j + 1), Len(c.regions), TargetFamily(c, j + 1),
                     ControlNum(c)[j + 1])
<1> DEFINE n == Len(c.regions)
<1> DEFINE m == Len(c.controls)
<1> DEFINE t == TargetFamily(c, j + 1)
<1> DEFINE ns == c.controls[j + 1].n_samples
<1> DEFINE count(f) == InstanceCount(c.regions[f])
<1> DEFINE so(f) == Total(Timed(c, c.regions[f]), j)
<1>1. /\ n \in Nat /\ DOMAIN c.regions = 1..n /\ m \in Nat /\ DOMAIN c.controls = 1..m
      /\ \A f \in 1..n : count(f) \in Nat
      /\ \A k \in 1..m : TargetFamily(c, k) \in 1..n /\ c.controls[k].n_samples \in Nat
  BY Counted
<1>2. j + 1 \in 1..m /\ j \in 0..m /\ j + 1 \in 0..m
  BY <1>1
<1>3. t \in 1..n /\ ns \in Nat
  BY <1>1, <1>2
<1>4. c.regions[t].region_id = c.controls[j + 1].match_area_of
  BY <1>1, <1>2 DEF Validated, Expandable, TargetFamily, FamilyNamed
<1>5. ControlNum(c)[j + 1] = count(t) * ns
  BY <1>2 DEF ControlNum
<1>6. ASSUME NEW f \in 1..n
      PROVE  /\ so(f) \in Int
             /\ Total(Timed(c, c.regions[f]), j + 1) = so(f) + (IF f = t THEN ns ELSE 0)
  <2> DEFINE h == Timed(c, c.regions[f])
  <2>1. h[j + 1] = IF c.controls[j + 1].match_area_of = c.regions[f].region_id THEN ns ELSE 0
    BY <1>1, <1>2 DEF Timed
  <2>2. Ints(h, j) /\ Ints(h, j + 1)
    BY <1>2, TimedAre
  <2>3. c.controls[j + 1].match_area_of = c.regions[f].region_id <=> f = t
    BY <1>1, <1>3, <1>4, FamilyOnce
  <2> HIDE DEF h, t
  <2>4. Total(h, j + 1) = Total(h, j) + h[j + 1]
    BY <2>2, TotalMore
  <2>5. Total(h, j) \in Int
    BY <2>2, TotalIsInt
  <2> QED BY <2>1, <2>3, <2>4, <2>5 DEF h
<1>7. ASSUME NEW f \in 1..n
      PROVE  /\ Partly(c, j)[f] = count(f) * (1 + so(f))
             /\ Partly(c, j + 1)[f] = count(f) * (1 + (so(f) + (IF f = t THEN ns ELSE 0)))
  BY <1>6 DEF Partly
<1> HIDE DEF n, m, t, ns, count, so
<1>8. ASSUME NEW f \in 1..n PROVE Partly(c, j)[f] \in Int
  <2>1. count(f) \in Int /\ 1 + so(f) \in Int
    BY <1>1, <1>6
  <2> QED BY <1>7, <2>1
<1>9. ASSUME NEW f \in 1..n, f # t PROVE Partly(c, j + 1)[f] = Partly(c, j)[f]
  <2>1. so(f) + 0 = so(f)
    BY <1>6
  <2> QED BY <1>7, <1>9, <2>1
<1>10. Partly(c, j + 1)[t] = Partly(c, j)[t] + count(t) * ns
  <2> DEFINE a == count(t)
  <2> DEFINE b == so(t)
  <2>1. a \in Int /\ b \in Int /\ ns \in Int
    BY <1>1, <1>3, <1>6
  <2>2. Partly(c, j + 1)[t] = a * (1 + (b + ns)) /\ Partly(c, j)[t] = a * (1 + b)
    BY <1>3, <1>7
  <2> HIDE DEF a, b
  <2>3. a * (1 + (b + ns)) = a * (1 + b) + a * ns
    BY <2>1
  <2> QED BY <2>2, <2>3 DEF a
<1>11. Ints(Partly(c, j), n)
  BY <1>8 DEF Ints
<1>12. Bumped(Partly(c, j), Partly(c, j + 1), n, t, ControlNum(c)[j + 1])
  BY <1>5, <1>9, <1>10 DEF Bumped
<1> QED BY <1>11, <1>12 DEF n, t

\* instance by instance, or control by control
LEMMA PartlyIs ==
    ASSUME NEW c, Validated(c), NEW s, AllExpand(s, c)
    PROVE  \A j \in 0..Len(c.controls) :
              Total(Partly(c, j), Len(c.regions))
                = Total(InstanceNum(c), Len(c.regions)) + Total(ControlNum(c), j)
<1> DEFINE n == Len(c.regions)
<1> DEFINE m == Len(c.controls)
<1> DEFINE all == Total(InstanceNum(c), n)
<1> DEFINE bad == {j \in 0..m : Total(Partly(c, j), n) # all + Total(ControlNum(c), j)}
<1>1. n \in Nat /\ m \in Nat /\ \A f \in 1..n : InstanceCount(c.regions[f]) \in Nat
  BY Counted
<1>2. Ints(InstanceNum(c), n) /\ Ints(ControlNum(c), m)
  BY OwnLength, AddedLength
<1>3. all \in Int
  BY <1>1, <1>2, TotalIsInt
<1>4. Total(Partly(c, 0), n) = all + Total(ControlNum(c), 0)
  <2>1. ASSUME NEW f \in 1..n PROVE Partly(c, 0)[f] = InstanceNum(c)[f]
    <3> DEFINE d == InstanceCount(c.regions[f])
    <3>1. Partly(c, 0)[f] = d * (1 + 0)
      BY TotalNone DEF Partly
    <3>2. InstanceNum(c)[f] = d /\ d \in Nat
      BY <1>1 DEF InstanceNum
    <3> HIDE DEF d
    <3> QED BY <3>1, <3>2
  <2>2. SameTerms(InstanceNum(c), Partly(c, 0), n)
    BY <2>1 DEF SameTerms
  <2>3. Total(Partly(c, 0), n) = all
    BY <1>1, <1>2, <2>2, TotalEqual
  <2> HIDE DEF all
  <2> QED BY <1>3, <2>3, TotalNone
<1>5. bad = {}
  <2> SUFFICES ASSUME bad # {} PROVE FALSE
    OBVIOUS
  <2>1. bad \subseteq Nat
    BY <1>1
  <2>2. PICK i \in bad : \A j \in bad : i <= j
    <3> HIDE DEF bad
    <3> QED BY <2>1, NatLeast
  <2>3. i # 0 /\ i \in 1..m /\ i - 1 \in 0..m /\ i - 1 \notin bad
    BY <1>1, <1>4, <2>2
  <2>4. Total(Partly(c, i - 1), n) = all + Total(ControlNum(c), i - 1)
    BY <2>3
  <2>5. Total(Partly(c, i), n) # all + Total(ControlNum(c), i)
    BY <2>2
  <2> DEFINE j == i - 1
  <2>6. j \in Nat /\ j + 1 = i /\ j + 1 <= m /\ j + 1 \in 1..m
    BY <1>1, <2>3
  <2> DEFINE t == TargetFamily(c, j + 1)
  <2> DEFINE d == ControlNum(c)[j + 1]
  <2>7. t \in 1..n /\ d \in Int
    BY <1>2, <2>6, Counted DEF Ints
  <2> HIDE DEF j, all
  <2>8. Ints(Partly(c, j), n) /\ Bumped(Partly(c, j), Partly(c, j + 1), n, t, d)
    BY <2>6, PartlyMore
  <2>9. Ints(ControlNum(c), j) /\ Ints(ControlNum(c), j + 1)
    <3>1. \A k \in 1..j + 1 : k \in 1..m
      BY <1>1, <2>6
    <3>2. \A k \in 1..j : k \in 1..m
      BY <1>1, <2>6
    <3> QED BY <1>2, <3>1, <3>2 DEF Ints
  <2>10. Total(ControlNum(c), j + 1) = Total(ControlNum(c), j) + d
    BY <2>6, <2>9, TotalMore
  <2>11. Total(ControlNum(c), j) \in Int
    BY <2>6, <2>9, TotalIsInt
  <2> HIDE DEF t, d
  <2>12. Total(Partly(c, j + 1), n) = Total(Partly(c, j), n) + d
    BY <1>1, <2>7, <2>8, TotalBump
  <2>13. Total(Partly(c, j), n) = all + Total(ControlNum(c), j)
    BY <2>4 DEF j
  <2>14. Total(Partly(c, j + 1), n) # all + Total(ControlNum(c), j + 1)
    BY <2>5, <2>6
  <2> DEFINE x == Total(ControlNum(c), j)
  <2> HIDE DEF x
  <2>15. (all + x) + d = all + (x + d)
    BY <1>3, <2>7, <2>11 DEF x
  <2> QED BY <2>10, <2>12, <2>13, <2>14, <2>15 DEF x
<1> QED BY <1>5

RegionsTimed(c) ==
    [f \in DOMAIN c.regions |->
        InstanceCount(c.regions[f]) * (1 + SumFunction(Timed(c, c.regions[f])))]
SaltsTimed(ps) == [i \in DOMAIN ps |-> Len(ps[i].salts)]

\* how many items a sample has is what the configuration says
LEMMA CountIs ==
    ASSUME NEW c, Validated(c), NEW s, AllExpand(s, c)
    PROVE  /\ SumFunction(RegionsTimed(c)) * SumFunction(SaltsTimed(c.perturbations)) = ItemCount(c)
           /\ SumFunction(RegionsTimed(c)) \in Int
           /\ SumFunction(SaltsTimed(c.perturbations)) \in Int
<1> DEFINE n == Len(c.regions)
<1> DEFINE m == Len(c.controls)
<1> DEFINE ps == c.perturbations
<1>1. n \in Nat /\ DOMAIN c.regions = 1..n /\ m \in Nat /\ m \in 0..m
  BY Counted
<1>2. ASSUME NEW f \in 1..n PROVE RegionsTimed(c)[f] = Partly(c, m)[f]
  <2> DEFINE h == Timed(c, c.regions[f])
  <2>1. Listed(h, m)
    BY <1>1, TimedAre DEF Listed
  <2> HIDE DEF h
  <2>2. SumFunction(h) = Total(h, m)
    BY <1>1, <2>1, SumIs
  <2> QED BY <1>1, <2>2 DEF RegionsTimed, Partly, h
<1>3. ASSUME NEW f \in 1..n PROVE Partly(c, m)[f] \in Int
  <2> DEFINE a == InstanceCount(c.regions[f])
  <2> DEFINE b == Total(Timed(c, c.regions[f]), m)
  <2>1. a \in Int
    BY Counted
  <2>2. Ints(Timed(c, c.regions[f]), m)
    BY <1>1, TimedAre
  <2>3. b \in Int
    BY <1>1, <2>2, TotalIsInt
  <2>4. Partly(c, m)[f] = a * (1 + b)
    BY DEF Partly
  <2> HIDE DEF a, b
  <2>5. 1 + b \in Int
    BY <2>3
  <2> QED BY <2>1, <2>4, <2>5
<1>4. DOMAIN RegionsTimed(c) = 1..n
  BY <1>1 DEF RegionsTimed
<1>5. /\ Listed(RegionsTimed(c), n) /\ Ints(Partly(c, m), n)
      /\ SameTerms(Partly(c, m), RegionsTimed(c), n)
  BY <1>2, <1>3, <1>4 DEF Listed, Ints, SameTerms
<1>6. SumFunction(RegionsTimed(c)) = Total(Partly(c, m), n)
  <2> HIDE DEF n, m
  <2>1. SumFunction(RegionsTimed(c)) = Total(RegionsTimed(c), n)
    BY <1>1, <1>5, SumIs
  <2>2. Total(RegionsTimed(c), n) = Total(Partly(c, m), n)
    BY <1>1, <1>5, TotalEqual
  <2> QED BY <2>1, <2>2
<1>7. Total(Partly(c, m), n) = Total(InstanceNum(c), n) + Total(ControlNum(c), m)
  BY <1>1, PartlyIs
<1>8. SumFunction(SaltsTimed(ps)) = Salts(ps)
  <2>1. IsSeq(ps) /\ SaltsOnce(ps)
    BY DEF Validated, Expandable
  <2>2. Len(ps) \in Nat /\ DOMAIN ps = 1..Len(ps)
    BY <2>1, SequenceIs
  <2>3. SaltsTimed(ps) = SaltsOf(ps) /\ DOMAIN SaltsOf(ps) = 1..Len(ps)
    BY <2>2 DEF SaltsTimed, SaltsOf
  <2> HIDE DEF ps
  <2>4. \A i \in 1..Len(ps) : SaltsOf(ps)[i] \in Nat
    BY <2>1, SaltsAre
  <2>5. Listed(SaltsOf(ps), Len(ps))
    BY <2>3, <2>4 DEF Listed, Ints
  <2> QED BY <2>2, <2>3, <2>5, SumIs DEF Salts
<1>9. Total(Partly(c, m), n) \in Int
  BY <1>1, <1>5, TotalIsInt
<1>10. Salts(ps) \in Int
  BY SaltsAre DEF Validated, Expandable
<1> QED BY <1>6, <1>7, <1>8, <1>9, <1>10 DEF ItemCount

-----------------------------------------------------------------------------
(* Every item is planned once.                                             *)

\* the ids of a chunk are those of its items
LEMMA IdOfChunk ==
    ASSUME Typed, StableInv, phase = "planned", NEW k \in 1..Len(plan), NEW id
    PROVE  id \in Members(plan[k].item_ids) <=> \E x \in Members(ChunkItems(k)) : x.item_id = id
<1> DEFINE own == ChunkItems(k)
<1> DEFINE ids == plan[k].item_ids
<1>1. IsSeq(own) /\ IdsOf(own) = ids
  BY ChunkOwn
<1> HIDE DEF own, ids
<1>2. IsSeq(ids) /\ Len(ids) = Len(own) /\ \A i \in 1..Len(own) : ids[i] = own[i].item_id
  BY <1>1, IdsAre
<1>3. id \in Members(ids) <=> \E x \in Members(own) : x.item_id = id
  BY <1>2 DEF Members
<1> QED BY <1>3 DEF own, ids

\* an id names a sample, and an item of it
LEMMA SameItem ==
    ASSUME Typed, StableInv, PlanInv, phase = "planned",
           NEW s \in Range(config.listed), NEW t \in Range(config.listed),
           NEW a \in 1..Len(items[s]), NEW b \in 1..Len(items[t]),
           items[s][a].item_id = items[t][b].item_id
    PROVE  s = t /\ a = b
<1>1. items[s][a] \in Members(items[s]) /\ items[t][b] \in Members(items[t])
  BY DEF Members
<1>2. items[s][a].item_id[1] = s /\ items[t][b].item_id[1] = t
  BY <1>1, SampleOfItem
<1>3. s = t
  BY <1>2
<1>4. IdsOnce(items[s])
  BY PlannedSample
<1> QED BY <1>3, <1>4 DEF IdsOnce

\* a chunk is neither empty nor too large
LEMMA ChunkSize ==
    ASSUME Typed, StableInv, PlanInv, phase = "planned"
    PROVE  /\ IsSeq(plan)
           /\ \A k \in 1..Len(plan) : Len(plan[k].item_ids) \in 1..config.variants_per_chunk
<1> DEFINE size == config.variants_per_chunk
<1>1. config \in Shape(config) /\ plan = Enumerated(config, items)
  BY DEF Typed, PlanInv
<1>2. \A s \in Range(config.listed) : IsSeq(items[s])
  BY PlannedSample
<1>3. IsSeq(plan) /\ Pieces(plan, config, items)
  BY <1>1, <1>2, PlanIs
<1>4. size \in Nat \ {0}
  BY <1>1 DEF Shape
<1>5. ASSUME NEW k \in 1..Len(plan) PROVE Len(plan[k].item_ids) \in 1..size
  <2> DEFINE its == items[plan[k].sample]
  <2> DEFINE o == plan[k].ordinal
  <2> DEFINE own == Slice(its, o, size)
  <2>1. /\ plan[k].sample \in Range(config.listed) /\ o \in 1..ChunkCount(its, size)
        /\ plan[k].item_ids = IdsOf(own)
    <3> DEFINE meta == plan[k]
    <3>1. IsPiece(meta, config, items)
      BY <1>3 DEF Pieces
    <3> HIDE DEF meta
    <3>2. /\ meta.sample \in Range(config.listed)
          /\ meta.ordinal \in 1..ChunkCount(items[meta.sample], size)
          /\ meta = ChunkMeta(meta.sample, items[meta.sample], meta.ordinal, size)
      BY <3>1 DEF IsPiece
    <3>3. meta.item_ids = IdsOf(Slice(items[meta.sample], meta.ordinal, size))
      BY <3>2 DEF ChunkMeta
    <3> QED BY <3>2, <3>3 DEF meta
  <2>2. IsSeq(its)
    BY <1>2, <2>1
  <2> HIDE DEF its, o, own, size
  <2>3. Slot(its, o, size) # {} /\ o \in Nat \ {0}
    BY <1>4, <2>1, <2>2, SlotOf
  <2>4. IsSeq(own) /\ Len(own) <= size /\ Len(own) # 0
    BY <1>4, <2>2, <2>3, SlotIs DEF own
  <2>5. Len(IdsOf(own)) = Len(own) /\ Len(own) \in Nat
    BY <2>4, IdsAre, SequenceIs
  <2> QED BY <1>4, <2>1, <2>4, <2>5
<1> QED BY <1>3, <1>5

\* the ids of the plan
PlanIds == FlattenSeq([k \in DOMAIN plan |-> plan[k].item_ids])

\* the ids of the plan are those of its chunks, and distinct
LEMMA PlanIdsAre ==
    ASSUME Typed, StableInv, PlanInv, phase = "planned"
    PROVE  /\ IsSeq(PlanIds) /\ Once(PlanIds)
           /\ Members(PlanIds) = UNION {Members(plan[k].item_ids) : k \in 1..Len(plan)}
<1> DEFINE n == Len(plan)
<1> DEFINE F == [k \in DOMAIN plan |-> plan[k].item_ids]
<1>1. n \in Nat /\ DOMAIN plan = 1..n
  BY ChunkSize, SequenceIs
<1>2. F = [k \in 1..n |-> F[k]] /\ \A k \in 1..n : F[k] = plan[k].item_ids
  BY <1>1
<1> HIDE DEF F
<1>3. ASSUME NEW k \in 1..n PROVE IsSeq(F[k]) /\ Once(F[k])
  <2> DEFINE own == ChunkItems(k)
  <2>1. IsSeq(own) /\ IdsOf(own) = F[k] /\ IdsOnce(own)
    BY <1>2, ChunkOwn
  <2> HIDE DEF own
  <2>2. IsSeq(F[k]) /\ Len(F[k]) = Len(own) /\ \A i \in 1..Len(own) : F[k][i] = own[i].item_id
    BY <2>1, IdsAre
  <2> QED BY <2>1, <2>2 DEF Once, IdsOnce
<1>4. ASSUME NEW j \in 1..n, NEW k \in 1..n, j # k PROVE Disjoint(F[j], F[k])
  <2> SUFFICES ASSUME NEW a \in 1..Len(F[j]), NEW b \in 1..Len(F[k]), F[j][a] = F[k][b]
               PROVE  FALSE
    BY DEF Disjoint
  <2>1. F[j][a] \in Members(plan[j].item_ids) /\ F[k][b] \in Members(plan[k].item_ids)
    BY <1>2 DEF Members
  <2>2. PICK x \in Members(ChunkItems(j)) : x.item_id = F[j][a]
    BY <2>1, IdOfChunk
  <2>3. PICK y \in Members(ChunkItems(k)) : y.item_id = F[k][b]
    BY <2>1, IdOfChunk
  <2> DEFINE s == plan[j].sample
  <2> DEFINE t == plan[k].sample
  <2>4. s \in Range(config.listed) /\ t \in Range(config.listed)
        /\ x \in Members(items[s]) /\ y \in Members(items[t])
    BY ChunkOwn
  <2> HIDE DEF s, t
  <2>5. PICK c \in 1..Len(items[s]) : x = items[s][c]
    BY <2>4 DEF Members
  <2>6. PICK d \in 1..Len(items[t]) : y = items[t][d]
    BY <2>4 DEF Members
  <2>7. items[s][c].item_id = items[t][d].item_id
    BY <2>2, <2>3, <2>5, <2>6
  <2>8. s = t /\ c = d
    BY <2>4, <2>7, SameItem
  <2>9. x = y
    BY <2>5, <2>6, <2>8
  <2>10. plan[j].sample = s /\ plan[k].sample = s
    BY <2>8 DEF s, t
  <2>11. x \in Members(ChunkItems(k)) /\ x \in Members(ChunkItems(j))
    BY <2>9
  <2>12. j = k
    BY <2>4, <2>10, <2>11, InOneChunk
  <2> QED BY <1>4, <2>12
<1>5. IsSeq(FlattenSeq(F)) /\ Members(FlattenSeq(F)) = UNION {Members(F[k]) : k \in 1..n}
  BY <1>1, <1>2, <1>3, FlatSequence
<1>6. Once(FlattenSeq(F))
  BY <1>1, <1>2, <1>3, <1>4, FlatOnce
<1>7. UNION {Members(F[k]) : k \in 1..n} = UNION {Members(plan[k].item_ids) : k \in 1..n}
  BY <1>2
<1> QED BY <1>5, <1>6, <1>7 DEF PlanIds, F

\* as many ids as samples times items of one
LEMMA PlanIdsCount ==
    ASSUME Typed, StableInv, PlanInv, phase = "planned", NEW n \in Nat,
           \A s \in Range(config.listed) : Len(items[s]) = n
    PROVE  Cardinality(Members(PlanIds)) = Cardinality(Range(config.listed)) * n
<1> DEFINE A == Range(config.listed)
<1> DEFINE D == A \X (1..n)
<1> DEFINE B == Members(PlanIds)
<1> DEFINE f == [x \in D |-> items[x[1]][x[2]].item_id]
<1>1. IsFiniteSet(A)
  BY ListedIs DEF Typed
<1>2. IsFiniteSet(1..n) /\ Cardinality(1..n) = n
  BY FS_Interval
<1>3. IsFiniteSet(D) /\ Cardinality(D) = Cardinality(A) * n
  <2> DEFINE N == 1..n
  <2>1. IsFiniteSet(N) /\ Cardinality(N) = n
    BY <1>2
  <2> HIDE DEF A, N
  <2>2. IsFiniteSet(A \X N) /\ Cardinality(A \X N) = Cardinality(A) * Cardinality(N)
    BY <1>1, <2>1, FS_Product
  <2> QED BY <2>1, <2>2 DEF N
<1>4. ASSUME NEW x \in D PROVE f[x] \in B
  <2> DEFINE s == x[1]
  <2> DEFINE q == x[2]
  <2>1. s \in A /\ q \in 1..Len(items[s])
    OBVIOUS
  <2>2. items[s][q] \in Members(items[s])
    BY <2>1 DEF Members
  <2>3. f[x] = items[s][q].item_id
    OBVIOUS
  <2> HIDE DEF s, q, f
  <2>4. PICK k \in 1..Len(plan) : items[s][q] \in Members(ChunkItems(k))
    BY <2>1, <2>2, InOneChunk
  <2>5. items[s][q].item_id \in Members(plan[k].item_ids)
    BY <2>4, IdOfChunk
  <2> QED BY <2>3, <2>5, PlanIdsAre
<1>5. ASSUME NEW x \in D, NEW y \in D, f[x] = f[y] PROVE x = y
  <2>1. /\ x[1] \in A /\ x[2] \in 1..Len(items[x[1]]) /\ y[1] \in A /\ y[2] \in 1..Len(items[y[1]])
        /\ x = <<x[1], x[2]>> /\ y = <<y[1], y[2]>>
    OBVIOUS
  <2>2. items[x[1]][x[2]].item_id = items[y[1]][y[2]].item_id
    BY <1>5
  <2>3. x[1] = y[1] /\ x[2] = y[2]
    BY <2>1, <2>2, SameItem
  <2> QED BY <2>1, <2>3
<1>6. ASSUME NEW id \in B PROVE \E x \in D : f[x] = id
  <2>1. PICK k \in 1..Len(plan) : id \in Members(plan[k].item_ids)
    BY PlanIdsAre
  <2>2. PICK item \in Members(ChunkItems(k)) : item.item_id = id
    BY <2>1, IdOfChunk
  <2> DEFINE s == plan[k].sample
  <2>3. s \in A /\ item \in Members(items[s])
    BY ChunkOwn
  <2> HIDE DEF s
  <2>4. PICK q \in 1..Len(items[s]) : item = items[s][q]
    BY <2>3 DEF Members
  <2>5. <<s, q>> \in D
    BY <2>3, <2>4
  <2>6. f[<<s, q>>] = id
    BY <2>2, <2>4, <2>5
  <2> QED BY <2>5, <2>6
<1> HIDE DEF A, B, D, f
<1>7. f \in [D -> B]
  <2>1. f = [x \in D |-> f[x]]
    BY DEF f
  <2> QED BY <1>4, <2>1
<1>8. f \in Bijection(D, B)
  <2>1. f \in Injection(D, B)
    BY <1>5, <1>7 DEF Injection, IsInjective
  <2>2. f \in Surjection(D, B)
    BY <1>6, <1>7 DEF Surjection
  <2> QED BY <2>1, <2>2 DEF Bijection
<1>9. ExistsBijection(D, B)
  BY <1>8 DEF ExistsBijection
<1>10. Cardinality(B) = Cardinality(D)
  BY <1>3, <1>9, FS_Bijection
<1> QED BY <1>3, <1>10 DEF A, B

\* the plan has every item once: samples times regions times salts
LEMMA ItemsFollow == Typed /\ StableInv /\ PlanInv => EveryItemIsPlannedOnce
<1> SUFFICES ASSUME Typed, StableInv, PlanInv, phase = "planned"
             PROVE  /\ Distinct(PlanIds)
                    /\ Len(PlanIds) = Len(config.listed) * SumFunction(RegionsTimed(config))
                                      * SumFunction(SaltsTimed(config.perturbations))
                    /\ \A k \in DOMAIN plan :
                          Len(plan[k].item_ids) \in 1..config.variants_per_chunk
  BY DEF EveryItemIsPlannedOnce, PlanIds, RegionsTimed, SaltsTimed, Timed, TimesTargeted
<1> DEFINE A == Range(config.listed)
<1>1. /\ Validated(config) /\ config.listed # <<>> /\ Distinct(config.listed)
      /\ \A s \in A : AllExpand(s, config) /\ items[s] = SampleItems(s, config)
      /\ config \in Shape(config)
  BY DEF PlanInv, AsPlanned, Planned, PlanOK, AllExpand, Typed
<1>2. IsSeq(PlanIds) /\ Once(PlanIds)
  BY PlanIdsAre
<1>3. Distinct(PlanIds)
  BY <1>2, DistinctIsOnce
<1>4. Len(PlanIds) = Cardinality(Members(PlanIds))
  <2>1. Range(PlanIds) = Members(PlanIds)
    BY <1>2, SequenceIs
  <2> QED BY <1>3, <2>1 DEF Distinct
<1>5. PICK one \in A : TRUE
  <2>1. config.listed \in Seq(Int)
    BY <1>1 DEF Shape
  <2>2. 1 \in DOMAIN config.listed
    BY <1>1, <2>1
  <2> QED BY <2>2 DEF Range
<1> DEFINE n == ItemCount(config)
<1>6. \A s \in A : Len(items[s]) = n
  BY <1>1, SampleLength
<1>7. n \in Nat
  <2>1. IsSeq(items[one])
    BY PlannedSample
  <2> QED BY <1>5, <1>6, <2>1, SequenceIs
<1>8. Cardinality(Members(PlanIds)) = Cardinality(A) * n
  <2> HIDE DEF n
  <2> QED BY <1>6, <1>7, PlanIdsCount
<1>9. Cardinality(A) = Len(config.listed)
  BY <1>1 DEF Distinct
<1>10. Len(config.listed) \in Int
  BY <1>1 DEF Shape
<1> DEFINE r == SumFunction(RegionsTimed(config))
<1> DEFINE z == SumFunction(SaltsTimed(config.perturbations))
<1>11. r * z = n /\ r \in Int /\ z \in Int
  BY <1>1, <1>5, CountIs
<1>12. \A k \in DOMAIN plan : Len(plan[k].item_ids) \in 1..config.variants_per_chunk
  <2>1. DOMAIN plan = 1..Len(plan)
    BY ChunkSize, SequenceIs
  <2> QED BY <2>1, ChunkSize
<1> DEFINE l == Len(config.listed)
<1> HIDE DEF n, r, z, l
<1>13. l * n = l * r * z
  <2>1. l \in Int
    BY <1>10 DEF l
  <2>2. l * (r * z) = l * r * z
    BY <2>1, <1>11
  <2> QED BY <1>11, <2>2
<1> QED BY <1>3, <1>4, <1>8, <1>9, <1>12, <1>13 DEF l, r, z

-----------------------------------------------------------------------------
(* The theorems about what was planned and prepared.                       *)

\* what is known of every state
Known == Typed /\ MasksInv /\ StableInv /\ SoundInv /\ PlanInv /\ TrackInv

\* it is known in the beginning, and after every step
LEMMA AlwaysKnown == Spec => []Known
<1>1. Init => Known
  BY InitTyped, InitMasks, InitStable, InitSound, InitPlan, InitTrack DEF Known
<1>2. Known /\ [Next]_vars => Known'
  BY NextTyped, NextMasks, NextStable, NextSound, NextPlan, NextTrack DEF Known
<1> QED BY <1>1, <1>2, PTL DEF Spec

\* In every behaviour, and for every accepted configuration, the plan holds
\* every combination of an instance or a control of it, a perturbation and a
\* salt, of every sample, exactly once, in chunks that are not empty and no
\* larger than variants_per_chunk; and a configuration that was resolved has a
\* plan unless its source lists nothing or one id twice, a sample lacks a
\* tracked part or two perturbations are twins (plan/builder.py:155-222).
THEOREM PlanSoundSafe == Spec => []PlanIsSound
<1>1. Known => PlanIsSound
  BY OnlyTwinsFollow, ItemsFollow DEF Known, PlanIsSound
<1> QED BY <1>1, AlwaysKnown, PTL

\* In every behaviour, and for every grid, box and frame, the cells of a grid,
\* prepared one by one and perhaps by several workers, have every pixel of the
\* frame once; a control of a cell is prepared if and only if the cell has a
\* pixel, and has its shape; a box covers the joints it was made from
\* (region/mask_generators.py:116-156, 290-332, skeleton_mask_generator.py:64-127).
THEOREM RegionsSafe == Spec => []RegionsAreSound
<1>1. Known => RegionsAreSound
  BY CellsFollow, ControlsFollow, JointsFollow DEF Known, RegionsAreSound
<1> QED BY <1>1, AlwaysKnown, PTL

\* In every behaviour, and for every configuration, frame and mask file, what a
\* process prepared has its type; a region and its complement split the frame,
\* and their areas add up to it up to a rounding on either side
\* (runtime/processors.py:122-132, region/mask_base.py:136-153); a shuffle
\* takes every pixel from the frame and none twice (perturb/operators.py:380-409);
\* and cells, controls and boxes are where the plan says.
THEOREM PreparedSafe == Spec => []PreparedAreSound
<1>1. Known => TypeOK /\ ComplementsSplitTheFrame /\ ShufflesMovePixels
  BY TypesFollow, ComplementsFollow, ShufflesFollow DEF Known
<1> QED BY <1>1, AlwaysKnown, RegionsSafe, PTL DEF PreparedAreSound
=============================================================================
