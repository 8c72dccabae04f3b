--------------------------- MODULE SequenceLemmas ---------------------------
(***************************************************************************)
(* Facts that several proofs share: every set of natural numbers has a     *)
(* least member, which is how a proof here reasons about a recursive       *)
(* function; what cutting, joining and flattening sequences does to their  *)
(* members; and what a sum over a finite set comes to, whatever the order. *)
(***************************************************************************)
EXTENDS Subsequences, SequencesExt, SequenceTheorems, FiniteSetTheorems, WellFoundedInduction,
        TLAPS

Members(s) == {s[k] : k \in 1..Len(s)}

-----------------------------------------------------------------------------
\* Induction without a predicate for parameter: of the numbers for which a
\* claim fails there would be a least one.
LEMMA NatLeast ==
    ASSUME NEW T, T \subseteq Nat, T # {}
    PROVE  \E x \in T : \A y \in T : x <= y
<1> DEFINE R == {p \in Nat \X Nat : p[1] < p[2]}
<1>1. IsWellFoundedOn(R, Nat)
  BY NatLessThanWellFounded DEF OpToRel
<1>2. PICK x \in T : \A y \in T : ~(<<y, x>> \in R)
  <2> HIDE DEF R
  <2> QED BY <1>1, WFMin
<1>3. \A y \in T : x <= y
  <2> SUFFICES ASSUME NEW y \in T, ~(x <= y) PROVE FALSE
    OBVIOUS
  <2>1. <<y, x>> \in Nat \X Nat
    OBVIOUS
  <2>2. <<y, x>>[1] = y /\ <<y, x>>[2] = x
    OBVIOUS
  <2>3. <<y, x>> \in R
    BY <2>1, <2>2
  <2> QED BY <1>2, <2>3
<1> QED BY <1>3

\* division with remainder
LEMMA DivMod ==
    ASSUME NEW a \in Int, NEW n \in Nat \ {0}
    PROVE  /\ a % n \in 0..n - 1 /\ a \div n \in Int
           /\ n * (a \div n) \in Int /\ a = n * (a \div n) + (a % n)
OBVIOUS

-----------------------------------------------------------------------------
\* the members of a sequence over a set are in that set
LEMMA MembersType ==
    ASSUME NEW A, NEW s \in Seq(A)
    PROVE  Members(s) \subseteq A
BY ElementOfSeq DEF Members

\* the empty sequence has no members
LEMMA MembersOfEmpty == Members(<<>>) = {}
BY DEF Members

\* a sequence of one item has that member
LEMMA MembersOfOne ==
    ASSUME NEW x
    PROVE  Members(<<x>>) = {x} /\ Len(<<x>>) = 1
BY DEF Members

\* a sequence of two items
LEMMA TwoMembers ==
    ASSUME NEW A, NEW x \in A, NEW y \in A
    PROVE  /\ <<x, y>> \in Seq(A) /\ Len(<<x, y>>) = 2
           /\ <<x, y>>[1] = x /\ <<x, y>>[2] = y
OBVIOUS

\* appending adds a member
LEMMA MembersOfAppend ==
    ASSUME NEW A, NEW s \in Seq(A), NEW x \in A
    PROVE  Members(Append(s, x)) = Members(s) \cup {x}
<1> DEFINE t == Append(s, x)
<1>1. /\ Len(s) \in Nat /\ Len(t) = Len(s) + 1
      /\ \A i \in 1..Len(s) : t[i] = s[i]
      /\ t[Len(s) + 1] = x
  BY AppendProperties, LenProperties
<1> HIDE DEF t
<1>2. Members(t) = Members(s) \cup {x}
  BY <1>1 DEF Members
<1> QED BY <1>2 DEF t

\* joining joins the members
LEMMA MembersOfConcat ==
    ASSUME NEW A, NEW s \in Seq(A), NEW t \in Seq(A)
    PROVE  Members(s \o t) = Members(s) \cup Members(t)
<1> DEFINE u == s \o t
<1>1. /\ Len(s) \in Nat /\ Len(t) \in Nat /\ Len(u) = Len(s) + Len(t)
      /\ \A i \in 1..Len(s) + Len(t) : u[i] = IF i <= Len(s) THEN s[i] ELSE t[i - Len(s)]
  BY ConcatProperties, LenProperties
<1> HIDE DEF u
<1>2. ASSUME NEW i \in 1..Len(u) PROVE u[i] \in Members(s) \cup Members(t)
  <2>1. CASE i <= Len(s)
    BY <1>1, <2>1 DEF Members
  <2>2. CASE ~(i <= Len(s))
    <3>1. i - Len(s) \in 1..Len(t) /\ u[i] = t[i - Len(s)]
      BY <1>1, <2>2
    <3> QED BY <3>1 DEF Members
  <2> QED BY <2>1, <2>2
<1>3. Members(s) \subseteq Members(u)
  BY <1>1 DEF Members
<1>4. ASSUME NEW i \in 1..Len(t) PROVE t[i] \in Members(u)
  <2>1. Len(s) + i \in 1..Len(u) /\ u[Len(s) + i] = t[i]
    BY <1>1
  <2> QED BY <2>1 DEF Members
<1>5. Members(t) \subseteq Members(u)
  BY <1>4 DEF Members
<1>6. Members(u) \subseteq Members(s) \cup Members(t)
  BY <1>2 DEF Members
<1> QED BY <1>3, <1>5, <1>6 DEF u

\* a sequence that is not empty is its first item, then the others
LEMMA HeadAndTail ==
    ASSUME NEW A, NEW s \in Seq(A), s # <<>>
    PROVE  /\ Len(s) \in Nat \ {0} /\ Head(s) = s[1] /\ s[1] \in A
           /\ Tail(s) \in Seq(A) /\ Len(Tail(s)) = Len(s) - 1
           /\ \A i \in 1..Len(s) - 1 : Tail(s)[i] = s[i + 1]
           /\ Members(s) = {s[1]} \cup Members(Tail(s))
<1> DEFINE t == Tail(s)
<1>1. /\ Len(s) \in Nat \ {0} /\ Head(s) = s[1] /\ s[1] \in A
  BY EmptySeq, ElementOfSeq
<1>2. /\ t \in Seq(A) /\ Len(t) = Len(s) - 1
      /\ \A i \in 1..Len(s) - 1 : t[i] = s[i + 1]
  BY HeadTailProperties
<1> HIDE DEF t
<1>3. Members(t) \cup {s[1]} \subseteq Members(s)
  BY <1>1, <1>2 DEF Members
<1>4. ASSUME NEW i \in 1..Len(s), i # 1 PROVE s[i] \in Members(t)
  <2>1. i - 1 \in 1..Len(t) /\ t[i - 1] = s[i]
    BY <1>1, <1>2, <1>4
  <2> QED BY <2>1 DEF Members
<1>5. Members(s) \subseteq {s[1]} \cup Members(t)
  BY <1>4 DEF Members
<1> QED BY <1>1, <1>2, <1>3, <1>5 DEF t

\* a piece of a sequence, by where it starts and ends
LEMMA Piece ==
    ASSUME NEW A, NEW s \in Seq(A), NEW i \in 0..Len(s), NEW j \in i..Len(s)
    PROVE  /\ SubSeq(s, i + 1, j) \in Seq(A)
           /\ Len(SubSeq(s, i + 1, j)) = j - i
           /\ \A k \in 1..j - i : SubSeq(s, i + 1, j)[k] = s[i + k]
           /\ Members(SubSeq(s, i + 1, j)) = {s[k] : k \in i + 1..j}
<1> DEFINE t == SubSeq(s, i + 1, j)
<1>1. Len(s) \in Nat /\ i \in Nat /\ j \in Nat /\ i <= j /\ j <= Len(s)
  BY LenProperties
<1>2. \A k \in i + 1..j : s[k] \in A
  BY <1>1, ElementOfSeq
<1>3. /\ t \in Seq(A) /\ Len(t) = IF i + 1 <= j THEN j - (i + 1) + 1 ELSE 0
      /\ \A k \in 1..j - (i + 1) + 1 : t[k] = s[i + 1 + k - 1]
  BY <1>1, <1>2, SubSeqProperties
<1> HIDE DEF t
<1>4. /\ Len(t) = j - i
      /\ \A k \in 1..j - i : t[k] = s[i + k]
  BY <1>1, <1>3
<1>5. ASSUME NEW k \in 1..Len(t) PROVE t[k] \in {s[n] : n \in i + 1..j}
  <2>1. i + k \in i + 1..j /\ t[k] = s[i + k]
    BY <1>1, <1>4
  <2> QED BY <2>1
<1>6. ASSUME NEW k \in i + 1..j PROVE s[k] \in Members(t)
  <2>1. k - i \in 1..Len(t) /\ t[k - i] = s[k]
    BY <1>1, <1>4
  <2> QED BY <2>1 DEF Members
<1>7. Members(t) = {s[k] : k \in i + 1..j}
  BY <1>5, <1>6 DEF Members
<1> QED BY <1>3, <1>4, <1>7 DEF t

\* and a piece of a piece
LEMMA PieceOfPiece ==
    ASSUME NEW A, NEW s \in Seq(A), NEW i \in 0..Len(s), NEW j \in i..Len(s),
           NEW m \in 0..j - i, NEW n \in m..j - i
    PROVE  SubSeq(SubSeq(s, i + 1, j), m + 1, n) = SubSeq(s, i + m + 1, i + n)
<1> DEFINE t == SubSeq(s, i + 1, j)
<1> DEFINE u == SubSeq(t, m + 1, n)
<1> DEFINE v == SubSeq(s, (i + m) + 1, i + n)
<1>1. /\ Len(s) \in Nat /\ i \in Nat /\ j \in Nat /\ i <= j /\ j <= Len(s)
      /\ m \in Nat /\ n \in Nat /\ m <= n /\ n <= j - i
  BY LenProperties
<1>2. /\ t \in Seq(A) /\ Len(t) = j - i
      /\ \A k \in 1..j - i : t[k] = s[i + k]
  BY Piece
<1>3. /\ v \in Seq(A) /\ Len(v) = n - m
      /\ \A k \in 1..n - m : v[k] = s[i + m + k]
  <2> DEFINE a == i + m
  <2> DEFINE b == i + n
  <2>1. a \in 0..Len(s) /\ b \in a..Len(s) /\ b - a = n - m
    BY <1>1
  <2> HIDE DEF a, b
  <2>2. /\ SubSeq(s, a + 1, b) \in Seq(A) /\ Len(SubSeq(s, a + 1, b)) = b - a
        /\ \A k \in 1..b - a : SubSeq(s, a + 1, b)[k] = s[a + k]
    BY <2>1, Piece
  <2> QED BY <2>1, <2>2 DEF a, b
<1> HIDE DEF t, v
<1>4. /\ u \in Seq(A) /\ Len(u) = n - m
      /\ \A k \in 1..n - m : u[k] = t[m + k]
  <2>1. m \in 0..Len(t) /\ n \in m..Len(t)
    BY <1>1, <1>2
  <2>2. t \in Seq(A)
    BY <1>2
  <2> QED BY <2>1, <2>2, Piece
<1> HIDE DEF u
<1>5. \A k \in 1..n - m : u[k] = v[k]
  <2> TAKE k \in 1..n - m
  <2>1. m + k \in 1..j - i /\ i + (m + k) = i + m + k
    BY <1>1
  <2> QED BY <1>2, <1>3, <1>4, <2>1
<1>6. u = v
  BY <1>3, <1>4, <1>5, SeqEqual
<1> QED BY <1>6 DEF u, v, t

\* the range of a sequence is its members
LEMMA RangeIsMembers ==
    ASSUME NEW A, NEW s \in Seq(A)
    PROVE  Range(s) = Members(s) /\ DOMAIN s = 1..Len(s)
BY LenProperties DEF Range, Members

\* a function on 1..n is a sequence
LEMMA FunctionAsSeq ==
    ASSUME NEW A, NEW n \in Nat, NEW f \in [1..n -> A]
    PROVE  f \in Seq(A) /\ Len(f) = n
<1>1. f \in Seq(A)
  BY SeqDef
<1> QED BY <1>1, LenProperties

-----------------------------------------------------------------------------
(* Sequences of sequences, one after the other.                            *)

\* any two members of s are in the relation R
Pairwise(R, s) == \A p, q \in 1..Len(s) : p # q => <<s[p], s[q]>> \in R
\* g[i] is F[1] to F[i], one after the other
Glues(g, F, m) == g = [i \in 1..m |-> IF i = 1 THEN F[i] ELSE g[i - 1] \o F[i]]

\* what holds between any two items holds in a join when it holds across it
LEMMA PairwiseConcat ==
    ASSUME NEW A, NEW R, NEW s \in Seq(A), NEW t \in Seq(A), Pairwise(R, s), Pairwise(R, t),
           \A x \in Members(s), y \in Members(t) : <<x, y>> \in R /\ <<y, x>> \in R
    PROVE  Pairwise(R, s \o t)
<1> DEFINE u == s \o t
<1>1. /\ Len(s) \in Nat /\ Len(t) \in Nat /\ Len(u) = Len(s) + Len(t)
      /\ \A i \in 1..Len(s) + Len(t) : u[i] = IF i <= Len(s) THEN s[i] ELSE t[i - Len(s)]
  BY ConcatProperties, LenProperties
<1> HIDE DEF u
<1>2. ASSUME NEW p \in 1..Len(u), NEW q \in 1..Len(u), p # q
      PROVE  <<u[p], u[q]>> \in R
  <2>1. CASE p <= Len(s) /\ q <= Len(s)
    <3>1. p \in 1..Len(s) /\ q \in 1..Len(s) /\ u[p] = s[p] /\ u[q] = s[q]
      BY <1>1, <2>1
    <3> QED BY <1>2, <3>1 DEF Pairwise
  <2>2. CASE p > Len(s) /\ q > Len(s)
    <3>1. /\ p - Len(s) \in 1..Len(t) /\ q - Len(s) \in 1..Len(t) /\ p - Len(s) # q - Len(s)
          /\ u[p] = t[p - Len(s)] /\ u[q] = t[q - Len(s)]
      BY <1>1, <1>2, <2>2
    <3> QED BY <3>1 DEF Pairwise
  <2>3. CASE p <= Len(s) /\ q > Len(s)
    <3>1. p \in 1..Len(s) /\ q - Len(s) \in 1..Len(t) /\ u[p] = s[p] /\ u[q] = t[q - Len(s)]
      BY <1>1, <2>3
    <3>2. u[p] \in Members(s) /\ u[q] \in Members(t)
      BY <3>1 DEF Members
    <3> QED BY <3>2
  <2>4. CASE p > Len(s) /\ q <= Len(s)
    <3>1. q \in 1..Len(s) /\ p - Len(s) \in 1..Len(t) /\ u[q] = s[q] /\ u[p] = t[p - Len(s)]
      BY <1>1, <2>4
    <3>2. u[q] \in Members(s) /\ u[p] \in Members(t)
      BY <3>1 DEF Members
    <3> QED BY <3>2
  <2> QED BY <1>1, <2>1, <2>2, <2>3, <2>4
<1> QED BY <1>2 DEF Pairwise, u

\* the recursion that flattens a sequence of sequences has a solution
LEMMA GluesExists ==
    ASSUME NEW F, NEW m \in Nat
    PROVE  \E g : Glues(g, F, m)
<1> DEFINE Bad == {k \in Nat : ~\E g : Glues(g, F, k)}
<1> SUFFICES ASSUME Bad # {} PROVE FALSE
  OBVIOUS
<1>1. PICK k \in Bad : \A j \in Bad : k <= j
  <2>1. Bad \subseteq Nat
    OBVIOUS
  <2> HIDE DEF Bad
  <2> QED BY <2>1, NatLeast
<1>2. k \in Nat /\ ~\E g : Glues(g, F, k)
  OBVIOUS
<1>3. CASE k = 0
  <2> DEFINE h == [i \in 1..0 |-> F[i]]
  <2>1. h = [i \in 1..0 |-> IF i = 1 THEN F[i] ELSE h[i - 1] \o F[i]]
    OBVIOUS
  <2>2. Glues(h, F, 0)
    BY <2>1 DEF Glues
  <2> QED BY <1>2, <1>3, <2>2
<1>4. CASE k # 0
  <2>1. k - 1 \in Nat /\ ~(k <= k - 1)
    BY <1>2, <1>4
  <2>2. PICK g : Glues(g, F, k - 1)
    BY <1>1, <2>1
  <2>3. \A i \in 1..(k - 1) : g[i] = IF i = 1 THEN F[i] ELSE g[i - 1] \o F[i]
    BY <2>1, <2>2 DEF Glues
  <2> DEFINE h == [i \in 1..k |-> IF i = k THEN (IF k = 1 THEN F[1] ELSE g[k - 1] \o F[k])
                                  ELSE g[i]]
  <2>4. ASSUME NEW i \in 1..k
        PROVE  h[i] = IF i = 1 THEN F[i] ELSE h[i - 1] \o F[i]
    <3>1. CASE i = k /\ i = 1
      BY <3>1
    <3>2. CASE i = k /\ i # 1
      <4>1. k \in 1..k /\ k # 1 /\ k - 1 \in 1..k /\ k - 1 # k
        BY <1>2, <1>4, <3>2
      <4>2. h[k] = g[k - 1] \o F[k] /\ h[k - 1] = g[k - 1]
        BY <4>1
      <4> HIDE DEF h
      <4> QED BY <3>2, <4>2
    <3>3. CASE i # k
      <4>1. i \in 1..(k - 1) /\ h[i] = g[i]
        BY <1>2, <3>3
      <4>2. i # 1 => i - 1 \in 1..k /\ i - 1 # k /\ h[i - 1] = g[i - 1]
        BY <1>2, <3>3
      <4> HIDE DEF h
      <4> QED BY <2>3, <4>1, <4>2
    <3> QED BY <3>1, <3>2, <3>3
  <2>5. h = [i \in 1..k |-> IF i = 1 THEN F[i] ELSE h[i - 1] \o F[i]]
    <3>1. \A i \in 1..k : h[i] = [j \in 1..k |-> IF j = 1 THEN F[j] ELSE h[j - 1] \o F[j]][i]
      BY <2>4
    <3> QED BY <3>1
  <2>6. Glues(h, F, k)
    BY <2>5 DEF Glues
  <2> QED BY <1>2, <2>6
<1> QED BY <1>3, <1>4

\* FlattenSeq has the members of all sequences, and if any two members, of one
\* sequence or of two, are in a relation, then its members are pairwise.
LEMMA Flattened ==
    ASSUME NEW A, NEW R, NEW F \in Seq(Seq(A)), \A i \in 1..Len(F) : Pairwise(R, F[i]),
           \A i, j \in 1..Len(F) : i # j =>
             \A x \in Members(F[i]), y \in Members(F[j]) : <<x, y>> \in R
    PROVE  /\ FlattenSeq(F) \in Seq(A) /\ Pairwise(R, FlattenSeq(F))
           /\ Members(FlattenSeq(F)) = UNION {Members(F[i]) : i \in 1..Len(F)}
<1>1. Len(F) \in Nat /\ \A i \in 1..Len(F) : F[i] \in Seq(A)
  BY LenProperties, ElementOfSeq
<1>2. CASE Len(F) = 0
  <2>1. F = <<>> /\ FlattenSeq(F) = <<>>
    BY <1>2, EmptySeq DEF FlattenSeq
  <2>2. Len(<<>>) = 0 /\ 1..0 = {} /\ <<>> \in Seq(A)
    OBVIOUS
  <2> QED BY <2>1, <2>2 DEF Pairwise, Members
<1>3. CASE Len(F) # 0
  <2> DEFINE flat == CHOOSE g : Glues(g, F, Len(F))
  <2>1. Glues(flat, F, Len(F))
    BY <1>1, GluesExists
  <2>2. FlattenSeq(F) = flat[Len(F)]
    BY <1>3 DEF FlattenSeq, Glues
  <2> HIDE DEF flat
  <2>3. \A i \in 1..Len(F) : flat[i] = IF i = 1 THEN F[i] ELSE flat[i - 1] \o F[i]
    BY <2>1 DEF Glues
  <2> DEFINE Flat(i) == /\ flat[i] \in Seq(A) /\ Pairwise(R, flat[i])
                        /\ Members(flat[i]) = UNION {Members(F[k]) : k \in 1..i}
  <2> DEFINE Bad == {i \in 1..Len(F) : ~Flat(i)}
  <2>4. Bad = {}
    <3> SUFFICES ASSUME Bad # {} PROVE FALSE
      OBVIOUS
    <3>1. PICK i \in Bad : \A j \in Bad : i <= j
      <4>1. Bad \subseteq Nat
        BY <1>1
      <4> HIDE DEF Bad
      <4> QED BY <4>1, NatLeast
    <3>2. i \in 1..Len(F) /\ ~Flat(i) /\ F[i] \in Seq(A) /\ i \in Nat
      BY <1>1
    <3>3. CASE i = 1
      <4>1. flat[1] = F[1] /\ 1..1 = {1}
        BY <2>3, <3>2, <3>3
      <4> QED BY <3>2, <3>3, <4>1
    <3>4. CASE i # 1
      <4>1. i - 1 \in 1..Len(F) /\ ~(i <= i - 1) /\ 1..i = 1..(i - 1) \cup {i}
        BY <1>1, <3>2, <3>4
      <4>2. Flat(i - 1)
        BY <3>1, <4>1
      <4>3. flat[i] = flat[i - 1] \o F[i]
        BY <2>3, <3>2, <3>4
      <4>4. flat[i] \in Seq(A) /\ Members(flat[i]) = Members(flat[i - 1]) \cup Members(F[i])
        BY <3>2, <4>2, <4>3, MembersOfConcat, ConcatProperties
      <4>5. Members(flat[i]) = UNION {Members(F[k]) : k \in 1..i}
        BY <4>1, <4>2, <4>4
      <4>6. ASSUME NEW x \in Members(flat[i - 1]), NEW y \in Members(F[i])
            PROVE  <<x, y>> \in R /\ <<y, x>> \in R
        <5>1. PICK k \in 1..(i - 1) : x \in Members(F[k])
          BY <4>2
        <5>2. k \in 1..Len(F) /\ k # i
          <6>1. i \in Nat /\ i <= Len(F) /\ Len(F) \in Nat
            BY <1>1, <3>2
          <6> QED BY <6>1
        <5> QED BY <3>2, <5>1, <5>2
      <4>7. Pairwise(R, flat[i])
        <5>1. flat[i - 1] \in Seq(A) /\ Pairwise(R, flat[i - 1]) /\ Pairwise(R, F[i])
          BY <3>2, <4>2
        <5>2. Pairwise(R, flat[i - 1] \o F[i])
          BY <3>2, <4>6, <5>1, PairwiseConcat
        <5> QED BY <4>3, <5>2
      <4> QED BY <3>2, <4>4, <4>5, <4>7
    <3> QED BY <3>3, <3>4
  <2>5. Len(F) \in 1..Len(F)
    BY <1>1, <1>3
  <2>6. Flat(Len(F))
    BY <2>4, <2>5
  <2> QED BY <2>2, <2>6
<1> QED BY <1>2, <1>3

-----------------------------------------------------------------------------
(* What Those computes.  kept is defined from its own smaller values; that *)
(* there is such a function, and what it yields, both follow by looking at *)
(* the least length for which they would fail.                             *)

Longer(t, s, S, n) == IF s[n] \in S THEN Append(t, s[n]) ELSE t
Keeps(g, s, S, m) == g = [n \in 0..m |-> IF n = 0 THEN <<>> ELSE Longer(g[n - 1], s, S, n)]

\* so has the recursion that filters a sequence
LEMMA KeepsExists ==
    ASSUME NEW s, NEW S, NEW m \in Nat
    PROVE  \E g : Keeps(g, s, S, m)
<1> DEFINE Bad == {k \in Nat : ~\E g : Keeps(g, s, S, k)}
<1> SUFFICES ASSUME Bad # {} PROVE FALSE
  OBVIOUS
<1>1. PICK k \in Bad : \A j \in Bad : k <= j
  <2> HIDE DEF Bad
  <2>1. Bad \subseteq Nat
    BY DEF Bad
  <2> QED BY <2>1, NatLeast
<1>2. k \in Nat /\ ~\E g : Keeps(g, s, S, k)
  OBVIOUS
<1>3. CASE k = 0
  <2>1. Keeps([n \in 0..0 |-> <<>>], s, S, 0)
    BY DEF Keeps
  <2> QED BY <1>2, <1>3, <2>1
<1>4. CASE k # 0
  <2>1. k - 1 \in Nat /\ ~(k <= k - 1)
    BY <1>2, <1>4
  <2>2. PICK g : Keeps(g, s, S, k - 1)
    BY <1>1, <2>1
  <2>3. /\ \A n \in 0..(k - 1) : g[n] = IF n = 0 THEN <<>> ELSE Longer(g[n - 1], s, S, n)
    BY <2>1, <2>2 DEF Keeps
  <2> DEFINE h == [n \in 0..k |-> IF n = k THEN Longer(g[k - 1], s, S, k) ELSE g[n]]
  <2>4. ASSUME NEW n \in 0..k
        PROVE  h[n] = IF n = 0 THEN <<>> ELSE Longer(h[n - 1], s, S, n)
    <3>1. CASE n = k
      BY <1>2, <1>4, <3>1
    <3>2. CASE n # k
      <4>1. n \in 0..(k - 1) /\ h[n] = g[n]
        BY <1>2, <3>2
      <4>2. n # 0 => n - 1 \in 0..k /\ h[n - 1] = g[n - 1]
        BY <1>2, <3>2
      <4> QED BY <2>3, <4>1, <4>2
    <3> QED BY <3>1, <3>2
  <2>5. h = [n \in 0..k |-> IF n = 0 THEN <<>> ELSE Longer(h[n - 1], s, S, n)]
    <3>1. \A n \in 0..k : h[n] = [i \in 0..k |-> IF i = 0 THEN <<>> ELSE Longer(h[i - 1], s, S, i)][n]
      BY <2>4
    <3> QED BY <3>1
  <2>6. Keeps(h, s, S, k)
    BY <2>5 DEF Keeps
  <2> QED BY <1>2, <2>6
<1> QED BY <1>3, <1>4

\* t has the first n members of s that are in S, in their order: e says where
Picks(t, s, S, n) ==
    \E e \in [1..Len(t) -> 1..n] :
        /\ \A i, j \in 1..Len(t) : i < j => e[i] < e[j]
        /\ \A i \in 1..Len(t) : t[i] = s[e[i]] /\ t[i] \in S
        /\ \A k \in 1..n : s[k] \in S => \E i \in 1..Len(t) : e[i] = k

\* a filtered sequence is one of its items longer when the next one is kept
LEMMA PicksMore ==
    ASSUME NEW A, NEW s \in Seq(A), NEW S, NEW n \in 1..Len(s),
           NEW t \in Seq(A), Picks(t, s, S, n - 1)
    PROVE  Longer(t, s, S, n) \in Seq(A) /\ Picks(Longer(t, s, S, n), s, S, n)
<1>0. n \in Nat /\ Len(t) \in Nat /\ s[n] \in A
  OBVIOUS
<1>1. PICK e \in [1..Len(t) -> 1..(n - 1)] :
        /\ \A i, j \in 1..Len(t) : i < j => e[i] < e[j]
        /\ \A i \in 1..Len(t) : t[i] = s[e[i]] /\ t[i] \in S
        /\ \A k \in 1..(n - 1) : s[k] \in S => \E i \in 1..Len(t) : e[i] = k
  BY DEF Picks
<1>2. CASE s[n] \notin S
  <2>1. Longer(t, s, S, n) = t
    BY <1>2 DEF Longer
  <2>2. e \in [1..Len(t) -> 1..n]
    BY <1>0
  <2>3. \A k \in 1..n : s[k] \in S => \E i \in 1..Len(t) : e[i] = k
    BY <1>0, <1>1, <1>2
  <2>4. Picks(t, s, S, n)
    BY <1>1, <2>2, <2>3 DEF Picks
  <2> QED BY <2>1, <2>4
<1>3. CASE s[n] \in S
  <2> DEFINE u == Append(t, s[n])
  <2> DEFINE d == [i \in 1..Len(t) + 1 |-> IF i = Len(t) + 1 THEN n ELSE e[i]]
  <2>1. Longer(t, s, S, n) = u /\ u \in Seq(A) /\ Len(u) = Len(t) + 1
    BY <1>0, <1>3 DEF Longer
  <2>2. /\ \A i \in 1..Len(t) : u[i] = t[i]
        /\ u[Len(t) + 1] = s[n]
    BY <1>0
  <2>3. d \in [1..Len(u) -> 1..n]
    BY <1>0, <2>1
  <2>4. ASSUME NEW i \in 1..Len(u), NEW j \in 1..Len(u), i < j PROVE d[i] < d[j]
    <3>1. i \in 1..Len(t) /\ d[i] = e[i] /\ e[i] \in 1..(n - 1)
      BY <1>0, <2>1, <2>4
    <3>2. CASE j = Len(t) + 1
      BY <1>0, <3>1, <3>2
    <3>3. CASE j # Len(t) + 1
      <4>1. j \in 1..Len(t) /\ d[j] = e[j]
        BY <1>0, <2>1, <3>3
      <4> QED BY <1>1, <2>4, <3>1, <4>1
    <3> QED BY <3>2, <3>3
  <2>5. \A i \in 1..Len(u) : u[i] = s[d[i]] /\ u[i] \in S
    BY <1>0, <1>1, <1>3, <2>1, <2>2
  <2>6. \A k \in 1..n : s[k] \in S => \E i \in 1..Len(u) : d[i] = k
    <3> TAKE k \in 1..n
    <3>1. CASE k = n
      BY <1>0, <2>1, <3>1
    <3>2. CASE k # n
      <4>1. k \in 1..(n - 1)
        BY <1>0, <3>2
      <4> QED BY <1>0, <1>1, <2>1, <4>1
    <3> QED BY <3>1, <3>2
  <2> HIDE DEF u, d
  <2>7. Picks(u, s, S, n)
    BY <2>3, <2>4, <2>5, <2>6 DEF Picks
  <2> QED BY <2>1, <2>7
<1> QED BY <1>2, <1>3

\* Those(s, S) has exactly the members of s that are in S, in their order.
LEMMA ThosePicks ==
    ASSUME NEW A, NEW s \in Seq(A), NEW S
    PROVE  Those(s, S) \in Seq(A) /\ Picks(Those(s, S), s, S, Len(s))
<1> DEFINE kept == CHOOSE g : Keeps(g, s, S, Len(s))
<1>1. Len(s) \in Nat
  OBVIOUS
<1>2. Keeps(kept, s, S, Len(s))
  BY <1>1, KeepsExists
<1>3. Those(s, S) = kept[Len(s)]
  BY DEF Those, Keeps, Longer
<1> HIDE DEF kept
<1>4. \A n \in 0..Len(s) :
        kept[n] = IF n = 0 THEN <<>> ELSE Longer(kept[n - 1], s, S, n)
  BY <1>2 DEF Keeps
<1> DEFINE Bad == {n \in Nat : n <= Len(s) /\ ~(kept[n] \in Seq(A) /\ Picks(kept[n], s, S, n))}
<1>5. Bad = {}
  <2> SUFFICES ASSUME Bad # {} PROVE FALSE
    OBVIOUS
  <2>1. PICK n \in Bad : \A j \in Bad : n <= j
    <3>1. Bad \subseteq Nat
      OBVIOUS
    <3> HIDE DEF Bad
    <3> QED BY <3>1, NatLeast
  <2>2. CASE n = 0
    <3>1. kept[0] = <<>>
      BY <1>1, <1>4
    <3>2. Picks(<<>>, s, S, 0)
      <4>1. Len(<<>>) = 0 /\ 1..0 = {}
        OBVIOUS
      <4> DEFINE e == [i \in 1..Len(<<>>) |-> 0]
      <4>2. e \in [1..Len(<<>>) -> 1..0]
        BY <4>1
      <4>3. /\ \A i, j \in 1..Len(<<>>) : i < j => e[i] < e[j]
            /\ \A i \in 1..Len(<<>>) : <<>>[i] = s[e[i]] /\ <<>>[i] \in S
            /\ \A k \in 1..0 : s[k] \in S => \E i \in 1..Len(<<>>) : e[i] = k
        BY <4>1
      <4> HIDE DEF e
      <4> QED BY <4>2, <4>3, Zenon DEF Picks
    <3>3. <<>> \in Seq(A)
      OBVIOUS
    <3> QED BY <2>2, <3>1, <3>2, <3>3
  <2>3. CASE n # 0
    <3>1. n \in 1..Len(s) /\ n - 1 \in Nat /\ n - 1 <= Len(s) /\ ~(n <= n - 1)
      BY <1>1, <2>3
    <3>2. kept[n - 1] \in Seq(A) /\ Picks(kept[n - 1], s, S, n - 1)
      BY <2>1, <3>1
    <3>3. kept[n] = Longer(kept[n - 1], s, S, n)
      BY <1>1, <1>4, <3>1
    <3> QED BY <3>1, <3>2, <3>3, PicksMore
  <2> QED BY <2>2, <2>3
<1> QED BY <1>1, <1>3, <1>5

\* two such functions agree as long as their sequences and sets do
Alike(s, S, t, T, k) == \A i \in 1..k : s[i] = t[i] /\ (s[i] \in S <=> t[i] \in T)

\* two filters that agree so far have kept the same
LEMMA KeepsAgree ==
    ASSUME NEW s, NEW S, NEW t, NEW T, NEW m \in Nat, NEW n \in Nat, NEW g, NEW h,
           Keeps(g, s, S, m), Keeps(h, t, T, n), NEW k \in Nat, k <= m, k <= n,
           Alike(s, S, t, T, k)
    PROVE  g[k] = h[k]
<1> DEFINE Bad == {i \in Nat : i <= k /\ g[i] # h[i]}
<1>1. /\ \A i \in 0..m : g[i] = IF i = 0 THEN <<>> ELSE Longer(g[i - 1], s, S, i)
      /\ \A i \in 0..n : h[i] = IF i = 0 THEN <<>> ELSE Longer(h[i - 1], t, T, i)
  BY DEF Keeps
<1>2. Bad = {}
  <2> SUFFICES ASSUME Bad # {} PROVE FALSE
    OBVIOUS
  <2>1. PICK i \in Bad : \A j \in Bad : i <= j
    <3>1. Bad \subseteq Nat
      OBVIOUS
    <3> HIDE DEF Bad
    <3> QED BY <3>1, NatLeast
  <2>2. i \in Nat /\ i <= k /\ g[i] # h[i]
    OBVIOUS
  <2>3. i \in 0..m /\ i \in 0..n
    BY <2>2
  <2>4. i # 0
    BY <1>1, <2>2, <2>3
  <2>5. i - 1 \in Nat /\ i - 1 <= k /\ ~(i <= i - 1) /\ i \in 1..k
    BY <2>2, <2>4
  <2>6. g[i - 1] = h[i - 1]
    BY <2>1, <2>5
  <2>7. g[i] = Longer(g[i - 1], s, S, i) /\ h[i] = Longer(h[i - 1], t, T, i)
    BY <1>1, <2>3, <2>4
  <2>8. Longer(g[i - 1], s, S, i) = Longer(h[i - 1], t, T, i)
    BY <2>5, <2>6 DEF Longer, Alike
  <2> QED BY <2>2, <2>7, <2>8
<1> QED BY <1>2

\* the items of a sequence that are in a set are what the recursion keeps
LEMMA ThoseIs ==
    ASSUME NEW A, NEW s \in Seq(A), NEW S
    PROVE  \E g : Keeps(g, s, S, Len(s)) /\ Those(s, S) = g[Len(s)]
<1> DEFINE kept == CHOOSE g : Keeps(g, s, S, Len(s))
<1>1. Keeps(kept, s, S, Len(s))
  BY LenProperties, KeepsExists
<1>2. Those(s, S) = kept[Len(s)]
  BY DEF Those, Keeps, Longer
<1> QED BY <1>1, <1>2

\* nothing is kept of the empty sequence
LEMMA ThoseOfNone ==
    ASSUME NEW S
    PROVE  Those(<<>>, S) = <<>>
<1>1. <<>> \in Seq({}) /\ Len(<<>>) = 0
  OBVIOUS
<1>2. PICK g : Keeps(g, <<>>, S, 0) /\ Those(<<>>, S) = g[0]
  BY <1>1, ThoseIs
<1> QED BY <1>2 DEF Keeps

\* only which members are in the set matters
LEMMA ThoseSame ==
    ASSUME NEW A, NEW s \in Seq(A), NEW S, NEW T, \A i \in 1..Len(s) : s[i] \in S <=> s[i] \in T
    PROVE  Those(s, S) = Those(s, T)
<1>1. PICK g : Keeps(g, s, S, Len(s)) /\ Those(s, S) = g[Len(s)]
  BY ThoseIs
<1>2. PICK h : Keeps(h, s, T, Len(s)) /\ Those(s, T) = h[Len(s)]
  BY ThoseIs
<1>3. Len(s) \in Nat
  BY LenProperties
<1>4. Alike(s, S, s, T, Len(s)) /\ Len(s) <= Len(s)
  BY <1>3 DEF Alike
<1>5. g[Len(s)] = h[Len(s)]
  BY <1>1, <1>2, <1>3, <1>4, KeepsAgree
<1> QED BY <1>1, <1>2, <1>5

\* what is kept after appending an item
LEMMA ThoseOfMore ==
    ASSUME NEW A, NEW s \in Seq(A), NEW x \in A, NEW S
    PROVE  Those(Append(s, x), S) = IF x \in S THEN Append(Those(s, S), x) ELSE Those(s, S)
<1> DEFINE t == Append(s, x)
<1> DEFINE n == Len(s)
<1>1. /\ t \in Seq(A) /\ n \in Nat /\ Len(t) = n + 1
      /\ \A i \in 1..n : t[i] = s[i]
      /\ t[n + 1] = x
  BY AppendProperties, LenProperties
<1> HIDE DEF t
<1>2. PICK g : Keeps(g, s, S, n) /\ Those(s, S) = g[n]
  BY ThoseIs
<1>3. PICK h : Keeps(h, t, S, Len(t)) /\ Those(t, S) = h[Len(t)]
  BY <1>1, ThoseIs
<1> HIDE DEF n
<1>4. Keeps(h, t, S, n + 1) /\ Those(t, S) = h[n + 1] /\ n + 1 \in Nat
  BY <1>1, <1>3
<1>5. g[n] = h[n]
  <2>1. n <= n /\ n <= n + 1 /\ Alike(s, S, t, S, n)
    BY <1>1 DEF Alike
  <2>2. n \in Nat
    BY <1>1
  <2> DEFINE m == n + 1
  <2>3. m \in Nat /\ n <= m /\ Keeps(h, t, S, m)
    BY <1>4, <2>1
  <2> HIDE DEF m
  <2> QED BY <1>2, <2>1, <2>2, <2>3, KeepsAgree
<1>6. h[n + 1] = Longer(h[n], t, S, n + 1)
  <2>1. n + 1 \in 0..n + 1 /\ n + 1 # 0 /\ (n + 1) - 1 = n
    BY <1>1
  <2> QED BY <1>4, <2>1 DEF Keeps
<1> QED BY <1>1, <1>2, <1>4, <1>5, <1>6 DEF Longer, t

\* no member twice
Once(s) == \A i, j \in 1..Len(s) : s[i] = s[j] => i = j

\* what is kept are the members in the set, each once if each was there once
LEMMA ThoseMembers ==
    ASSUME NEW A, NEW s \in Seq(A), NEW S
    PROVE  /\ Those(s, S) \in Seq(A) /\ Members(Those(s, S)) = Members(s) \cap S
           /\ Once(s) => Once(Those(s, S))
<1> DEFINE t == Those(s, S)
<1>1. t \in Seq(A) /\ Picks(t, s, S, Len(s))
  BY ThosePicks
<1> HIDE DEF t
<1>2. PICK e \in [1..Len(t) -> 1..Len(s)] :
        /\ \A i, j \in 1..Len(t) : i < j => e[i] < e[j]
        /\ \A i \in 1..Len(t) : t[i] = s[e[i]] /\ t[i] \in S
        /\ \A k \in 1..Len(s) : s[k] \in S => \E i \in 1..Len(t) : e[i] = k
  BY <1>1 DEF Picks
<1>3. Members(t) \subseteq Members(s) \cap S
  BY <1>2 DEF Members
<1>4. Members(s) \cap S \subseteq Members(t)
  <2> SUFFICES ASSUME NEW k \in 1..Len(s), s[k] \in S PROVE s[k] \in Members(t)
    BY DEF Members
  <2>1. PICK i \in 1..Len(t) : e[i] = k
    BY <1>2
  <2>2. t[i] = s[k]
    BY <1>2, <2>1
  <2> QED BY <2>2 DEF Members
<1>5. ASSUME Once(s), NEW i \in 1..Len(t), NEW j \in 1..Len(t), t[i] = t[j] PROVE i = j
  <2>1. e[i] \in 1..Len(s) /\ e[j] \in 1..Len(s) /\ s[e[i]] = s[e[j]]
    BY <1>2, <1>5
  <2>2. e[i] = e[j]
    BY <1>5, <2>1 DEF Once
  <2>3. ~(i < j) /\ ~(j < i) /\ i \in Int /\ j \in Int
    <3>1. e[i] \in Int /\ ~(e[i] < e[j]) /\ ~(e[j] < e[i])
      BY <2>1, <2>2
    <3> QED BY <1>2, <3>1
  <2> QED BY <2>3
<1> QED BY <1>1, <1>3, <1>4, <1>5 DEF t, Once

-----------------------------------------------------------------------------
\* Sequences, whatever their members.

\* a function on 1..n is a sequence of its values
LEMMA FunctionIsSequence ==
    ASSUME NEW n \in Nat, NEW f, f = [i \in 1..n |-> f[i]]
    PROVE  /\ f \in Seq(Range(f)) /\ Len(f) = n
<1>1. DOMAIN f = 1..n
  OBVIOUS
<1>2. f \in [1..n -> Range(f)]
  BY <1>1 DEF Range
<1> QED BY <1>2, FunctionAsSeq

IsSeq(s) == s \in Seq(Range(s))

\* a function on 1..n is a sequence of length n
LEMMA MadeSequence ==
    ASSUME NEW n \in Nat, NEW f, f = [i \in 1..n |-> f[i]]
    PROVE  IsSeq(f) /\ Len(f) = n /\ DOMAIN f = 1..n
<1>1. f \in Seq(Range(f)) /\ Len(f) = n
  BY FunctionIsSequence
<1> QED BY <1>1 DEF IsSeq

\* a sequence is a function on its positions, and its range is its members
LEMMA SequenceIs ==
    ASSUME NEW s, IsSeq(s)
    PROVE  /\ Len(s) \in Nat /\ DOMAIN s = 1..Len(s) /\ s = [i \in 1..Len(s) |-> s[i]]
           /\ Range(s) = Members(s)
<1>1. s \in Seq(Range(s))
  BY DEF IsSeq
<1>2. Len(s) \in Nat /\ DOMAIN s = 1..Len(s) /\ s = [i \in 1..Len(s) |-> s[i]]
  BY <1>1, LenProperties
<1>3. Range(s) = Members(s)
  BY <1>1, RangeIsMembers
<1> QED BY <1>2, <1>3

\* whatever is a sequence of something
LEMMA SequenceOf ==
    ASSUME NEW A, NEW s \in Seq(A)
    PROVE  IsSeq(s)
<1>1. Len(s) \in Nat /\ s = [i \in 1..Len(s) |-> s[i]]
  BY LenProperties
<1> QED BY <1>1, MadeSequence

\* two sequences joined are a sequence
LEMMA JoinedSequence ==
    ASSUME NEW s, NEW t, IsSeq(s), IsSeq(t)
    PROVE  IsSeq(s \o t)
<1> DEFINE A == Range(s) \cup Range(t)
<1>1. Range(s) \subseteq A /\ Range(t) \subseteq A
  OBVIOUS
<1> HIDE DEF A
<1>2. s \in Seq(A) /\ t \in Seq(A)
  BY <1>1, SeqMonotonic DEF IsSeq
<1>3. s \o t \in Seq(A)
  BY <1>2, ConcatProperties
<1> QED BY <1>3, SequenceOf

\* sequences one after the other are a sequence, of the members of all
LEMMA FlatSequence ==
    ASSUME NEW n \in Nat, NEW F, F = [i \in 1..n |-> F[i]], \A i \in 1..n : IsSeq(F[i])
    PROVE  /\ IsSeq(FlattenSeq(F))
           /\ Members(FlattenSeq(F)) = UNION {Members(F[i]) : i \in 1..n}
<1> DEFINE A == UNION {Range(F[i]) : i \in 1..n}
<1> DEFINE R == A \X A
<1>1. \A i \in 1..n : Range(F[i]) \subseteq A
  OBVIOUS
<1> HIDE DEF A
<1>2. \A i \in 1..n : F[i] \in Seq(A)
  <2> TAKE i \in 1..n
  <2>1. F[i] \in Seq(Range(F[i])) /\ Range(F[i]) \subseteq A
    BY <1>1 DEF IsSeq
  <2> QED BY <2>1, SeqMonotonic
<1>3. F \in Seq(Seq(A)) /\ Len(F) = n
  <2>1. F \in [1..n -> Seq(A)]
    BY <1>2
  <2> QED BY <2>1, FunctionAsSeq
<1>4. ASSUME NEW i \in 1..n, NEW x \in Members(F[i]) PROVE x \in A
  <2>1. Members(F[i]) \subseteq A
    BY <1>2, MembersType
  <2> QED BY <2>1
<1>5. \A i \in 1..n : Pairwise(R, F[i])
  <2> TAKE i \in 1..n
  <2>1. \A p \in 1..Len(F[i]) : F[i][p] \in A
    BY <1>2, ElementOfSeq
  <2> QED BY <2>1 DEF Pairwise
<1>6. \A i, j \in 1..n : i # j => \A x \in Members(F[i]), y \in Members(F[j]) : <<x, y>> \in R
  BY <1>4
<1> HIDE DEF R
<1>7. FlattenSeq(F) \in Seq(A) /\ Members(FlattenSeq(F)) = UNION {Members(F[i]) : i \in 1..n}
  <2>1. /\ \A i \in 1..Len(F) : Pairwise(R, F[i])
        /\ \A i, j \in 1..Len(F) : i # j =>
             \A x \in Members(F[i]), y \in Members(F[j]) : <<x, y>> \in R
    BY <1>3, <1>5, <1>6
  <2>2. /\ FlattenSeq(F) \in Seq(A)
        /\ Members(FlattenSeq(F)) = UNION {Members(F[i]) : i \in 1..Len(F)}
    BY <1>3, <2>1, Flattened
  <2> QED BY <1>3, <2>2
<1> QED BY <1>7, SequenceOf

-----------------------------------------------------------------------------
\* Where the parts of a flattened sequence are in it.

\* o[i] members come before the i-th part
PlacedBy(o, flat, F, n) ==
    /\ o \in [1..n + 1 -> Nat] /\ o[1] = 0 /\ o[n + 1] = Len(flat)
    /\ \A i \in 1..n : /\ o[i + 1] = o[i] + Len(F[i])
                       /\ \A q \in 1..Len(F[i]) : flat[o[i] + q] = F[i][q]
    /\ \A i, j \in 1..n + 1 : i <= j => o[i] <= o[j]

\* one more part at the end
LEMMA PlacesMore ==
    ASSUME NEW n \in Nat, NEW F, NEW o, NEW flat, IsSeq(flat), PlacedBy(o, flat, F, n),
           NEW t, IsSeq(t), t = F[n + 1]
    PROVE  \E u : PlacedBy(u, flat \o t, F, n + 1)
<1> DEFINE both == flat \o t
<1> DEFINE u == [i \in 1..n + 2 |-> IF i = n + 2 THEN Len(both) ELSE o[i]]
<1>1. Len(flat) \in Nat /\ Len(t) \in Nat
  BY SequenceIs
<1>2. /\ Len(both) = Len(flat) + Len(t)
      /\ \A k \in 1..Len(flat) : both[k] = flat[k]
      /\ \A q \in 1..Len(t) : both[Len(flat) + q] = t[q]
  <2> DEFINE A == Range(flat) \cup Range(t)
  <2>1. flat \in Seq(A) /\ t \in Seq(A)
    <3>1. Range(flat) \subseteq A /\ Range(t) \subseteq A
      OBVIOUS
    <3> QED BY <3>1, SeqMonotonic DEF IsSeq
  <2> HIDE DEF A
  <2>2. /\ Len(both) = Len(flat) + Len(t)
        /\ \A i \in 1..Len(flat) + Len(t) :
             both[i] = IF i <= Len(flat) THEN flat[i] ELSE t[i - Len(flat)]
    BY <2>1, ConcatProperties
  <2> HIDE DEF both
  <2>3. ASSUME NEW q \in 1..Len(t) PROVE both[Len(flat) + q] = t[q]
    <3>1. Len(flat) + q \in 1..Len(flat) + Len(t) /\ ~(Len(flat) + q <= Len(flat))
          /\ Len(flat) + q - Len(flat) = q
      BY <1>1
    <3> QED BY <2>2, <3>1
  <2>4. ASSUME NEW k \in 1..Len(flat) PROVE both[k] = flat[k]
    <3>1. k \in 1..Len(flat) + Len(t) /\ k <= Len(flat)
      BY <1>1
    <3> QED BY <2>2, <3>1
  <2> QED BY <2>2, <2>3, <2>4
<1>3. /\ o \in [1..n + 1 -> Nat] /\ o[1] = 0 /\ o[n + 1] = Len(flat)
      /\ \A i \in 1..n : o[i + 1] = o[i] + Len(F[i])
      /\ \A i \in 1..n : \A q \in 1..Len(F[i]) : flat[o[i] + q] = F[i][q]
      /\ \A i, j \in 1..n + 1 : i <= j => o[i] <= o[j]
  BY DEF PlacedBy
<1> HIDE DEF both
<1>4. /\ u[n + 2] = Len(both) /\ \A i \in 1..n + 1 : u[i] = o[i]
      /\ 1..n + 2 = (1..n + 1) \cup {n + 2} /\ n + 2 \notin 1..n + 1
      /\ u \in [1..n + 2 -> Nat]
  <2>1. /\ 1..n + 2 = (1..n + 1) \cup {n + 2} /\ n + 2 \notin 1..n + 1
    OBVIOUS
  <2>2. \A i \in 1..n + 1 : u[i] = o[i]
    BY <2>1
  <2>3. n + 2 \in 1..n + 2
    OBVIOUS
  <2>4. u[n + 2] = Len(both)
    BY <2>3
  <2>5. \A i \in 1..n + 2 : u[i] \in Nat
    BY <1>1, <1>2, <1>3, <2>1, <2>2, <2>4
  <2> QED BY <2>1, <2>2, <2>4, <2>5
<1> HIDE DEF u
<1>5. u[1] = 0
  <2>1. 1 \in 1..n + 1
    OBVIOUS
  <2> QED BY <1>3, <1>4, <2>1
<1>6. ASSUME NEW i \in 1..n + 1
      PROVE  u[i + 1] = u[i] + Len(F[i]) /\ \A q \in 1..Len(F[i]) : both[u[i] + q] = F[i][q]
  <2>1. CASE i \in 1..n
    <3>1. i \in 1..n + 1 /\ i + 1 \in 1..n + 1 /\ n + 1 \in 1..n + 1 /\ i + 1 <= n + 1
      BY <2>1
    <3>2. u[i] = o[i] /\ u[i + 1] = o[i + 1] /\ o[i + 1] = o[i] + Len(F[i])
          /\ o[i + 1] <= Len(flat) /\ o[i] \in Nat /\ o[i + 1] \in Nat
      <4>1. u[i] = o[i] /\ u[i + 1] = o[i + 1] /\ o[i] \in Nat /\ o[i + 1] \in Nat
        BY <1>3, <1>4, <3>1
      <4>2. o[i + 1] <= o[n + 1]
        BY <1>3, <3>1
      <4> QED BY <1>3, <2>1, <4>1, <4>2
    <3>3. ASSUME NEW q \in 1..Len(F[i]) PROVE both[u[i] + q] = F[i][q]
      <4>0. q \in Int /\ 1 <= q /\ q <= o[i + 1] - o[i]
        <5> QED BY <3>2, <1>1
      <4>1. o[i] + q \in 1..Len(flat)
        BY <1>1, <3>2, <4>0
      <4> QED BY <1>2, <1>3, <2>1, <3>2, <4>1
    <3> QED BY <3>2, <3>3
  <2>2. CASE i = n + 1
    <3>1. n + 1 \in 1..n + 1 /\ n + 1 + 1 = n + 2
      OBVIOUS
    <3>2. u[n + 1] = Len(flat) /\ u[n + 2] = Len(flat) + Len(t)
      BY <1>2, <1>3, <1>4, <3>1
    <3> QED BY <1>2, <2>2, <3>1, <3>2
  <2>3. i \in 1..n \/ i = n + 1
    OBVIOUS
  <2> QED BY <2>1, <2>2, <2>3
<1>7. ASSUME NEW i \in 1..n + 2, NEW j \in 1..n + 2, i <= j PROVE u[i] <= u[j]
  <2>1. CASE i \in 1..n + 1 /\ j \in 1..n + 1
    BY <1>3, <1>4, <1>7, <2>1
  <2>2. CASE j = n + 2 /\ i \in 1..n + 1
    <3>1. n + 1 \in 1..n + 1 /\ i <= n + 1
      BY <2>2
    <3>2. o[i] <= o[n + 1] /\ o[i] \in Nat
      BY <1>3, <2>2, <3>1
    <3>3. u[i] = o[i] /\ o[n + 1] = Len(flat) /\ u[j] = Len(flat) + Len(t)
      BY <1>2, <1>3, <1>4, <2>2
    <3> QED BY <1>1, <3>2, <3>3
  <2>3. CASE i = n + 2
    <3>1. j = i
      BY <1>7, <2>3
    <3>2. u[i] \in Nat
      BY <1>4
    <3> QED BY <3>1, <3>2
  <2>4. (i \in 1..n + 1 /\ j \in 1..n + 1) \/ (j = n + 2 /\ i \in 1..n + 1) \/ i = n + 2
    BY <1>4
  <2> QED BY <2>1, <2>2, <2>3, <2>4
<1>8. n + 1 + 1 = n + 2
  OBVIOUS
<1>9. PlacedBy(u, both, F, n + 1)
  BY <1>4, <1>5, <1>6, <1>7, <1>8 DEF PlacedBy
<1> QED BY <1>9 DEF both

\* every part has its place in the flattened sequence
LEMMA FlatPlaces ==
    ASSUME NEW n \in Nat, NEW F, F = [i \in 1..n |-> F[i]], \A i \in 1..n : IsSeq(F[i])
    PROVE  \E o : PlacedBy(o, FlattenSeq(F), F, n)
<1>0. F \in Seq(Range(F)) /\ Len(F) = n /\ DOMAIN F = 1..n
  BY MadeSequence DEF IsSeq
<1>1. CASE n = 0
  <2>1. F = <<>> /\ FlattenSeq(F) = <<>>
    BY <1>0, <1>1, EmptySeq DEF FlattenSeq
  <2> DEFINE o == [i \in 1..1 |-> 0]
  <2>2. o \in [1..1 -> Nat] /\ o[1] = 0 /\ Len(<<>>) = 0 /\ 1..0 = {} /\ 1..1 = {1}
    OBVIOUS
  <2> HIDE DEF o
  <2>3. PlacedBy(o, <<>>, F, 0)
    BY <2>2 DEF PlacedBy
  <2> QED BY <1>1, <2>1, <2>3
<1>2. CASE n # 0
  <2> DEFINE flat == CHOOSE g : Glues(g, F, n)
  <2>1. Glues(flat, F, n)
    BY GluesExists
  <2>2. FlattenSeq(F) = flat[n]
    BY <1>0, <1>2 DEF FlattenSeq, Glues
  <2> HIDE DEF flat
  <2>3. \A i \in 1..n : flat[i] = IF i = 1 THEN F[i] ELSE flat[i - 1] \o F[i]
    BY <2>1 DEF Glues
  <2> DEFINE Good(i) == IsSeq(flat[i]) /\ \E o : PlacedBy(o, flat[i], F, i)
  <2> DEFINE Bad == {i \in 1..n : ~Good(i)}
  <2>4. Bad = {}
    <3> SUFFICES ASSUME Bad # {} PROVE FALSE
      OBVIOUS
    <3>1. PICK i \in Bad : \A j \in Bad : i <= j
      <4>1. Bad \subseteq Nat
        OBVIOUS
      <4> HIDE DEF Bad
      <4> QED BY <4>1, NatLeast
    <3>2. i \in 1..n /\ ~Good(i) /\ IsSeq(F[i]) /\ i \in Nat
      <4> HIDE DEF Good
      <4> QED BY <3>1
    <3>3. CASE i = 1
      <4>1. flat[1] = F[1] /\ IsSeq(F[1])
        BY <2>3, <3>2, <3>3
      <4>2. PICK o : PlacedBy(o, <<>>, F, 0)
        <5> DEFINE o == [k \in 1..1 |-> 0]
        <5>1. o \in [1..1 -> Nat] /\ o[1] = 0 /\ Len(<<>>) = 0 /\ 1..0 = {} /\ 1..1 = {1}
          OBVIOUS
        <5> HIDE DEF o
        <5>2. PlacedBy(o, <<>>, F, 0)
          BY <5>1 DEF PlacedBy
        <5> QED BY <5>2
      <4>3. IsSeq(<<>>) /\ 0 + 1 = 1 /\ 0 \in Nat
        <5>1. <<>> \in Seq({}) /\ 0 + 1 = 1 /\ 0 \in Nat
          OBVIOUS
        <5>2. IsSeq(<<>>)
          BY <5>1, SequenceOf
        <5> QED BY <5>1, <5>2
      <4>4. \E u : PlacedBy(u, <<>> \o F[1], F, 1)
        BY <4>1, <4>2, <4>3, PlacesMore
      <4>5. <<>> \o F[1] = F[1]
        <5>1. F[1] \in Seq(Range(F[1]))
          BY <4>1 DEF IsSeq
        <5> QED BY <5>1
      <4>6. Good(1)
        BY <4>1, <4>4, <4>5
      <4> QED BY <3>2, <3>3, <4>6
    <3>4. CASE i # 1
      <4>1. i - 1 \in 1..n /\ ~(i <= i - 1) /\ i - 1 \in Nat /\ i - 1 + 1 = i
        BY <3>2, <3>4
      <4>2. Good(i - 1)
        BY <3>1, <4>1
      <4>3. flat[i] = flat[i - 1] \o F[i]
        BY <2>3, <3>2, <3>4
      <4>4. IsSeq(flat[i])
        BY <3>2, <4>2, <4>3, JoinedSequence
      <4>5. PICK o : PlacedBy(o, flat[i - 1], F, i - 1)
        BY <4>2
      <4>6. \E u : PlacedBy(u, flat[i - 1] \o F[i], F, i - 1 + 1)
        BY <3>2, <4>1, <4>2, <4>5, PlacesMore
      <4>7. Good(i)
        BY <4>1, <4>3, <4>4, <4>6
      <4> QED BY <3>2, <4>7
    <3> QED BY <3>3, <3>4
  <2>5. n \in 1..n
    BY <1>2
  <2>6. Good(n)
    BY <2>4, <2>5
  <2> QED BY <2>2, <2>6
<1> QED BY <1>1, <1>2

PlacedAt(k, o, F, n) == \E i \in 1..n : \E q \in 1..Len(F[i]) : k = o[i] + q

\* every position lies in some part
LEMMA PlaceOf ==
    ASSUME NEW n \in Nat, NEW F, NEW flat, NEW o, PlacedBy(o, flat, F, n),
           \A i \in 1..n : IsSeq(F[i]), NEW k \in 1..Len(flat)
    PROVE  PlacedAt(k, o, F, n)
<1> DEFINE Past == {i \in 1..n + 1 : k <= o[i]}
<1>1. /\ o \in [1..n + 1 -> Nat] /\ o[1] = 0 /\ o[n + 1] = Len(flat)
      /\ \A i \in 1..n : o[i + 1] = o[i] + Len(F[i])
  BY DEF PlacedBy
<1>2. PICK i \in Past : \A j \in Past : i <= j
  <2>1. n + 1 \in Past /\ Past \subseteq Nat
    BY <1>1
  <2> HIDE DEF Past
  <2> QED BY <2>1, NatLeast
<1>3. i \in 1..n + 1 /\ k <= o[i] /\ i # 1
  BY <1>1
<1>4. i - 1 \in 1..n /\ i - 1 \in 1..n + 1 /\ ~(i <= i - 1) /\ i - 1 + 1 = i
  BY <1>3
<1>5. ~(k <= o[i - 1])
  BY <1>2, <1>4
<1>6. o[i] = o[i - 1] + Len(F[i - 1]) /\ Len(F[i - 1]) \in Nat /\ o[i - 1] \in Nat
  <2>1. Len(F[i - 1]) \in Nat
    BY <1>4, SequenceIs
  <2> QED BY <1>1, <1>4, <2>1
<1> DEFINE q == k - o[i - 1]
<1>7. q \in 1..Len(F[i - 1]) /\ k = o[i - 1] + q
  BY <1>3, <1>5, <1>6
<1> QED BY <1>4, <1>7 DEF PlacedAt

\* K is the key of a member
Keyed(K, s) == \A a, b \in 1..Len(s) : K[s[a]] = K[s[b]] => a = b
KeepApart(K, s, t) == \A a \in 1..Len(s), b \in 1..Len(t) : K[s[a]] # K[t[b]]

\* no key occurs twice in all if and only if none does in a part or in two
LEMMA FlatKeyed ==
    ASSUME NEW n \in Nat, NEW F, F = [i \in 1..n |-> F[i]], \A i \in 1..n : IsSeq(F[i]), NEW K
    PROVE  Keyed(K, FlattenSeq(F)) <=>
              /\ \A i \in 1..n : Keyed(K, F[i])
              /\ \A i, j \in 1..n : i # j => KeepApart(K, F[i], F[j])
<1> DEFINE flat == FlattenSeq(F)
<1>1. PICK o : PlacedBy(o, flat, F, n)
  BY FlatPlaces
<1>2. /\ o \in [1..n + 1 -> Nat] /\ o[n + 1] = Len(flat)
      /\ \A i \in 1..n : o[i + 1] = o[i] + Len(F[i])
      /\ \A i \in 1..n : \A q \in 1..Len(F[i]) : flat[o[i] + q] = F[i][q]
      /\ \A i, j \in 1..n + 1 : i <= j => o[i] <= o[j]
  BY <1>1 DEF PlacedBy
<1>3. \A i \in 1..n : Len(F[i]) \in Nat /\ i \in 1..n + 1 /\ i + 1 \in 1..n + 1 /\ o[i] \in Nat
  <2> TAKE i \in 1..n
  <2>1. Len(F[i]) \in Nat
    BY SequenceIs
  <2>2. i \in 1..n + 1 /\ i + 1 \in 1..n + 1
    OBVIOUS
  <2> QED BY <1>2, <2>1, <2>2
<1> HIDE DEF flat
<1>4. ASSUME NEW i \in 1..n, NEW a \in 1..Len(F[i])
      PROVE  /\ o[i] + a \in 1..Len(flat) /\ flat[o[i] + a] = F[i][a]
             /\ o[i] < o[i] + a /\ o[i] + a <= o[i + 1]
  <2>1. n + 1 \in 1..n + 1 /\ i + 1 <= n + 1
    OBVIOUS
  <2>2. o[i + 1] <= Len(flat) /\ o[i + 1] = o[i] + Len(F[i])
    BY <1>2, <1>3, <2>1
  <2>3. o[i] \in Nat /\ Len(F[i]) \in Nat /\ o[n + 1] \in Nat
    BY <1>2, <1>3, <2>1
  <2> QED BY <1>2, <2>2, <2>3
<1>5. ASSUME Keyed(K, flat) PROVE \A i \in 1..n : Keyed(K, F[i])
  <2> SUFFICES ASSUME NEW i \in 1..n, NEW a \in 1..Len(F[i]), NEW b \in 1..Len(F[i]),
                      K[F[i][a]] = K[F[i][b]]
               PROVE  a = b
    BY DEF Keyed
  <2>1. o[i] + a = o[i] + b
    BY <1>4, <1>5 DEF Keyed
  <2> QED BY <1>3, <2>1
<1>6. ASSUME Keyed(K, flat), NEW i \in 1..n, NEW j \in 1..n, i # j,
             NEW a \in 1..Len(F[i]), NEW b \in 1..Len(F[j]), K[F[i][a]] = K[F[j][b]]
      PROVE  FALSE
  <2>1. o[i] + a = o[j] + b
    <3>1. o[i] + a \in 1..Len(flat) /\ flat[o[i] + a] = F[i][a]
      BY <1>4
    <3>2. o[j] + b \in 1..Len(flat) /\ flat[o[j] + b] = F[j][b]
      BY <1>4
    <3> QED BY <1>6, <3>1, <3>2 DEF Keyed
  <2>2. o[i] < o[i] + a /\ o[i] + a <= o[i + 1] /\ o[j] < o[j] + b /\ o[j] + b <= o[j + 1]
    BY <1>4
  <2>3. CASE i < j
    <3>1. o[i + 1] <= o[j]
      BY <1>2, <1>3, <2>3
    <3>2. o[i + 1] \in Nat /\ o[j] \in Nat
      BY <1>2, <1>3
    <3> QED BY <1>3, <2>1, <2>2, <3>1, <3>2
  <2>4. CASE j < i
    <3>1. o[j + 1] <= o[i]
      BY <1>2, <1>3, <2>4
    <3>2. o[j + 1] \in Nat /\ o[i] \in Nat
      BY <1>2, <1>3
    <3> QED BY <1>3, <2>1, <2>2, <3>1, <3>2
  <2> QED BY <1>6, <2>3, <2>4
<1>7. ASSUME \A i \in 1..n : Keyed(K, F[i]),
             \A i, j \in 1..n : i # j => KeepApart(K, F[i], F[j])
      PROVE  Keyed(K, flat)
  <2> SUFFICES ASSUME NEW k \in 1..Len(flat), NEW m \in 1..Len(flat), K[flat[k]] = K[flat[m]]
               PROVE  k = m
    BY DEF Keyed
  <2>1. PICK i \in 1..n : \E q \in 1..Len(F[i]) : k = o[i] + q
    <3>1. PlacedAt(k, o, F, n)
      BY <1>1, PlaceOf
    <3> QED BY <3>1 DEF PlacedAt
  <2>2. PICK a \in 1..Len(F[i]) : k = o[i] + a
    BY <2>1
  <2>3. PICK j \in 1..n : \E q \in 1..Len(F[j]) : m = o[j] + q
    <3>1. PlacedAt(m, o, F, n)
      BY <1>1, PlaceOf
    <3> QED BY <3>1 DEF PlacedAt
  <2>4. PICK b \in 1..Len(F[j]) : m = o[j] + b
    BY <2>3
  <2>5. K[F[i][a]] = K[F[j][b]]
    BY <1>2, <2>2, <2>4
  <2>6. i = j
    BY <1>7, <2>5 DEF KeepApart
  <2>7. a = b
    BY <1>7, <2>5, <2>6 DEF Keyed
  <2> QED BY <2>2, <2>4, <2>6, <2>7
<1> QED BY <1>5, <1>6, <1>7 DEF KeepApart, flat

Disjoint(s, t) == \A a \in 1..Len(s), b \in 1..Len(t) : s[a] # t[b]

\* parts that share no member and repeat none flatten to one that repeats none
LEMMA FlatOnce ==
    ASSUME NEW n \in Nat, NEW F, F = [i \in 1..n |-> F[i]], \A i \in 1..n : IsSeq(F[i]),
           \A i \in 1..n : Once(F[i]),
           \A i, j \in 1..n : i # j => Disjoint(F[i], F[j])
    PROVE  Once(FlattenSeq(F))
<1> DEFINE flat == FlattenSeq(F)
<1> DEFINE U == Members(flat)
<1> DEFINE K == [x \in U |-> x]
<1>1. U = UNION {Members(F[i]) : i \in 1..n}
  BY FlatSequence
<1>2. \A i \in 1..n : \A a \in 1..Len(F[i]) : F[i][a] \in U
  <2> HIDE DEF U
  <2> TAKE i \in 1..n
  <2>1. Members(F[i]) \subseteq U
    BY <1>1
  <2> QED BY <2>1 DEF Members
<1>3. \A a \in 1..Len(flat) : flat[a] \in U
  BY DEF Members
<1>4. \A x \in U : K[x] = x
  OBVIOUS
<1> HIDE DEF K, U
<1>5. Keyed(K, flat) <=>
              /\ \A i \in 1..n : Keyed(K, F[i])
              /\ \A i, j \in 1..n : i # j => KeepApart(K, F[i], F[j])
  BY FlatKeyed
<1> HIDE DEF flat
<1>6. Keyed(K, flat) <=> Once(flat)
  BY <1>3, <1>4 DEF Keyed, Once
<1>7. \A i \in 1..n : Keyed(K, F[i]) <=> Once(F[i])
  BY <1>2, <1>4 DEF Keyed, Once
<1>8. \A i, j \in 1..n : KeepApart(K, F[i], F[j]) <=> Disjoint(F[i], F[j])
  BY <1>2, <1>4 DEF KeepApart, Disjoint
<1> QED BY <1>5, <1>6, <1>7, <1>8 DEF flat

-----------------------------------------------------------------------------
\* Sums over finite sets, as the fold computes them.

Share(f, g, s) ==
    IF s = {} THEN 0 ELSE f[CHOOSE x \in s : TRUE] + g[s \ {CHOOSE x \in s : TRUE}]
Sums(f, g, S) == g = [s \in SUBSET S |-> Share(f, g, s)]

\* taking one element away leaves a smaller set
LEMMA LessByOne ==
    ASSUME NEW S, IsFiniteSet(S), NEW s \in SUBSET S, s # {}
    PROVE  LET x == CHOOSE x \in s : TRUE IN
           /\ x \in s /\ s \ {x} \in SUBSET S /\ IsFiniteSet(s)
           /\ Cardinality(s) \in Nat /\ Cardinality(s \ {x}) \in Nat
           /\ Cardinality(s) = Cardinality(s \ {x}) + 1
<1> DEFINE x == CHOOSE x \in s : TRUE
<1>1. x \in s
  OBVIOUS
<1> HIDE DEF x
<1>2. IsFiniteSet(s) /\ Cardinality(s) \in Nat
  BY FS_Subset, FS_CardinalityType
<1>3. IsFiniteSet(s \ {x}) /\ Cardinality(s \ {x}) = Cardinality(s) - 1
  BY <1>1, <1>2, FS_RemoveElement
<1>4. Cardinality(s \ {x}) \in Nat
  BY <1>3, FS_CardinalityType
<1> QED BY <1>1, <1>2, <1>3, <1>4 DEF x

\* the function whose value at S is the sum is there
LEMMA SumExists ==
    ASSUME NEW S, IsFiniteSet(S), NEW f
    PROVE  \E g : Sums(f, g, S)
<1> DEFINE upTo(n) == {s \in SUBSET S : Cardinality(s) <= n}
<1> DEFINE there(n) == \E g : g = [s \in upTo(n) |-> Share(f, g, s)]
<1> DEFINE bad == {n \in Nat : ~there(n)}
<1>0. \A s \in SUBSET S : IsFiniteSet(s) /\ Cardinality(s) \in Nat
  BY FS_Subset, FS_CardinalityType
<1>1. there(0)
  <2> DEFINE g == [s \in upTo(0) |-> 0]
  <2>1. \A s \in upTo(0) : s = {}
    BY <1>0, FS_EmptySet
  <2>2. g = [s \in upTo(0) |-> Share(f, g, s)]
    BY <2>1 DEF Share
  <2> QED BY <2>2
<1>2. ASSUME NEW n \in Nat, there(n) PROVE there(n + 1)
  <2>1. PICK h : h = [s \in upTo(n) |-> Share(f, h, s)]
    BY <1>2
  <2> DEFINE g == [s \in upTo(n + 1) |-> Share(f, h, s)]
  <2>2. \A s \in upTo(n) : h[s] = Share(f, h, s) /\ s \in upTo(n + 1)
    BY <1>0, <2>1
  <2>3. ASSUME NEW s \in upTo(n + 1) PROVE Share(f, h, s) = Share(f, g, s)
    <3>1. CASE s = {}
      BY <3>1 DEF Share
    <3>2. CASE s # {}
      <4> DEFINE x == CHOOSE x \in s : TRUE
      <4>1. x \in s /\ s \ {x} \in SUBSET S /\ Cardinality(s) = Cardinality(s \ {x}) + 1
            /\ Cardinality(s \ {x}) \in Nat
        BY <3>2, LessByOne
      <4> HIDE DEF x
      <4>2. s \ {x} \in upTo(n)
        BY <4>1
      <4>3. g[s \ {x}] = h[s \ {x}]
        BY <2>2, <4>2
      <4> HIDE DEF g
      <4> QED BY <3>2, <4>3 DEF Share, x
    <3> QED BY <3>1, <3>2
  <2>4. g = [s \in upTo(n + 1) |-> Share(f, g, s)]
    <3> DEFINE e == [s \in upTo(n + 1) |-> Share(f, g, s)]
    <3>1. \A s \in upTo(n + 1) : g[s] = e[s]
      BY <2>3
    <3>2. DOMAIN g = upTo(n + 1) /\ DOMAIN e = upTo(n + 1)
      OBVIOUS
    <3> HIDE DEF upTo
    <3> QED BY <2>3
  <2> QED BY <2>4
<1> HIDE DEF there
<1>3. \A n \in Nat : there(n)
  <2> SUFFICES ASSUME bad # {} PROVE FALSE
    OBVIOUS
  <2>1. bad \subseteq Nat /\ bad # {}
    OBVIOUS
  <2>2. PICK n \in bad : \A m \in bad : n <= m
    <3> HIDE DEF bad
    <3> QED BY <2>1, NatLeast
  <2>3. n # 0 /\ n \in Nat
    BY <1>1, <2>2
  <2>4. n - 1 \in Nat /\ n - 1 \notin bad /\ (n - 1) + 1 = n
    BY <2>2, <2>3
  <2> QED BY <1>2, <2>2, <2>4
<1>4. Cardinality(S) \in Nat /\ upTo(Cardinality(S)) = SUBSET S
  <2>1. Cardinality(S) \in Nat
    BY FS_CardinalityType
  <2>2. \A s \in SUBSET S : Cardinality(s) <= Cardinality(S)
    BY FS_Subset
  <2> QED BY <2>1, <2>2
<1>5. there(Cardinality(S))
  BY <1>3, <1>4
<1> HIDE DEF upTo
<1> QED BY <1>4, <1>5 DEF there, Sums

\* terms that add up to b have sums that add up to b times their number
LEMMA SumsAddUp ==
    ASSUME NEW S, IsFiniteSet(S), NEW b \in Nat, NEW f, NEW g, NEW d, NEW e,
           Sums(f, g, S), Sums(d, e, S),
           \A i \in S : f[i] \in Nat /\ d[i] \in Nat /\ f[i] + d[i] = b
    PROVE  g[S] \in Nat /\ e[S] \in Nat /\ g[S] + e[S] = b * Cardinality(S)
<1> DEFINE right(s) == g[s] \in Nat /\ e[s] \in Nat /\ g[s] + e[s] = b * Cardinality(s)
<1> DEFINE sizes == {Cardinality(s) : s \in {t \in SUBSET S : ~right(t)}}
<1>0. \A s \in SUBSET S : IsFiniteSet(s) /\ Cardinality(s) \in Nat
  BY FS_Subset, FS_CardinalityType
<1>1. \A s \in SUBSET S : g[s] = Share(f, g, s) /\ e[s] = Share(d, e, s)
  BY DEF Sums
<1>2. right({})
  <2>1. g[{}] = 0 /\ e[{}] = 0
    BY <1>1 DEF Share
  <2>2. Cardinality({}) = 0
    BY FS_EmptySet
  <2> QED BY <2>1, <2>2
<1>3. ASSUME NEW s \in SUBSET S, s # {}, right(s \ {CHOOSE x \in s : TRUE}) PROVE right(s)
  <2> DEFINE x == CHOOSE x \in s : TRUE
  <2> DEFINE c == Cardinality(s \ {x})
  <2>1. x \in s /\ c \in Nat /\ Cardinality(s) = c + 1
    BY <1>3, LessByOne
  <2>2. g[s] = f[x] + g[s \ {x}] /\ e[s] = d[x] + e[s \ {x}]
    BY <1>1, <1>3 DEF Share
  <2>3. g[s \ {x}] \in Nat /\ e[s \ {x}] \in Nat /\ g[s \ {x}] + e[s \ {x}] = b * c
    BY <1>3
  <2> HIDE DEF x, c
  <2>4. f[x] \in Nat /\ d[x] \in Nat /\ f[x] + d[x] = b
    BY <2>1
  <2>5. g[s] + e[s] = b * c + b /\ g[s] \in Nat /\ e[s] \in Nat
    <3>1. b * c \in Nat
      BY <2>1
    <3> QED BY <2>2, <2>3, <2>4, <3>1
  <2>6. b * c + b = b * (c + 1)
    BY <2>1
  <2> QED BY <2>1, <2>5, <2>6
<1> HIDE DEF right
<1>4. \A s \in SUBSET S : right(s)
  <2> SUFFICES ASSUME sizes # {} PROVE FALSE
    OBVIOUS
  <2>1. sizes \subseteq Nat
    BY <1>0
  <2>2. PICK n \in sizes : \A m \in sizes : n <= m
    <3> HIDE DEF sizes
    <3> QED BY <2>1, NatLeast
  <2>3. PICK s \in SUBSET S : n = Cardinality(s) /\ ~right(s)
    OBVIOUS
  <2>4. s # {}
    BY <1>2, <2>3
  <2> DEFINE t == s \ {CHOOSE x \in s : TRUE}
  <2>5. t \in SUBSET S /\ Cardinality(t) \in Nat /\ Cardinality(s) = Cardinality(t) + 1
    BY <2>4, LessByOne
  <2>6. right(t)
    <3> HIDE DEF t
    <3> SUFFICES ASSUME ~right(t) PROVE FALSE
      OBVIOUS
    <3>1. Cardinality(t) \in sizes
      BY <2>5
    <3>2. n <= Cardinality(t)
      <4> HIDE DEF sizes
      <4> QED BY <2>2, <3>1
    <3> QED BY <2>3, <2>5, <3>2
  <2>7. right(s)
    BY <1>3, <2>4, <2>6
  <2> QED BY <2>3, <2>7
<1> QED BY <1>4 DEF right

\* sums of integers are integers
LEMMA SumsAreInt ==
    ASSUME NEW S, IsFiniteSet(S), NEW f, \A x \in S : f[x] \in Int, NEW g, Sums(f, g, S)
    PROVE  \A s \in SUBSET S : g[s] \in Int
<1> DEFINE bad == {n \in Nat : \E s \in SUBSET S : Cardinality(s) = n /\ g[s] \notin Int}
<1>1. \A s \in SUBSET S : IsFiniteSet(s) /\ Cardinality(s) \in Nat
  BY FS_Subset, FS_CardinalityType
<1>2. ASSUME NEW n \in bad PROVE \E m \in bad : m < n
  <2>1. PICK s \in SUBSET S : Cardinality(s) = n /\ g[s] \notin Int
    OBVIOUS
  <2>2. g[s] = Share(f, g, s)
    BY DEF Sums
  <2>3. s # {}
    BY <2>1, <2>2 DEF Share
  <2> DEFINE x == CHOOSE x \in s : TRUE
  <2>4. /\ x \in s /\ s \ {x} \in SUBSET S /\ Cardinality(s) \in Nat
        /\ Cardinality(s \ {x}) \in Nat /\ Cardinality(s) = Cardinality(s \ {x}) + 1
    BY <2>3, LessByOne
  <2>5. g[s] = f[x] + g[s \ {x}]
    BY <2>2, <2>3 DEF Share
  <2> HIDE DEF x
  <2>6. f[x] \in Int
    BY <2>4
  <2>7. g[s \ {x}] \notin Int
    BY <2>1, <2>5, <2>6
  <2> DEFINE t == s \ {x}
  <2>8. t \in SUBSET S /\ g[t] \notin Int /\ Cardinality(t) \in Nat /\ Cardinality(t) < n
    BY <2>1, <2>4, <2>7
  <2> HIDE DEF t
  <2>9. Cardinality(t) \in bad
    BY <2>8
  <2> QED BY <2>8, <2>9
<1>3. bad = {}
  <2> SUFFICES ASSUME bad # {} PROVE FALSE
    OBVIOUS
  <2>1. bad \subseteq Nat /\ bad # {}
    OBVIOUS
  <2> HIDE DEF bad
  <2>2. PICK n \in bad : \A m \in bad : n <= m
    BY <2>1, NatLeast
  <2>3. PICK m \in bad : m < n
    BY <1>2
  <2>4. m \in Nat /\ n \in Nat /\ n <= m
    BY <2>1, <2>2
  <2> QED BY <2>3, <2>4
<1> QED BY <1>1, <1>3

Addable(f, g, S) == IsFiniteSet(S) /\ (\A x \in S : f[x] \in Int) /\ Sums(f, g, S)
Splits(f, g, s, x) == g[s] = f[x] + g[s \ {x}]

\* whichever term is taken away first
LEMMA SumsAny ==
    ASSUME NEW S, NEW f, NEW g, Addable(f, g, S), NEW part \in SUBSET S, NEW term \in part
    PROVE  Splits(f, g, part, term)
<1>0. IsFiniteSet(S) /\ (\A x \in S : f[x] \in Int) /\ Sums(f, g, S)
  BY DEF Addable
<1> DEFINE odd(s) == \E x \in s : g[s] # f[x] + g[s \ {x}]
<1> DEFINE bad == {n \in Nat : \E s \in SUBSET S : Cardinality(s) = n /\ odd(s)}
<1>1. \A s \in SUBSET S : IsFiniteSet(s) /\ Cardinality(s) \in Nat /\ g[s] \in Int
  BY <1>0, FS_Subset, FS_CardinalityType, SumsAreInt
<1>2. ASSUME NEW n \in bad PROVE \E m \in bad : m < n
  <2>1. PICK s \in SUBSET S : Cardinality(s) = n /\ odd(s)
    OBVIOUS
  <2>2. PICK x \in s : g[s] # f[x] + g[s \ {x}]
    BY <2>1
  <2> DEFINE y == CHOOSE y \in s : TRUE
  <2>3. /\ y \in s /\ s \ {y} \in SUBSET S /\ Cardinality(s) \in Nat
        /\ Cardinality(s \ {y}) \in Nat /\ Cardinality(s) = Cardinality(s \ {y}) + 1
    BY <1>0, <2>2, LessByOne
  <2>4. g[s] = f[y] + g[s \ {y}]
    BY <1>0, <2>2 DEF Sums, Share
  <2> HIDE DEF y
  <2>5. x # y
    BY <2>2, <2>4
  <2>6. Cardinality(s \ {x}) = n - 1 /\ Cardinality(s \ {y}) = n - 1 /\ n - 1 \in Nat /\ n - 1 < n
    BY <1>1, <2>1, <2>2, <2>3, FS_RemoveElement
  <2>7. (s \ {x}) \ {y} = (s \ {y}) \ {x} /\ y \in s \ {x} /\ x \in s \ {y}
    BY <2>2, <2>3, <2>5
  <2>8. s \ {x} \in SUBSET S /\ s \ {y} \in SUBSET S /\ (s \ {x}) \ {y} \in SUBSET S
    OBVIOUS
  <2>9. f[x] \in Int /\ f[y] \in Int
    BY <1>0, <2>2, <2>3
  <2>10. odd(s \ {x}) \/ odd(s \ {y})
    <3> SUFFICES ASSUME ~odd(s \ {x}), ~odd(s \ {y}) PROVE FALSE
      OBVIOUS
    <3>1. g[s \ {x}] = f[y] + g[(s \ {x}) \ {y}]
      BY <2>7
    <3>2. g[s \ {y}] = f[x] + g[(s \ {y}) \ {x}]
      BY <2>7
    <3>3. g[(s \ {x}) \ {y}] \in Int
      BY <1>1, <2>8
    <3> DEFINE a == f[x]
    <3> DEFINE b == f[y]
    <3> DEFINE c == g[(s \ {x}) \ {y}]
    <3>4. /\ g[s] = b + (a + c) /\ g[s] # a + (b + c)
          /\ a \in Int /\ b \in Int /\ c \in Int
      BY <2>2, <2>4, <2>7, <2>9, <3>1, <3>2, <3>3
    <3> HIDE DEF a, b, c
    <3> QED BY <3>4
  <2> HIDE DEF odd
  <2>11. n - 1 \in bad
    BY <2>6, <2>8, <2>10
  <2> QED BY <2>6, <2>11
<1> HIDE DEF odd
<1>3. bad = {}
  <2> SUFFICES ASSUME bad # {} PROVE FALSE
    OBVIOUS
  <2>1. bad \subseteq Nat /\ bad # {}
    OBVIOUS
  <2> HIDE DEF bad
  <2>2. PICK n \in bad : \A m \in bad : n <= m
    BY <2>1, NatLeast
  <2>3. PICK m \in bad : m < n
    BY <1>2
  <2>4. m \in Nat /\ n \in Nat /\ n <= m
    BY <2>1, <2>2
  <2> QED BY <2>3, <2>4
<1>4. \A s \in SUBSET S : ~odd(s)
  BY <1>1, <1>3
<1> QED BY <1>4 DEF odd, Splits

\* P[i] is the sum of the first i terms
Adds(f, P, n) ==
    /\ P[0] = 0 /\ \A i \in 0..n : P[i] \in Int
    /\ \A i \in 1..n : P[i] = P[i - 1] + f[i]
Ints(f, n) == \A i \in 1..n : f[i] \in Int
Total(f, n) == (CHOOSE P : Adds(f, P, n))[n]

\* partial sums are determined by the terms
LEMMA AddsOnce ==
    ASSUME NEW n \in Nat, NEW f, NEW P, NEW Q, Adds(f, P, n), Adds(f, Q, n)
    PROVE  P[n] = Q[n]
<1> DEFINE bad == {i \in 0..n : P[i] # Q[i]}
<1>1. bad = {}
  <2> SUFFICES ASSUME bad # {} PROVE FALSE
    OBVIOUS
  <2>1. bad \subseteq Nat
    OBVIOUS
  <2>2. PICK i \in bad : \A j \in bad : i <= j
    <3> HIDE DEF bad
    <3> QED BY <2>1, NatLeast
  <2>3. i # 0 /\ i \in 1..n /\ i - 1 \in 0..n
    BY <2>2 DEF Adds
  <2>4. i - 1 \notin bad
    BY <2>2, <2>3
  <2>5. P[i - 1] = Q[i - 1]
    BY <2>3, <2>4
  <2>6. P[i] = P[i - 1] + f[i] /\ Q[i] = Q[i - 1] + f[i]
    BY <2>3 DEF Adds
  <2> QED BY <2>2, <2>5, <2>6
<1> QED BY <1>1

\* the sums there are
LEMMA TotalOf ==
    ASSUME NEW n \in Nat, NEW f, NEW P, Adds(f, P, n)
    PROVE  Total(f, n) = P[n] /\ Total(f, n) \in Int
<1> DEFINE Q == CHOOSE Q : Adds(f, Q, n)
<1>1. Adds(f, Q, n)
  OBVIOUS
<1>2. Total(f, n) = Q[n]
  BY DEF Total
<1> HIDE DEF Q
<1>3. Q[n] = P[n]
  BY <1>1, AddsOnce
<1> QED BY <1>2, <1>3 DEF Adds

\* terms that are integers have partial sums
LEMMA AddsExist ==
    ASSUME NEW n \in Nat, NEW f, Ints(f, n)
    PROVE  \E P : Adds(f, P, n)
<1>0. \A i \in 1..n : f[i] \in Int
  BY DEF Ints
<1> DEFINE bad == {m \in 0..n : ~\E P : Adds(f, P, m)}
<1>1. bad = {}
  <2> SUFFICES ASSUME bad # {} PROVE FALSE
    OBVIOUS
  <2>1. bad \subseteq Nat
    OBVIOUS
  <2>2. PICK m \in bad : \A j \in bad : m <= j
    <3> HIDE DEF bad
    <3> QED BY <2>1, NatLeast
  <2>3. m # 0
    <3> DEFINE P == [i \in 0..0 |-> 0]
    <3>1. Adds(f, P, 0)
      BY DEF Adds
    <3> QED BY <2>2, <3>1
  <2>4. m \in 1..n /\ m - 1 \in 0..n /\ m - 1 \notin bad
    BY <2>2, <2>3
  <2>5. PICK P : Adds(f, P, m - 1)
    BY <2>4
  <2> DEFINE Q == [i \in 0..m |-> IF i = m THEN P[m - 1] + f[m] ELSE P[i]]
  <2>6. Adds(f, Q, m)
    <3>1. Q[0] = 0
      BY <2>4, <2>5 DEF Adds
    <3>2. \A i \in 0..m - 1 : Q[i] = P[i] /\ P[i] \in Int
      BY <2>4, <2>5 DEF Adds
    <3>3. Q[m] = P[m - 1] + f[m] /\ f[m] \in Int
      BY <1>0, <2>4
    <3>4. \A i \in 0..m : Q[i] \in Int
      <4> HIDE DEF Q
      <4>1. m - 1 \in 0..m - 1 /\ \A i \in 0..m : i = m \/ i \in 0..m - 1
        BY <2>4
      <4> QED BY <3>2, <3>3, <4>1
    <3>5. \A i \in 1..m : Q[i] = Q[i - 1] + f[i]
      <4> HIDE DEF Q
      <4>1. \A i \in 1..m - 1 : i \in 0..m - 1 /\ i - 1 \in 0..m - 1
        BY <2>4
      <4>2. \A i \in 1..m - 1 : P[i] = P[i - 1] + f[i]
        BY <2>5 DEF Adds
      <4>3. \A i \in 1..m : i = m \/ i \in 1..m - 1
        BY <2>4
      <4>4. m - 1 \in 0..m - 1
        BY <2>4
      <4> QED BY <3>2, <3>3, <4>1, <4>2, <4>3, <4>4
    <3> QED BY <3>1, <3>4, <3>5 DEF Adds
  <2> HIDE DEF Q
  <2> QED BY <2>2, <2>6
<1> QED BY <1>1

\* the total of integers is an integer
LEMMA TotalIsInt ==
    ASSUME NEW n \in Nat, NEW f, Ints(f, n)
    PROVE  Total(f, n) \in Int
BY AddsExist, TotalOf

\* one by one, or any other way
LEMMA SumIsTotal ==
    ASSUME NEW n \in Nat, NEW f, Ints(f, n), NEW g, Sums(f, g, 1..n)
    PROVE  g[1..n] = Total(f, n)
<1>0. \A i \in 1..n : f[i] \in Int
  BY DEF Ints
<1> DEFINE P == [i \in 0..n |-> g[1..i]]
<1>1. IsFiniteSet(1..n)
  BY FS_Interval
<1>2. \A i \in 0..n : 1..i \in SUBSET (1..n)
  OBVIOUS
<1>3. \A i \in 0..n : P[i] \in Int
  BY <1>0, <1>1, <1>2, SumsAreInt
<1>4. P[0] = 0
  <2>1. 1..0 = {} /\ {} \in SUBSET (1..n)
    OBVIOUS
  <2>2. g[{}] = 0
    BY <2>1 DEF Sums, Share
  <2>3. 0 \in 0..n
    OBVIOUS
  <2>4. P[0] = g[1..0]
    BY <2>3
  <2> QED BY <2>1, <2>2, <2>4
<1>5. ASSUME NEW i \in 1..n PROVE P[i] = P[i - 1] + f[i]
  <2>1. i \in 1..i /\ i \in 0..n /\ i - 1 \in 0..n
    OBVIOUS
  <2>2. (1..i) \ {i} = 1..(i - 1)
    OBVIOUS
  <2>3. g[1..i] = f[i] + g[(1..i) \ {i}]
    <3> DEFINE t == 1..i
    <3>1. t \in SUBSET (1..n) /\ i \in t
      BY <2>1
    <3> HIDE DEF t
    <3>2. Addable(f, g, 1..n)
      BY <1>0, <1>1 DEF Addable
    <3> DEFINE S == 1..n
    <3>4. Addable(f, g, S) /\ t \in SUBSET S
      BY <3>1, <3>2
    <3> HIDE DEF S
    <3>5. Splits(f, g, t, i)
      BY <3>1, <3>4, SumsAny
    <3>3. g[t] = f[i] + g[t \ {i}]
      BY <3>5 DEF Splits
    <3> QED BY <3>3 DEF t
  <2>4. P[i] = g[1..i] /\ P[i - 1] = g[1..(i - 1)]
    BY <2>1
  <2> HIDE DEF P
  <2>5. P[i - 1] \in Int /\ f[i] \in Int
    BY <1>0, <1>3, <2>1
  <2>6. P[i] = f[i] + P[i - 1]
    BY <2>2, <2>3, <2>4
  <2> QED BY <2>5, <2>6
<1>6. P[n] = g[1..n]
  OBVIOUS
<1> HIDE DEF P
<1>7. Adds(f, P, n)
  BY <1>3, <1>4, <1>5 DEF Adds
<1> QED BY <1>6, <1>7, TotalOf

\* one term more
LEMMA TotalMore ==
    ASSUME NEW n \in Nat, NEW f, Ints(f, n + 1)
    PROVE  Total(f, n + 1) = Total(f, n) + f[n + 1] /\ Total(f, 0) = 0
<1>1. n + 1 \in Nat /\ 0 \in Nat /\ 1..0 = {}
  OBVIOUS
<1>2. PICK P : Adds(f, P, n + 1)
  BY <1>1, AddsExist
<1>3. Adds(f, P, n)
  <2>1. 0..n \subseteq 0..n + 1 /\ 1..n \subseteq 1..n + 1
    OBVIOUS
  <2> QED BY <1>2, <2>1 DEF Adds
<1>4. Adds(f, P, 0)
  <2>1. 0..0 \subseteq 0..n + 1
    OBVIOUS
  <2> QED BY <1>1, <1>2, <2>1 DEF Adds
<1>5. Total(f, n + 1) = P[n + 1] /\ Total(f, n) = P[n] /\ Total(f, 0) = P[0]
  BY <1>1, <1>2, <1>3, <1>4, TotalOf
<1>6. P[0] = 0 /\ P[n + 1] = P[n] + f[n + 1]
  <2>1. n + 1 \in 1..n + 1 /\ n + 1 - 1 = n
    OBVIOUS
  <2> QED BY <1>2, <2>1 DEF Adds
<1> QED BY <1>5, <1>6

Bumped(f, h, n, x, d) ==
    h[x] = f[x] + d /\ \A i \in 1..n : i # x => h[i] = f[i]

\* one term larger
LEMMA TotalBump ==
    ASSUME NEW n \in Nat, NEW f, Ints(f, n), NEW x \in 1..n, NEW d \in Int,
           NEW h, Bumped(f, h, n, x, d)
    PROVE  Total(h, n) = Total(f, n) + d
<1>0. /\ \A i \in 1..n : f[i] \in Int
      /\ h[x] = f[x] + d /\ \A i \in 1..n : i # x => h[i] = f[i]
  BY DEF Ints, Bumped
<1>1. PICK P : Adds(f, P, n)
  BY AddsExist
<1> DEFINE Q == [i \in 0..n |-> IF i < x THEN P[i] ELSE P[i] + d]
<1>2. \A i \in 0..n : P[i] \in Int
  BY <1>1 DEF Adds
<1>3. \A i \in 0..n : Q[i] = IF i < x THEN P[i] ELSE P[i] + d
  OBVIOUS
<1> HIDE DEF Q
<1>4. Q[0] = 0
  <2>1. 0 \in 0..n /\ 0 < x
    OBVIOUS
  <2> QED BY <1>1, <1>3, <2>1 DEF Adds
<1>5. \A i \in 0..n : Q[i] \in Int
  BY <1>2, <1>3
<1>6. ASSUME NEW i \in 1..n PROVE Q[i] = Q[i - 1] + h[i]
  <2>1. i \in 0..n /\ i - 1 \in 0..n /\ P[i] \in Int /\ P[i - 1] \in Int /\ f[i] \in Int
    BY <1>0, <1>2
  <2>2. P[i] = P[i - 1] + f[i]
    BY <1>1 DEF Adds
  <2>3. Q[i] = (IF i < x THEN P[i] ELSE P[i] + d)
        /\ Q[i - 1] = IF i - 1 < x THEN P[i - 1] ELSE P[i - 1] + d
    BY <1>3, <2>1
  <2>4. CASE i < x
    <3>1. i # x /\ i - 1 < x
      BY <2>4
    <3>2. h[i] = f[i] /\ Q[i] = P[i] /\ Q[i - 1] = P[i - 1]
      BY <1>0, <2>3, <2>4, <3>1
    <3> QED BY <2>2, <3>2
  <2>5. CASE i = x
    <3>1. ~(i < x) /\ i - 1 < x
      BY <2>5
    <3>2. h[i] = f[i] + d /\ Q[i] = P[i] + d /\ Q[i - 1] = P[i - 1]
      BY <1>0, <2>3, <2>5, <3>1
    <3> QED BY <2>1, <2>2, <3>2
  <2>6. CASE i > x
    <3>1. i # x /\ ~(i < x) /\ ~(i - 1 < x)
      BY <2>6
    <3>2. h[i] = f[i] /\ Q[i] = P[i] + d /\ Q[i - 1] = P[i - 1] + d
      BY <1>0, <2>3, <3>1
    <3> QED BY <2>1, <2>2, <3>2
  <2> QED BY <2>4, <2>5, <2>6
<1>7. Adds(h, Q, n)
  BY <1>4, <1>5, <1>6 DEF Adds
<1>8. Q[n] = P[n] + d
  <2>1. n \in 0..n /\ ~(n < x)
    OBVIOUS
  <2> QED BY <1>3, <2>1
<1> QED BY <1>1, <1>7, <1>8, TotalOf

AllAre(f, n, d) == \A i \in 1..n : f[i] = d

\* n equal terms
LEMMA TotalSame ==
    ASSUME NEW n \in Nat, NEW f, NEW d \in Int, AllAre(f, n, d)
    PROVE  Total(f, n) = n * d
<1> DEFINE P == [i \in 0..n |-> i * d]
<1>1. \A i \in Int : i * d \in Int /\ i * d = (i - 1) * d + d
  OBVIOUS
<1>2. \A i \in 0..n : P[i] = i * d /\ P[i] \in Int
  BY <1>1
<1>3. P[0] = 0 /\ P[n] = n * d
  <2>1. 0 \in 0..n /\ n \in 0..n /\ 0 * d = 0
    OBVIOUS
  <2> QED BY <2>1
<1> HIDE DEF P
<1>4. ASSUME NEW i \in 1..n PROVE P[i] = P[i - 1] + f[i]
  <2>1. i \in 0..n /\ i - 1 \in 0..n /\ i \in Int
    OBVIOUS
  <2>2. P[i] = i * d /\ P[i - 1] = (i - 1) * d /\ f[i] = d
    BY <1>2, <2>1 DEF AllAre
  <2>3. i * d = (i - 1) * d + d
    BY <1>1, <2>1
  <2> QED BY <2>2, <2>3
<1>5. Adds(f, P, n)
  BY <1>2, <1>3, <1>4 DEF Adds
<1> QED BY <1>3, <1>5, TotalOf

SameTerms(f, h, n) == \A i \in 1..n : h[i] = f[i]

\* equal terms, equal sums
LEMMA TotalEqual ==
    ASSUME NEW n \in Nat, NEW f, Ints(f, n), NEW h, SameTerms(f, h, n)
    PROVE  Total(h, n) = Total(f, n)
<1>1. PICK P : Adds(f, P, n)
  BY AddsExist
<1>2. Adds(h, P, n)
  BY <1>1 DEF Adds, SameTerms
<1> QED BY <1>1, <1>2, TotalOf

Lengths(F, n) == [i \in 1..n |-> Len(F[i])]

\* parts that are joined have the length of all
LEMMA FlatLength ==
    ASSUME NEW n \in Nat, NEW F, F = [i \in 1..n |-> F[i]], \A i \in 1..n : IsSeq(F[i])
    PROVE  Len(FlattenSeq(F)) = Total(Lengths(F, n), n)
<1> DEFINE flat == FlattenSeq(F)
<1>1. PICK o : PlacedBy(o, flat, F, n)
  BY FlatPlaces
<1> HIDE DEF flat
<1> DEFINE P == [i \in 0..n |-> o[i + 1]]
<1>2. o \in [1..n + 1 -> Nat] /\ o[1] = 0 /\ o[n + 1] = Len(flat)
      /\ \A i \in 1..n : o[i + 1] = o[i] + Len(F[i])
  BY <1>1 DEF PlacedBy
<1>3. \A i \in 0..n : P[i] = o[i + 1] /\ P[i] \in Int
  <2>1. \A i \in 0..n : i + 1 \in 1..n + 1
    OBVIOUS
  <2> QED BY <1>2, <2>1
<1>4. P[0] = 0 /\ P[n] = Len(flat)
  <2>1. 0 \in 0..n /\ n \in 0..n /\ 0 + 1 = 1
    OBVIOUS
  <2> QED BY <1>2, <2>1
<1> HIDE DEF P
<1>5. ASSUME NEW i \in 1..n PROVE P[i] = P[i - 1] + Lengths(F, n)[i]
  <2>1. i \in 0..n /\ i - 1 \in 0..n /\ i - 1 + 1 = i
    OBVIOUS
  <2>2. P[i] = o[i + 1] /\ P[i - 1] = o[i]
    BY <1>3, <2>1
  <2> QED BY <1>2, <2>2 DEF Lengths
<1>6. Adds(Lengths(F, n), P, n)
  BY <1>3, <1>4, <1>5 DEF Adds
<1>7. Total(Lengths(F, n), n) = P[n]
  BY <1>6, TotalOf
<1> QED BY <1>4, <1>7 DEF flat

\* what the fold of a function computes is one of these sums
LEMMA FoldOnSetIsSum ==
    ASSUME NEW S, IsFiniteSet(S), NEW f
    PROVE  \E g : Sums(f, g, S) /\ SumFunctionOnSet(f, S) = g[S]
<1> DEFINE folded(g) == g = [s \in SUBSET S |->
              IF s = {} THEN 0 ELSE f[CHOOSE x \in s : TRUE]
                                    + g[s \ {CHOOSE x \in s : TRUE}]]
<1>1. SumFunctionOnSet(f, S) = (CHOOSE g : folded(g))[S]
  BY DEF SumFunctionOnSet, FoldFunctionOnSet, MapThenFoldSet
<1>2. ASSUME NEW g PROVE folded(g) <=> Sums(f, g, S)
  BY DEF Sums, Share
<1>3. \E g : folded(g)
  <2>1. \E g : Sums(f, g, S)
    BY SumExists
  <2> HIDE DEF folded
  <2> QED BY <1>2, <2>1
<1> DEFINE g == CHOOSE g : folded(g)
<1> HIDE DEF folded
<1>4. folded(g)
  BY <1>3
<1>5. Sums(f, g, S)
  BY <1>2, <1>4
<1> QED BY <1>1, <1>5

\* so the sum of a function is its sum over its domain
LEMMA FoldIsSum ==
    ASSUME NEW S, IsFiniteSet(S), NEW f, DOMAIN f = S
    PROVE  \E g : Sums(f, g, S) /\ SumFunction(f) = g[S]
BY FoldOnSetIsSum DEF SumFunction

\* a sum of natural numbers is one, and at least each of them
LEMMA SumsOfNats ==
    ASSUME NEW S, IsFiniteSet(S), NEW f, \A x \in S : f[x] \in Nat, NEW g, Sums(f, g, S)
    PROVE  g[S] \in Nat /\ \A x \in S : f[x] <= g[S]
<1> DEFINE bad == {n \in Nat : \E s \in SUBSET S : Cardinality(s) = n /\ g[s] \notin Nat}
<1>1. \A s \in SUBSET S : IsFiniteSet(s) /\ Cardinality(s) \in Nat
  BY FS_Subset, FS_CardinalityType
<1>2. ASSUME NEW n \in bad PROVE \E m \in bad : m < n
  <2>1. PICK s \in SUBSET S : Cardinality(s) = n /\ g[s] \notin Nat
    OBVIOUS
  <2>2. g[s] = Share(f, g, s)
    BY DEF Sums
  <2>3. s # {}
    BY <2>1, <2>2 DEF Share
  <2> DEFINE x == CHOOSE x \in s : TRUE
  <2>4. /\ x \in s /\ s \ {x} \in SUBSET S /\ Cardinality(s) \in Nat
        /\ Cardinality(s \ {x}) \in Nat /\ Cardinality(s) = Cardinality(s \ {x}) + 1
    BY <2>3, LessByOne
  <2>5. g[s] = f[x] + g[s \ {x}]
    BY <2>2, <2>3 DEF Share
  <2> HIDE DEF x
  <2>6. f[x] \in Nat
    BY <2>4
  <2>7. g[s \ {x}] \notin Nat
    BY <2>1, <2>5, <2>6
  <2> DEFINE t == s \ {x}
  <2>8. t \in SUBSET S /\ g[t] \notin Nat /\ Cardinality(t) \in Nat /\ Cardinality(t) < n
    BY <2>1, <2>4, <2>7
  <2> HIDE DEF t
  <2>9. Cardinality(t) \in bad
    BY <2>8
  <2> QED BY <2>8, <2>9
<1>3. bad = {}
  <2> SUFFICES ASSUME bad # {} PROVE FALSE
    OBVIOUS
  <2>1. bad \subseteq Nat /\ bad # {}
    OBVIOUS
  <2> HIDE DEF bad
  <2>2. PICK n \in bad : \A m \in bad : n <= m
    BY <2>1, NatLeast
  <2>3. PICK m \in bad : m < n
    BY <1>2
  <2>4. m \in Nat /\ n \in Nat /\ n <= m
    BY <2>1, <2>2
  <2> QED BY <2>3, <2>4
<1>4. \A s \in SUBSET S : g[s] \in Nat
  BY <1>1, <1>3
<1> HIDE DEF bad
<1>5. ASSUME NEW x \in S PROVE f[x] <= g[S]
  <2>1. Addable(f, g, S) /\ S \in SUBSET S
    BY DEF Addable
  <2>2. Splits(f, g, S, x)
    BY <2>1, SumsAny
  <2>3. PICK rest \in Nat : rest = g[S \ {x}]
    BY <1>4
  <2>4. PICK one \in Nat : one = f[x]
    OBVIOUS
  <2>5. g[S] = one + rest
    BY <2>2, <2>3, <2>4 DEF Splits
  <2> QED BY <2>4, <2>5
<1> QED BY <1>4, <1>5

Listed(f, n) == DOMAIN f = 1..n /\ Ints(f, n)

\* the sum of a sequence of integers
LEMMA SumIs ==
    ASSUME NEW n \in Nat, NEW f, Listed(f, n)
    PROVE  SumFunction(f) = Total(f, n)
<1>1. DOMAIN f = 1..n /\ Ints(f, n) /\ IsFiniteSet(1..n)
  BY FS_Interval DEF Listed
<1>2. PICK g : Sums(f, g, 1..n) /\ SumFunction(f) = g[1..n]
  BY <1>1, FoldIsSum
<1> QED BY <1>1, <1>2, SumIsTotal

\* two sets that have nothing in common
LEMMA DisjointUnion ==
    ASSUME NEW A, NEW B, IsFiniteSet(A), IsFiniteSet(B), A \cap B = {}
    PROVE  /\ IsFiniteSet(A \cup B) /\ Cardinality(A) \in Nat /\ Cardinality(B) \in Nat
           /\ Cardinality(A \cup B) = Cardinality(A) + Cardinality(B)
<1>1. PICK a \in Nat : a = Cardinality(A)
  BY FS_CardinalityType
<1>2. PICK b \in Nat : b = Cardinality(B)
  BY FS_CardinalityType
<1>3. /\ IsFiniteSet(A \cup B) /\ Cardinality(A \cap B) = 0
      /\ Cardinality(A \cup B) = Cardinality(A) + Cardinality(B) - Cardinality(A \cap B)
  BY FS_Union, FS_EmptySet
<1>4. Cardinality(A \cup B) = a + b - 0 /\ a + b - 0 = a + b
  BY <1>1, <1>2, <1>3
<1> QED BY <1>1, <1>2, <1>3, <1>4

Kind(W, h, T) == {w \in W : h[w] \in T}

\* counting the members of W of each kind counts those of some kind
LEMMA CountedByKind ==
    ASSUME NEW W, IsFiniteSet(W), NEW S, IsFiniteSet(S), NEW h, NEW f,
           f = [s \in S |-> Cardinality({w \in W : h[w] = s})]
    PROVE  SumFunction(f) = Cardinality(Kind(W, h, S))
<1>1. PICK g : Sums(f, g, S) /\ SumFunction(f) = g[S]
  BY FoldIsSum
<1> DEFINE size(T) == Cardinality(Kind(W, h, T))
<1> DEFINE bad == {n \in Nat : \E T \in SUBSET S : Cardinality(T) = n /\ g[T] # size(T)}
<1>2. \A T \in SUBSET S : IsFiniteSet(T) /\ Cardinality(T) \in Nat
  BY FS_Subset, FS_CardinalityType
<1>3. bad = {}
  <2> SUFFICES ASSUME bad # {} PROVE FALSE
    OBVIOUS
  <2>1. PICK n \in bad : \A m \in bad : n <= m
    <3>1. bad \subseteq Nat
      OBVIOUS
    <3> HIDE DEF bad
    <3> QED BY <3>1, NatLeast
  <2>2. PICK T \in SUBSET S : Cardinality(T) = n /\ g[T] # size(T)
    BY <2>1
  <2>3. g[T] = Share(f, g, T)
    BY <1>1 DEF Sums
  <2>4. T # {}
    <3>1. size({}) = 0
      BY FS_EmptySet DEF Kind
    <3> QED BY <2>2, <2>3, <3>1 DEF Share
  <2> DEFINE x == CHOOSE x \in T : TRUE
  <2>5. /\ x \in T /\ T \ {x} \in SUBSET S /\ Cardinality(T \ {x}) \in Nat
        /\ Cardinality(T) = Cardinality(T \ {x}) + 1
    BY <2>4, LessByOne
  <2>6. g[T] = f[x] + g[T \ {x}]
    BY <2>3, <2>4 DEF Share
  <2> HIDE DEF x
  <2>7. g[T \ {x}] = size(T \ {x})
    <3> DEFINE m == Cardinality(T \ {x})
    <3>1. m \in Nat /\ n = m + 1 /\ m \notin bad
      <4>1. m \in Nat /\ n = m + 1
        BY <2>2, <2>5
      <4> HIDE DEF bad, m
      <4> QED BY <2>1, <4>1
    <3> QED BY <2>5, <3>1
  <2>8. f[x] = Cardinality(Kind(W, h, {x}))
    <3>1. x \in S /\ Kind(W, h, {x}) = {w \in W : h[w] = x}
      BY <2>5 DEF Kind
    <3> QED BY <3>1
  <2>9. /\ Kind(W, h, T) = Kind(W, h, {x}) \cup Kind(W, h, T \ {x})
        /\ Kind(W, h, {x}) \cap Kind(W, h, T \ {x}) = {}
    BY <2>5 DEF Kind
  <2>10. IsFiniteSet(Kind(W, h, {x})) /\ IsFiniteSet(Kind(W, h, T \ {x}))
    <3>1. \A V : Kind(W, h, V) \subseteq W
      BY DEF Kind
    <3> QED BY <3>1, FS_Subset
  <2> HIDE DEF bad
  <2>11. size(T) = f[x] + size(T \ {x})
    BY <2>8, <2>9, <2>10, DisjointUnion
  <2> QED BY <2>2, <2>6, <2>7, <2>11
<1>4. \A T \in SUBSET S : g[T] = size(T)
  BY <1>2, <1>3
<1> QED BY <1>1, <1>4

\* no term, no sum
LEMMA TotalNone ==
    ASSUME NEW f
    PROVE  Total(f, 0) = 0
<1> DEFINE P == [i \in 0..0 |-> 0]
<1>1. Adds(f, P, 0) /\ P[0] = 0
  BY DEF Adds
<1> HIDE DEF P
<1> QED BY <1>1, TotalOf
=============================================================================
