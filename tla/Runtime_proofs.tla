--------------------------- MODULE Runtime_proofs ---------------------------
(***************************************************************************)
(* Theorems about Runtime, for every plan, shapes, batch size and policy,  *)
(* and about the Estimate that measures some of it, for every situation.   *)
(***************************************************************************)
EXTENDS Estimate, SequenceLemmas

-----------------------------------------------------------------------------
(* The invariant.                                                          *)

Ahead(V, W) == \A v \in V, w \in W : Earlier(v, w)

\* what is predicted, buffered and prepared is in plan order, and ahead of
\* what no worker has yielded
Ordered ==
    /\ InPlanOrder(batch) /\ InPlanOrder(buffer) /\ InPlanOrder(ready)
    /\ Ahead(Elements(batch), Elements(buffer))
    /\ Ahead(Elements(batch), Elements(ready))
    /\ Ahead(Elements(buffer), Elements(ready))
    /\ Ahead(Elements(batch) \cup Elements(buffer) \cup Elements(ready), Untaken)

\* The rows are those of the first items of the batch and the parts on the
\* stack cut the rest into pieces: part p ends where part p + 1 begins.
RowsOfBatch == \A k \in 1..Len(rows) : rows[k].work = batch[k]
Cut(off) ==
    /\ off \in [1..Len(stack) + 1 -> 0..Len(batch)]
    /\ off[1] = Len(rows) /\ off[Len(stack) + 1] = Len(batch)
    /\ \A p, q \in 1..Len(stack) + 1 : p < q => off[p] < off[q]
    /\ \A p \in 1..Len(stack) : stack[p] = SubSeq(batch, off[p] + 1, off[p + 1])
Predicting ==
    /\ pc = "pull" => batch = <<>> /\ rows = <<>>
    /\ pc \in {"pull", "predict", "outcome"} => done = 0
    /\ pc = "predict" => stack # <<>>
    /\ pc \in {"pull", "outcome", "write"} => stack = <<>>
    /\ stack # <<>> => RowsOfBatch /\ \E off : Cut(off)
    /\ pc = "outcome" => Len(rows) = Len(batch) /\ RowsOfBatch

\* the Rebatcher only holds items of one shape, and submits no more than the cap
OneShape(s) == \A v, w \in Elements(s) : Shape[v] = Shape[w]
Fitting == OneShape(buffer) /\ OneShape(batch) /\ Len(batch) <= InitialBatchSize

\* work that waits for its record: in the batch, or in a row not yet written
Waiting ==
    IF pc \in {"predict", "outcome"} THEN Elements(batch)
    ELSE IF pc = "write" THEN {rows[k].work : k \in (done + 1)..Len(rows)}
    ELSE {}
Queued == Untaken \cup Elements(buffer) \cup Elements(ready)

\* no row is about work that is still queued, or about that of another row
RowsApart ==
    pc = "write" =>
        /\ \A j, k \in 1..Len(rows) : rows[j].work = rows[k].work => j = k
        /\ \A k \in 1..Len(rows) : rows[k].work \notin Queued
RecordedOnce ==
    pc \notin Ended =>
        \A w \in Work : record[w] # Absent => w \notin Queued \cup Waiting

\* what fail_fast gives up is in rows that fail
Covered ==
    pc \notin Ended /\ ~Abandoning =>
        \A w \in Work : w \in Queued \cup Waiting \/ record[w] # Absent

CleanFirst ==
    pc \notin Ended /\ phase = "perturbed" => \A s \in Clean : record[s] # Absent

Failing ==
    fail_fast /\ pc \notin Ended /\ (\E w \in Work : record[w] \notin {"ok", Absent}) =>
        pc = "write" /\ \E k \in 1..Len(rows) : rows[k].status # "ok"

IInv == /\ TypeOK /\ Ordered /\ Predicting /\ Fitting /\ RowsApart
        /\ RecordedOnce /\ Covered /\ CleanFirst /\ Failing
-----------------------------------------------------------------------------
(* The plan.                                                               *)

\* elements and members of a sequence are the same
LEMMA ElementsAreMembers == ASSUME NEW s PROVE Elements(s) = Members(s)
BY DEF Elements, Members

\* samples and chunks of a plan are what they should be
LEMMA PlanTypes ==
    /\ Len(Samples) \in Nat /\ Len(Chunks) \in Nat
    /\ \A k \in 1..Len(Samples) : Samples[k] \in Clean
    /\ \A k \in 1..Len(Chunks) : /\ Chunks[k] \in Seq(Perturbed)
                                 /\ Len(Chunks[k]) \in Nat
                                 /\ Elements(Chunks[k]) \subseteq Perturbed
    /\ Clean \subseteq Work /\ Perturbed \subseteq Work /\ Clean \cap Perturbed = {}
<1>1. Samples \in Seq(Clean) /\ Chunks \in Seq(Seq(Perturbed))
  BY PlanAssumption
<1>2. Len(Samples) \in Nat /\ \A k \in 1..Len(Samples) : Samples[k] \in Clean
  BY <1>1, LenProperties, ElementOfSeq
<1>3. Len(Chunks) \in Nat /\ \A k \in 1..Len(Chunks) : Chunks[k] \in Seq(Perturbed)
  BY <1>1, LenProperties, ElementOfSeq
<1>4. \A k \in 1..Len(Chunks) : Elements(Chunks[k]) \subseteq Perturbed
  BY <1>3, MembersType, ElementsAreMembers
<1>5. \A k \in 1..Len(Chunks) : Len(Chunks[k]) \in Nat
  BY <1>3, LenProperties
<1>6. Clean \subseteq Work /\ Perturbed \subseteq Work /\ Clean \cap Perturbed = {}
  BY RuntimeAssumption DEF Work
<1> QED BY <1>2, <1>3, <1>4, <1>5, <1>6

\* what comes before something else is not that thing
LEMMA EarlierIsStrict ==
    ASSUME NEW v \in Work
    PROVE  ~Earlier(v, v)
<1>1. ~(v \in Clean /\ v \in Perturbed)
  BY PlanTypes
<1>2. ~\E j, k \in 1..Len(Samples) : j < k /\ Samples[j] = v /\ Samples[k] = v
  <2> SUFFICES ASSUME NEW j \in 1..Len(Samples), NEW k \in 1..Len(Samples), j < k,
                      Samples[j] = v, Samples[k] = v
               PROVE  FALSE
    OBVIOUS
  <2>1. j = k
    BY PlanAssumption
  <2> QED BY <2>1, PlanTypes
<1>3. ~\E j, k \in 1..Len(Chunks) : j < k /\ v \in Elements(Chunks[j]) /\ v \in Elements(Chunks[k])
  <2> SUFFICES ASSUME NEW j \in 1..Len(Chunks), NEW k \in 1..Len(Chunks), j < k,
                      v \in Elements(Chunks[j]), v \in Elements(Chunks[k])
               PROVE  FALSE
    OBVIOUS
  <2>1. PICK x \in 1..Len(Chunks[j]) : Chunks[j][x] = v
    BY DEF Elements
  <2>2. PICK y \in 1..Len(Chunks[k]) : Chunks[k][y] = v
    BY DEF Elements
  <2>3. j = k
    BY <2>1, <2>2, PlanAssumption
  <2> QED BY <2>3, PlanTypes
<1>4. ~\E c \in Elements(Chunks) : \E j, k \in 1..Len(c) : j < k /\ c[j] = v /\ c[k] = v
  <2> SUFFICES ASSUME NEW n \in 1..Len(Chunks), NEW j \in 1..Len(Chunks[n]),
                      NEW k \in 1..Len(Chunks[n]), j < k,
                      Chunks[n][j] = v, Chunks[n][k] = v
               PROVE  FALSE
    BY DEF Elements
  <2>1. j = k
    BY PlanAssumption
  <2> QED BY <2>1, PlanTypes
<1> QED BY <1>1, <1>2, <1>3, <1>4 DEF Earlier

\* of two sets of work one of which is ahead of the other nothing is in both
LEMMA AheadIsApart ==
    ASSUME NEW V, NEW W, V \subseteq Work, Ahead(V, W)
    PROVE  V \cap W = {}
BY EarlierIsStrict DEF Ahead

\* work in plan order is there once
LEMMA NoTwice ==
    ASSUME NEW s \in Seq(Work), InPlanOrder(s), NEW j \in 1..Len(s), NEW k \in 1..Len(s),
           s[j] = s[k]
    PROVE  j = k
<1>1. Len(s) \in Nat /\ s[j] \in Work
  BY LenProperties, ElementOfSeq
<1>2. ~(j < k) /\ ~(k < j)
  BY <1>1, EarlierIsStrict DEF InPlanOrder
<1> QED BY <1>1, <1>2

-----------------------------------------------------------------------------
(* Order survives what the Rebatcher does to its sequences.                *)

\* nothing is in plan order
LEMMA OrderOfEmpty == InPlanOrder(<<>>)
BY DEF InPlanOrder

\* one piece of work is in plan order
LEMMA OrderOfOne == ASSUME NEW x PROVE InPlanOrder(<<x>>)
BY DEF InPlanOrder

\* later work may be appended
LEMMA OrderOfAppend ==
    ASSUME NEW s \in Seq(Work), NEW x \in Work, InPlanOrder(s), Ahead(Elements(s), {x})
    PROVE  InPlanOrder(Append(s, x))
<1> DEFINE t == Append(s, x)
<1>1. /\ Len(s) \in Nat /\ Len(t) = Len(s) + 1
      /\ \A i \in 1..Len(s) : t[i] = s[i]
      /\ t[Len(s) + 1] = x
  BY AppendProperties, LenProperties
<1> HIDE DEF t
<1>2. ASSUME NEW j \in 1..Len(t), NEW k \in 1..Len(t), j < k
      PROVE  Earlier(t[j], t[k])
  <2>1. j \in 1..Len(s) /\ t[j] = s[j] /\ s[j] \in Elements(s)
    BY <1>1, <1>2 DEF Elements
  <2>2. CASE k = Len(s) + 1
    BY <1>1, <2>1, <2>2 DEF Ahead
  <2>3. CASE k # Len(s) + 1
    <3>1. k \in 1..Len(s)
      BY <1>1, <2>3
    <3> QED BY <1>1, <1>2, <2>1, <3>1 DEF InPlanOrder
  <2> QED BY <2>2, <2>3
<1> QED BY <1>2 DEF InPlanOrder, t

\* what follows the first piece of work is in order, and after it
LEMMA OrderOfTail ==
    ASSUME NEW s \in Seq(Work), s # <<>>, InPlanOrder(s)
    PROVE  /\ InPlanOrder(Tail(s)) /\ Ahead({s[1]}, Elements(Tail(s)))
           /\ Elements(s) = {s[1]} \cup Elements(Tail(s))
<1> DEFINE t == Tail(s)
<1>1. /\ Len(s) \in Nat \ {0} /\ Len(t) = Len(s) - 1
      /\ \A i \in 1..Len(s) - 1 : t[i] = s[i + 1]
      /\ Elements(s) = {s[1]} \cup Elements(t)
  BY HeadAndTail, ElementsAreMembers
<1> HIDE DEF t
<1>2. ASSUME NEW i \in 1..Len(t) PROVE i + 1 \in 1..Len(s) /\ t[i] = s[i + 1] /\ 1 < i + 1
  BY <1>1
<1>3. InPlanOrder(t)
  <2> SUFFICES ASSUME NEW j \in 1..Len(t), NEW k \in 1..Len(t), j < k
               PROVE  Earlier(t[j], t[k])
    BY DEF InPlanOrder
  <2>1. j + 1 < k + 1
    BY <1>1
  <2> QED BY <1>2, <2>1 DEF InPlanOrder
<1>4. Ahead({s[1]}, Elements(t))
  BY <1>1, <1>2 DEF Ahead, InPlanOrder, Elements
<1> QED BY <1>1, <1>3, <1>4 DEF t

\* cut where the cap is reached
LEMMA OrderOfPieces ==
    ASSUME NEW s \in Seq(Work), InPlanOrder(s), NEW n \in 0..Len(s)
    PROVE  /\ SubSeq(s, 1, n) \in Seq(Work) /\ Len(SubSeq(s, 1, n)) = n
           /\ Suffix(s, n) \in Seq(Work) /\ Len(Suffix(s, n)) = Len(s) - n
           /\ InPlanOrder(SubSeq(s, 1, n)) /\ InPlanOrder(Suffix(s, n))
           /\ Ahead(Elements(SubSeq(s, 1, n)), Elements(Suffix(s, n)))
           /\ Elements(s) = Elements(SubSeq(s, 1, n)) \cup Elements(Suffix(s, n))
<1> DEFINE t == SubSeq(s, 1, n)
<1> DEFINE u == Suffix(s, n)
<1>0. Len(s) \in Nat /\ n \in Nat /\ n <= Len(s)
  BY LenProperties
<1>1. /\ t \in Seq(Work) /\ Len(t) = n /\ \A k \in 1..n : t[k] = s[k]
      /\ Elements(t) = {s[k] : k \in 1..n}
  <2>1. 0 \in 0..Len(s) /\ n \in 0..Len(s) /\ 0 + 1 = 1 /\ n - 0 = n
    BY <1>0
  <2>2. /\ SubSeq(s, 0 + 1, n) \in Seq(Work) /\ Len(SubSeq(s, 0 + 1, n)) = n - 0
        /\ \A k \in 1..n - 0 : SubSeq(s, 0 + 1, n)[k] = s[0 + k]
        /\ Elements(SubSeq(s, 0 + 1, n)) = {s[k] : k \in 0 + 1..n}
    BY <2>1, Piece, ElementsAreMembers
  <2>3. \A k \in 1..n : 0 + k = k
    BY <1>0
  <2> QED BY <2>1, <2>2, <2>3
<1>2. /\ u \in Seq(Work) /\ Len(u) = Len(s) - n /\ \A k \in 1..Len(s) - n : u[k] = s[n + k]
      /\ Elements(u) = {s[k] : k \in n + 1..Len(s)}
  <2>1. Len(s) \in n..Len(s)
    BY <1>0
  <2> QED BY <2>1, Piece, ElementsAreMembers DEF Suffix
<1> HIDE DEF t, u
<1>3. InPlanOrder(t)
  BY <1>0, <1>1 DEF InPlanOrder
<1>4. InPlanOrder(u)
  <2> SUFFICES ASSUME NEW j \in 1..Len(u), NEW k \in 1..Len(u), j < k
               PROVE  Earlier(u[j], u[k])
    BY DEF InPlanOrder
  <2>1. /\ n + j \in 1..Len(s) /\ n + k \in 1..Len(s) /\ n + j < n + k
        /\ u[j] = s[n + j] /\ u[k] = s[n + k]
    BY <1>0, <1>2
  <2> QED BY <2>1 DEF InPlanOrder
<1>5. Ahead(Elements(t), Elements(u))
  BY <1>0, <1>1, <1>2 DEF Ahead, InPlanOrder
<1>6. Elements(s) = Elements(t) \cup Elements(u)
  <2>1. 1..Len(s) = (1..n) \cup (n + 1..Len(s))
    BY <1>0
  <2>2. Elements(s) = {s[k] : k \in 1..Len(s)}
    BY DEF Elements
  <2> QED BY <1>1, <1>2, <2>1, <2>2
<1> QED BY <1>1, <1>2, <1>3, <1>4, <1>5, <1>6 DEF t, u

\* work may be joined with work that it is ahead of
LEMMA OrderOfConcat ==
    ASSUME NEW s \in Seq(Work), NEW t \in Seq(Work), InPlanOrder(s), InPlanOrder(t),
           Ahead(Elements(s), Elements(t))
    PROVE  InPlanOrder(s \o t)
<1> DEFINE u == s \o t
<1>1. /\ Len(s) \in Nat /\ Len(t) \in Nat /\ Len(u) = Len(s) + Len(t)
      /\ \A i \in 1..Len(s) + Len(t) : u[i] = IF i <= Len(s) THEN s[i] ELSE t[i - Len(s)]
  BY ConcatProperties, LenProperties
<1> HIDE DEF u
<1> SUFFICES ASSUME NEW j \in 1..Len(u), NEW k \in 1..Len(u), j < k
             PROVE  Earlier(u[j], u[k])
  BY DEF InPlanOrder, u
<1>2. CASE k <= Len(s)
  <2>1. j \in 1..Len(s) /\ k \in 1..Len(s) /\ u[j] = s[j] /\ u[k] = s[k]
    BY <1>1, <1>2
  <2> QED BY <2>1 DEF InPlanOrder
<1>3. CASE j <= Len(s) /\ ~(k <= Len(s))
  <2>1. /\ j \in 1..Len(s) /\ k - Len(s) \in 1..Len(t)
        /\ u[j] = s[j] /\ u[k] = t[k - Len(s)]
    BY <1>1, <1>3
  <2> QED BY <2>1 DEF Ahead, Elements
<1>4. CASE ~(j <= Len(s))
  <2>1. /\ j - Len(s) \in 1..Len(t) /\ k - Len(s) \in 1..Len(t) /\ j - Len(s) < k - Len(s)
        /\ u[j] = t[j - Len(s)] /\ u[k] = t[k - Len(s)]
    BY <1>1, <1>4
  <2> QED BY <2>1 DEF InPlanOrder
<1> QED BY <1>1, <1>2, <1>3, <1>4

-----------------------------------------------------------------------------
(* What Those does to an ordered sequence of work.                         *)

\* a selection of ordered work is in order
LEMMA ThoseFacts ==
    ASSUME NEW s \in Seq(Work), NEW S, InPlanOrder(s)
    PROVE  /\ Those(s, S) \in Seq(Work) /\ InPlanOrder(Those(s, S))
           /\ Elements(Those(s, S)) = Elements(s) \cap S
<1> DEFINE t == Those(s, S)
<1>1. t \in Seq(Work) /\ Picks(t, s, S, Len(s))
  BY ThosePicks
<1> HIDE DEF t
<1>2. PICK e \in [1..Len(t) -> 1..Len(s)] :
        /\ \A i, j \in 1..Len(t) : i < j => e[i] < e[j]
        /\ \A i \in 1..Len(t) : t[i] = s[e[i]] /\ t[i] \in S
        /\ \A k \in 1..Len(s) : s[k] \in S => \E i \in 1..Len(t) : e[i] = k
  BY <1>1 DEF Picks
<1>3. InPlanOrder(t)
  BY <1>2 DEF InPlanOrder
<1>4. Elements(t) \subseteq Elements(s) \cap S
  BY <1>2 DEF Elements
<1>5. Elements(s) \cap S \subseteq Elements(t)
  <2> SUFFICES ASSUME NEW k \in 1..Len(s), s[k] \in S PROVE s[k] \in Elements(t)
    BY DEF Elements
  <2>1. PICK i \in 1..Len(t) : e[i] = k
    BY <1>2
  <2>2. t[i] = s[k]
    BY <1>2, <2>1
  <2> QED BY <2>2 DEF Elements
<1> QED BY <1>1, <1>3, <1>4, <1>5 DEF t

-----------------------------------------------------------------------------
(* Taking a unit from the workers.                                         *)

\* what no worker has yielded after n units of this phase
UntakenAfter(n) == (UNION {Elements(Units[k]) : k \in (n + 1)..Len(Units)})
                   \cup IF phase = "clean" THEN Perturbed ELSE {}

\* a phase takes single samples or chunks
LEMMA UnitsOfPhase ==
    ASSUME phase \in {"clean", "perturbed"}
    PROVE  /\ Len(Units) \in Nat
           /\ phase = "clean" => /\ Len(Units) = Len(Samples)
                                 /\ \A k \in 1..Len(Units) : Units[k] = <<Samples[k]>>
           /\ phase = "perturbed" => Units = Chunks
           /\ \A k \in 1..Len(Units) : Units[k] \in Seq(Work) /\ InPlanOrder(Units[k])
           /\ \A j, k \in 1..Len(Units) : j < k => Ahead(Elements(Units[j]), Elements(Units[k]))
<1>1. CASE phase = "clean"
  <2> DEFINE one == [k \in 1..Len(Samples) |-> <<Samples[k]>>]
  <2>1. Units = one
    BY <1>1 DEF Units
  <2>2. Len(one) = Len(Samples)
    BY PlanTypes
  <2>3. \A k \in 1..Len(Samples) : one[k] = <<Samples[k]>>
    OBVIOUS
  <2>4. \A k \in 1..Len(Samples) : <<Samples[k]>> \in Seq(Work) /\ InPlanOrder(<<Samples[k]>>)
    BY PlanTypes, OrderOfOne
  <2>5. \A j, k \in 1..Len(Samples) : j < k => Ahead(Elements(<<Samples[j]>>), Elements(<<Samples[k]>>))
    <3> SUFFICES ASSUME NEW j \in 1..Len(Samples), NEW k \in 1..Len(Samples), j < k
                 PROVE  Ahead(Elements(<<Samples[j]>>), Elements(<<Samples[k]>>))
      OBVIOUS
    <3>1. Earlier(Samples[j], Samples[k])
      BY DEF Earlier
    <3>2. Elements(<<Samples[j]>>) = {Samples[j]} /\ Elements(<<Samples[k]>>) = {Samples[k]}
      BY MembersOfOne, ElementsAreMembers
    <3> QED BY <3>1, <3>2 DEF Ahead
  <2> HIDE DEF one
  <2> QED BY <1>1, <2>1, <2>2, <2>3, <2>4, <2>5, PlanTypes
<1>2. CASE phase = "perturbed"
  <2>1. Units = Chunks
    BY <1>2 DEF Units
  <2>2. ASSUME NEW k \in 1..Len(Chunks)
        PROVE  Chunks[k] \in Seq(Work) /\ InPlanOrder(Chunks[k])
    <3>1. Chunks[k] \in Seq(Work)
      BY PlanTypes, SeqMonotonic
    <3>2. Chunks[k] \in Elements(Chunks)
      BY DEF Elements
    <3> QED BY <3>1, <3>2 DEF InPlanOrder, Earlier
  <2>3. \A j, k \in 1..Len(Chunks) : j < k => Ahead(Elements(Chunks[j]), Elements(Chunks[k]))
    BY DEF Ahead, Earlier
  <2> QED BY <1>2, <2>1, <2>2, <2>3, PlanTypes
<1> QED BY <1>1, <1>2

\* The unit is in order, ahead of what stays untaken, and no longer untaken.
LEMMA TakeUnit ==
    ASSUME phase \in {"clean", "perturbed"}, taken \in 0..Len(Units), ~Exhausted
    PROVE  /\ NextUnit \in Seq(Work) /\ InPlanOrder(NextUnit)
           /\ taken + 1 \in 0..Len(Units)
           /\ Untaken = Elements(NextUnit) \cup UntakenAfter(taken + 1)
           /\ Ahead(Elements(NextUnit), UntakenAfter(taken + 1))
           /\ UntakenAfter(taken + 1) \subseteq Work
<1>1. taken + 1 \in 1..Len(Units) /\ taken + 1 \in 0..Len(Units)
  BY UnitsOfPhase DEF Exhausted
<1>2. NextUnit = Units[taken + 1] /\ NextUnit \in Seq(Work) /\ InPlanOrder(NextUnit)
  BY <1>1, UnitsOfPhase DEF NextUnit
<1>3. (taken + 1)..Len(Units) = {taken + 1} \cup ((taken + 1) + 1)..Len(Units)
  BY <1>1
<1>4. Untaken = Elements(NextUnit) \cup UntakenAfter(taken + 1)
  BY <1>2, <1>3 DEF Untaken, UntakenAfter
<1>5. ASSUME NEW k \in ((taken + 1) + 1)..Len(Units)
      PROVE  k \in 1..Len(Units) /\ taken + 1 < k
  BY <1>1, UnitsOfPhase
<1>6. \A k \in ((taken + 1) + 1)..Len(Units) :
          Elements(Units[k]) \subseteq Work /\ Ahead(Elements(NextUnit), Elements(Units[k]))
  BY <1>1, <1>2, <1>5, UnitsOfPhase, MembersType, ElementsAreMembers
<1>7. phase = "clean" => Ahead(Elements(NextUnit), Perturbed)
  <2> SUFFICES ASSUME phase = "clean" PROVE Ahead(Elements(NextUnit), Perturbed)
    OBVIOUS
  <2>1. NextUnit = <<Samples[taken + 1]>> /\ Samples[taken + 1] \in Clean
    BY <1>1, <1>2, UnitsOfPhase, PlanTypes
  <2>2. Elements(NextUnit) = {Samples[taken + 1]}
    BY <2>1, MembersOfOne, ElementsAreMembers
  <2> QED BY <2>1, <2>2 DEF Ahead, Earlier
<1>8. ASSUME NEW w \in UntakenAfter(taken + 1)
      PROVE  w \in Work /\ Ahead(Elements(NextUnit), {w})
  <2>1. CASE phase = "clean" /\ w \in Perturbed
    BY <1>7, <2>1, PlanTypes DEF Ahead
  <2>2. CASE \E k \in ((taken + 1) + 1)..Len(Units) : w \in Elements(Units[k])
    BY <1>6, <2>2 DEF Ahead
  <2>3. \/ phase = "clean" /\ w \in Perturbed
        \/ w \in UNION {Elements(Units[k]) : k \in ((taken + 1) + 1)..Len(Units)}
    BY DEF UntakenAfter
  <2> QED BY <2>1, <2>2, <2>3
<1>9. Ahead(Elements(NextUnit), UntakenAfter(taken + 1)) /\ UntakenAfter(taken + 1) \subseteq Work
  BY <1>8 DEF Ahead
<1> QED BY <1>1, <1>2, <1>4, <1>9

-----------------------------------------------------------------------------
(* What the invariant says of the state it holds in.                       *)

\* the first cap is within target and limit
LEMMA BatchSizes ==
    /\ InitialBatchSize \in Nat \ {0} /\ InitialBatchSize <= TargetBatchSize
    /\ MaxBatchSize # NoLimit => InitialBatchSize <= MaxBatchSize
BY RuntimeAssumption DEF InitialBatchSize, Smaller

\* batch, buffer and prepared work are sequences of work
LEMMA TypesOfQueues ==
    ASSUME TypeOK
    PROVE  /\ batch \in Seq(Work) /\ buffer \in Seq(Work) /\ ready \in Seq(Work)
           /\ Len(batch) \in Nat /\ Len(buffer) \in Nat /\ Len(ready) \in Nat
           /\ Elements(batch) \subseteq Work /\ Elements(buffer) \subseteq Work
           /\ Elements(ready) \subseteq Work /\ Untaken \subseteq Work
           /\ Queued \subseteq Work
<1>1. batch \in Seq(Work) /\ buffer \in Seq(Work) /\ ready \in Seq(Work)
  BY DEF TypeOK
<1>2. /\ Elements(batch) \subseteq Work /\ Elements(buffer) \subseteq Work
      /\ Elements(ready) \subseteq Work
  BY <1>1, MembersType, ElementsAreMembers
<1>3. phase \in {"clean", "perturbed"} /\ taken \in Nat
  BY UnitsOfPhase DEF TypeOK
<1>4. \A k \in 1..Len(Units) : Elements(Units[k]) \subseteq Work
  BY <1>3, UnitsOfPhase, MembersType, ElementsAreMembers
<1>5. \A k \in (taken + 1)..Len(Units) : k \in 1..Len(Units)
  BY <1>3, UnitsOfPhase
<1>6. Untaken \subseteq Work
  BY <1>4, <1>5, PlanTypes DEF Untaken
<1> QED BY <1>1, <1>2, <1>6, LenProperties DEF Queued

\* a row has a piece of work and a status
LEMMA TypesOfRows ==
    ASSUME TypeOK
    PROVE  /\ Len(rows) \in Nat /\ done \in Nat /\ done <= Len(rows)
           /\ \A k \in 1..Len(rows) : rows[k].work \in Work /\ rows[k].status \in Statuses
<1>1. rows \in Seq([work: Work, status: Statuses]) /\ done \in 0..Len(rows)
  BY DEF TypeOK
<1>2. Len(rows) \in Nat /\ \A k \in 1..Len(rows) : rows[k] \in [work: Work, status: Statuses]
  BY <1>1, LenProperties, ElementOfSeq
<1> QED BY <1>1, <1>2

\* nothing is in two of the queues
LEMMA QueuesApart ==
    ASSUME TypeOK, Ordered
    PROVE  /\ Elements(batch) \cap Queued = {}
           /\ Elements(buffer) \cap Elements(ready) = {}
           /\ Elements(buffer) \cap Untaken = {} /\ Elements(ready) \cap Untaken = {}
<1>1. /\ Elements(batch) \cap Elements(buffer) = {}
      /\ Elements(batch) \cap Elements(ready) = {}
      /\ Elements(buffer) \cap Elements(ready) = {}
  BY TypesOfQueues, AheadIsApart DEF Ordered
<1>2. Elements(batch) \cup Elements(buffer) \cup Elements(ready) \subseteq Work
  BY TypesOfQueues
<1>3. (Elements(batch) \cup Elements(buffer) \cup Elements(ready)) \cap Untaken = {}
  BY <1>2, AheadIsApart DEF Ordered
<1> QED BY <1>1, <1>3 DEF Queued

\* between two batches nothing is predicted
LEMMA AtPull ==
    ASSUME IInv, pc = "pull"
    PROVE  /\ batch = <<>> /\ stack = <<>> /\ rows = <<>> /\ done = 0
           /\ Elements(batch) = {} /\ ~Abandoning
           /\ \A w \in Work : record[w] # Absent => w \notin Queued
           /\ \A w \in Work : w \in Queued \/ record[w] # Absent
           /\ fail_fast => \A w \in Work : record[w] \in {"ok", Absent}
           /\ phase = "perturbed" => \A s \in Clean : record[s] # Absent
<1>1. batch = <<>> /\ stack = <<>> /\ rows = <<>> /\ done = 0
  BY DEF IInv, Predicting
<1>2. Elements(batch) = {}
  BY <1>1, MembersOfEmpty, ElementsAreMembers
<1>3. ~Abandoning
  BY <1>1 DEF Abandoning
<1>4. pc \notin Ended /\ Waiting = {}
  BY DEF Ended, Waiting
<1> QED BY <1>1, <1>2, <1>3, <1>4 DEF IInv, RecordedOnce, Covered, Failing, CleanFirst

-----------------------------------------------------------------------------
(* The steps of the workers and the pipeline.                              *)

\* a row for each piece of work, with the same status
LEMMA MarkedRows ==
    ASSUME NEW s \in Seq(Work), NEW status \in Statuses
    PROVE  /\ Marked(s, status) \in Seq([work: Work, status: Statuses])
           /\ Len(Marked(s, status)) = Len(s) /\ Len(s) \in Nat
           /\ \A k \in 1..Len(s) : /\ Marked(s, status)[k].work = s[k]
                                   /\ Marked(s, status)[k].status = status
           /\ {Marked(s, status)[k].work : k \in 1..Len(Marked(s, status))} = Elements(s)
<1> DEFINE m == [k \in 1..Len(s) |-> [work |-> s[k], status |-> status]]
<1>1. Len(s) \in Nat /\ \A k \in 1..Len(s) : s[k] \in Work
  BY LenProperties, ElementOfSeq
<1>2. \A k \in 1..Len(s) : m[k] = [work |-> s[k], status |-> status]
  OBVIOUS
<1>3. m \in Seq([work: Work, status: Statuses]) /\ Len(m) = Len(s)
  BY <1>1
<1>4. m = Marked(s, status)
  BY DEF Marked
<1>5. \A k \in 1..Len(s) : m[k].work = s[k] /\ m[k].status = status
  OBVIOUS
<1> HIDE DEF m
<1>6. {m[k].work : k \in 1..Len(m)} = Elements(s)
  BY <1>3, <1>5 DEF Elements
<1> QED BY <1>1, <1>3, <1>4, <1>5, <1>6

\* a unit that is taken was the next of the work not taken
LEMMA Take1 ==
    ASSUME TypeOK, ~Exhausted, Take
    PROVE  /\ NextUnit \in Seq(Work) /\ InPlanOrder(NextUnit)
           /\ phase' = phase /\ phase' \in {"clean", "perturbed"}
           /\ taken' \in 0..Len(Units')
           /\ Untaken = Elements(NextUnit) \cup Untaken'
           /\ Ahead(Elements(NextUnit), Untaken')
           /\ Elements(NextUnit) \subseteq Work /\ Untaken' \subseteq Work
           /\ Elements(NextUnit) \cap Untaken' = {}
<1>1. phase \in {"clean", "perturbed"} /\ taken \in 0..Len(Units)
  BY DEF TypeOK
<1>2. phase' = phase /\ taken' = taken + 1 /\ Units' = Units
  BY DEF Take, Units
<1>3. Untaken' = UntakenAfter(taken + 1)
  BY <1>2 DEF Untaken, UntakenAfter
<1>4. /\ NextUnit \in Seq(Work) /\ InPlanOrder(NextUnit)
      /\ taken + 1 \in 0..Len(Units)
      /\ Untaken = Elements(NextUnit) \cup UntakenAfter(taken + 1)
      /\ Ahead(Elements(NextUnit), UntakenAfter(taken + 1))
      /\ UntakenAfter(taken + 1) \subseteq Work
  BY <1>1, TakeUnit
<1>5. Elements(NextUnit) \subseteq Work
  BY <1>4, MembersType, ElementsAreMembers
<1>6. Elements(NextUnit) \cap UntakenAfter(taken + 1) = {}
  BY <1>4, <1>5, AheadIsApart
<1> QED BY <1>1, <1>2, <1>3, <1>4, <1>5, <1>6

\* Whatever becomes of a unit: some of it is prepared, the rest is in rows,
\* each of its members once, or the run gives it up.
LEMMA TakeStep ==
    ASSUME IInv, Pulling, Take,
           UNCHANGED <<buffer, batch, stack, cap, written, request>>,
           pc' \in {"pull", "write", "cancelled"}, pc' = "pull" => rows' = <<>>,
           ready' \in Seq(Work), InPlanOrder(ready'),
           Elements(ready') \subseteq Elements(NextUnit),
           rows' \in Seq([work: Work, status: Statuses]),
           pc' = "write" =>
              /\ \A j, k \in 1..Len(rows') : rows'[j].work = rows'[k].work => j = k
              /\ \A k \in 1..Len(rows') : rows'[k].work \in Elements(NextUnit) \ Elements(ready'),
           \/ pc' = "cancelled" \/ Abandoning'
           \/ Elements(NextUnit) \subseteq Elements(ready') \cup {rows'[k].work : k \in 1..Len(rows')}
    PROVE  IInv'
<1>1. /\ pc = "pull" /\ ready = <<>> /\ ~Exhausted /\ TypeOK /\ Ordered
      /\ buffer' = buffer /\ batch' = batch /\ stack' = stack /\ cap' = cap
      /\ done' = done /\ record' = record /\ token' = token /\ fail_fast' = fail_fast
  BY DEF Pulling, IInv, written, request
<1>2. /\ batch = <<>> /\ stack = <<>> /\ rows = <<>> /\ done = 0
      /\ Elements(batch) = {} /\ ~Abandoning
      /\ \A w \in Work : record[w] # Absent => w \notin Queued
      /\ \A w \in Work : w \in Queued \/ record[w] # Absent
      /\ fail_fast => \A w \in Work : record[w] \in {"ok", Absent}
      /\ phase = "perturbed" => \A s \in Clean : record[s] # Absent
  BY <1>1, AtPull
<1>3. /\ phase' = phase /\ phase' \in {"clean", "perturbed"}
      /\ taken' \in 0..Len(Units')
      /\ Untaken = Elements(NextUnit) \cup Untaken'
      /\ Ahead(Elements(NextUnit), Untaken')
      /\ Elements(NextUnit) \cap Untaken' = {}
  BY <1>1, Take1
<1>4. Elements(ready) = {} /\ Elements(buffer) \cap Untaken = {}
  BY <1>1, MembersOfEmpty, ElementsAreMembers, QueuesApart
<1>5. /\ Queued = Untaken \cup Elements(buffer)
      /\ Queued' = Untaken' \cup Elements(buffer) \cup Elements(ready')
  BY <1>1, <1>4 DEF Queued
<1>6. /\ Waiting' = IF pc' = "write" THEN {rows'[k].work : k \in 1..Len(rows')} ELSE {}
      /\ pc' # "write" => Waiting' = {}
  <2>1. done' + 1 = 1
    BY <1>1, <1>2
  <2> QED BY <2>1 DEF Waiting
<1>7. TypeOK'
  <2>1. Len(rows') \in Nat
    BY LenProperties
  <2>2. done' \in 0..Len(rows')
    BY <1>1, <1>2, <2>1
  <2>3. pc' \in {"pull", "predict", "outcome", "write"} \cup Ended
    BY DEF Ended
  <2> QED BY <1>1, <1>3, <2>2, <2>3 DEF TypeOK
<1>8. Ordered'
  <2>1. Ahead(Elements(buffer), Untaken)
    BY <1>1 DEF Ordered, Ahead
  <2>2. Ahead(Elements(buffer), Elements(ready'))
    BY <1>3, <2>1 DEF Ahead
  <2>3. Ahead(Elements(batch) \cup Elements(buffer) \cup Elements(ready'), Untaken')
    BY <1>2, <1>3, <2>1 DEF Ahead
  <2>4. Ahead(Elements(batch), Elements(ready'))
    BY <1>2 DEF Ahead
  <2> QED BY <1>1, <2>2, <2>3, <2>4 DEF Ordered
<1>9. Predicting'
  BY <1>1, <1>2 DEF Predicting
<1>10. Fitting'
  BY <1>1 DEF IInv, Fitting
<1>11. RowsApart'
  BY <1>3, <1>4, <1>5 DEF RowsApart
<1>12. Waiting' \subseteq Elements(NextUnit)
  BY <1>6
<1>13. RecordedOnce'
  BY <1>1, <1>2, <1>3, <1>5, <1>12 DEF RecordedOnce
<1>14. Covered'
  <2> SUFFICES ASSUME pc' \notin Ended, ~Abandoning', NEW w \in Work, record[w] = Absent
               PROVE  w \in Queued' \cup Waiting'
    BY <1>1 DEF Covered
  <2>1. pc' \in {"pull", "write"}
    BY DEF Ended
  <2>2. Elements(NextUnit) \subseteq Elements(ready') \cup Waiting'
    <3>1. CASE pc' = "write"
      BY <1>6, <2>1, <3>1
    <3>2. CASE pc' = "pull"
      <4>1. {rows'[k].work : k \in 1..Len(rows')} = {}
        BY <3>2
      <4> QED BY <2>1, <3>2, <4>1
    <3> QED BY <2>1, <3>1, <3>2
  <2>3. w \in Untaken \cup Elements(buffer)
    BY <1>2, <1>5
  <2> QED BY <1>3, <1>5, <2>2, <2>3
<1>15. CleanFirst'
  BY <1>1, <1>2, <1>3 DEF CleanFirst
<1>16. Failing'
  BY <1>1, <1>2 DEF Failing
<1> QED BY <1>7, <1>8, <1>9, <1>10, <1>11, <1>13, <1>14, <1>15, <1>16 DEF IInv

\* a run that sees the cancellation keeps the invariant
LEMMA Seen ==
    ASSUME IInv, Pulling, SeeCancel
    PROVE  IInv'
<1>1. /\ TypeOK /\ Take /\ ready = <<>> /\ rows = <<>> /\ pc' = "cancelled"
      /\ ready' = ready /\ rows' = rows
      /\ UNCHANGED <<buffer, batch, stack, cap, written, request>>
  BY AtPull DEF IInv, Pulling, SeeCancel, batching
<1>2. Elements(ready') = {}
  BY <1>1, MembersOfEmpty, ElementsAreMembers
<1>3. /\ ready' \in Seq(Work) /\ InPlanOrder(ready')
      /\ rows' \in Seq([work: Work, status: Statuses])
  BY <1>1, OrderOfEmpty DEF TypeOK
<1> QED BY <1>1, <1>2, <1>3, TakeStep

\* so does a sample that does not load
LEMMA LoadStep ==
    ASSUME IInv, Pulling, LoadFails
    PROVE  IInv'
<1>1. /\ TypeOK /\ Take /\ ready = <<>> /\ pc' = "write" /\ ready' = ready /\ ~Exhausted
      /\ rows' = Marked(NextUnit, "load_failed")
      /\ UNCHANGED <<buffer, batch, stack, cap, written, request>>
  BY DEF IInv, Pulling, LoadFails, batching
<1>2. NextUnit \in Seq(Work) /\ InPlanOrder(NextUnit)
  BY <1>1, Take1
<1>3. "load_failed" \in Statuses
  BY DEF Statuses, Failures
<1>4. /\ rows' \in Seq([work: Work, status: Statuses]) /\ Len(rows') = Len(NextUnit)
      /\ \A k \in 1..Len(NextUnit) : rows'[k].work = NextUnit[k]
      /\ {rows'[k].work : k \in 1..Len(rows')} = Elements(NextUnit)
  <2> DEFINE m == Marked(NextUnit, "load_failed")
  <2>1. /\ m \in Seq([work: Work, status: Statuses]) /\ Len(m) = Len(NextUnit)
        /\ \A k \in 1..Len(NextUnit) : m[k].work = NextUnit[k]
        /\ {m[k].work : k \in 1..Len(m)} = Elements(NextUnit)
    BY <1>2, <1>3, MarkedRows
  <2>2. rows' = m
    BY <1>1
  <2> HIDE DEF m
  <2> QED BY <2>1, <2>2
<1>5. Elements(ready') = {} /\ InPlanOrder(ready') /\ ready' \in Seq(Work)
  BY <1>1, MembersOfEmpty, ElementsAreMembers, OrderOfEmpty DEF TypeOK
<1>6. \A j, k \in 1..Len(rows') : rows'[j].work = rows'[k].work => j = k
  BY <1>2, <1>4, NoTwice
<1>7. \A k \in 1..Len(rows') : rows'[k].work \in Elements(NextUnit) \ Elements(ready')
  BY <1>4, <1>5
<1> QED BY <1>1, <1>4, <1>5, <1>6, <1>7, TakeStep

\* a sample that does
LEMMA SampleStep ==
    ASSUME IInv, Pulling, LoadSample
    PROVE  IInv'
<1>1. /\ TypeOK /\ Take /\ pc = "pull" /\ pc' = pc /\ ready' = NextUnit /\ ~Exhausted
      /\ rows' = rows /\ rows = <<>>
      /\ UNCHANGED <<buffer, batch, stack, cap, written, request>>
  BY AtPull DEF IInv, Pulling, LoadSample, batching
<1>2. NextUnit \in Seq(Work) /\ InPlanOrder(NextUnit)
  BY <1>1, Take1
<1>3. rows' \in Seq([work: Work, status: Statuses])
  BY <1>1 DEF TypeOK
<1> QED BY <1>1, <1>2, <1>3, TakeStep

\* the items that failed in the worker, then those that failed with their mask
LEMMA ChunkStep ==
    ASSUME IInv, Pulling, NEW inWorker \in SUBSET Elements(NextUnit),
           NEW inMask \in SUBSET Elements(NextUnit), inWorker \cap inMask = {},
           PrepareChunk(inWorker, inMask)
    PROVE  IInv'
<1> DEFINE u == Those(NextUnit, inWorker)
<1> DEFINE v == Those(NextUnit, inMask)
<1> DEFINE bad == u \o v
<1>1. /\ TypeOK /\ Take /\ ~Exhausted
      /\ rows' = Marked(bad, "prepare_failed")
      /\ ready' = Those(NextUnit, Elements(NextUnit) \ (inWorker \cup inMask))
      /\ pc' = IF inWorker \cup inMask = {} THEN "pull" ELSE "write"
      /\ UNCHANGED <<buffer, batch, stack, cap, written, request>>
  BY DEF IInv, Pulling, PrepareChunk, batching
<1>2. NextUnit \in Seq(Work) /\ InPlanOrder(NextUnit)
  BY <1>1, Take1
<1>3. /\ u \in Seq(Work) /\ InPlanOrder(u) /\ Elements(u) = inWorker
      /\ v \in Seq(Work) /\ InPlanOrder(v) /\ Elements(v) = inMask
  BY <1>2, ThoseFacts
<1>4. /\ ready' \in Seq(Work) /\ InPlanOrder(ready')
      /\ Elements(ready') = Elements(NextUnit) \ (inWorker \cup inMask)
  BY <1>1, <1>2, ThoseFacts
<1> HIDE DEF u, v
<1>5. /\ bad \in Seq(Work) /\ Len(bad) = Len(u) + Len(v) /\ Len(u) \in Nat /\ Len(v) \in Nat
      /\ \A i \in 1..Len(u) + Len(v) : bad[i] = IF i <= Len(u) THEN u[i] ELSE v[i - Len(u)]
      /\ Elements(bad) = inWorker \cup inMask
  BY <1>3, ConcatProperties, LenProperties, MembersOfConcat, ElementsAreMembers
<1> HIDE DEF bad
<1>6. \A j, k \in 1..Len(bad) : bad[j] = bad[k] => j = k
  <2> SUFFICES ASSUME NEW j \in 1..Len(bad), NEW k \in 1..Len(bad), bad[j] = bad[k]
               PROVE  j = k
    OBVIOUS
  <2>1. ASSUME NEW i \in 1..Len(bad)
        PROVE  IF i <= Len(u) THEN i \in 1..Len(u) /\ bad[i] = u[i] /\ bad[i] \in inWorker
               ELSE i - Len(u) \in 1..Len(v) /\ bad[i] = v[i - Len(u)] /\ bad[i] \in inMask
    <3>1. CASE i <= Len(u)
      <4>1. i \in 1..Len(u) /\ bad[i] = u[i]
        BY <1>5, <3>1
      <4> QED BY <1>3, <3>1, <4>1 DEF Elements
    <3>2. CASE ~(i <= Len(u))
      <4>1. i - Len(u) \in 1..Len(v) /\ bad[i] = v[i - Len(u)]
        BY <1>5, <3>2
      <4> QED BY <1>3, <3>2, <4>1 DEF Elements
    <3> QED BY <3>1, <3>2
  <2>2. j <= Len(u) <=> k <= Len(u)
    BY <2>1
  <2>3. CASE j <= Len(u)
    BY <1>3, <2>1, <2>2, <2>3, NoTwice
  <2>4. CASE ~(j <= Len(u))
    <3>1. j - Len(u) = k - Len(u)
      BY <1>3, <2>1, <2>2, <2>4, NoTwice
    <3> QED BY <1>5, <3>1
  <2> QED BY <2>3, <2>4
<1>7. "prepare_failed" \in Statuses
  BY DEF Statuses, Failures
<1>8. /\ rows' \in Seq([work: Work, status: Statuses]) /\ Len(rows') = Len(bad)
      /\ \A k \in 1..Len(bad) : rows'[k].work = bad[k]
      /\ {rows'[k].work : k \in 1..Len(rows')} = inWorker \cup inMask
  <2> DEFINE m == Marked(bad, "prepare_failed")
  <2>1. /\ m \in Seq([work: Work, status: Statuses]) /\ Len(m) = Len(bad)
        /\ \A k \in 1..Len(bad) : m[k].work = bad[k]
        /\ {m[k].work : k \in 1..Len(m)} = Elements(bad)
    BY <1>5, <1>7, MarkedRows
  <2>2. rows' = m
    BY <1>1
  <2> HIDE DEF m
  <2> QED BY <1>5, <2>1, <2>2
<1>9. \A j, k \in 1..Len(rows') : rows'[j].work = rows'[k].work => j = k
  BY <1>6, <1>8
<1>10. \A k \in 1..Len(rows') : rows'[k].work \in Elements(NextUnit) \ Elements(ready')
  BY <1>4, <1>8
<1>11. pc' = "pull" => rows' = <<>>
  <2> SUFFICES ASSUME pc' = "pull" PROVE rows' = <<>>
    OBVIOUS
  <2>1. inWorker \cup inMask = {}
    BY <1>1
  <2>2. 1..Len(rows') = {}
    BY <1>8, <2>1
  <2>3. rows' \in Seq([work: Work, status: Statuses]) /\ Len(rows') \in Nat
    BY <1>8, LenProperties
  <2>4. rows' # <<>> => Len(rows') \in Nat \ {0}
    BY <2>3, EmptySeq
  <2>5. ~(Len(rows') \in Nat \ {0})
    BY <2>2
  <2> QED BY <2>4, <2>5
<1>12. pc' \in {"pull", "write"} /\ Elements(ready') \subseteq Elements(NextUnit)
  BY <1>1, <1>4
<1>13. Elements(NextUnit) \subseteq Elements(ready') \cup {rows'[k].work : k \in 1..Len(rows')}
  BY <1>4, <1>8
<1> QED BY <1>1, <1>4, <1>8, <1>9, <1>10, <1>11, <1>12, <1>13, TakeStep

\* a chunk that is given up with its first failure
LEMMA AbandonStep ==
    ASSUME IInv, Pulling, NEW item \in Elements(NextUnit), fail_fast, AbandonChunk(item)
    PROVE  IInv'
<1>1. /\ TypeOK /\ Take /\ ready = <<>> /\ pc' = "write" /\ ready' = ready /\ ~Exhausted
      /\ rows' = Marked(<<item>>, "prepare_failed") /\ fail_fast'
      /\ UNCHANGED <<buffer, batch, stack, cap, written, request>>
  BY DEF IInv, Pulling, AbandonChunk, batching, request
<1>2. Elements(NextUnit) \subseteq Work
  BY <1>1, Take1
<1>3. <<item>> \in Seq(Work) /\ Len(<<item>>) = 1 /\ <<item>>[1] = item
  BY <1>2
<1>4. "prepare_failed" \in Statuses
  BY DEF Statuses, Failures
<1>5. /\ rows' \in Seq([work: Work, status: Statuses]) /\ Len(rows') = 1
      /\ \A k \in 1..1 : rows'[k].work = item /\ rows'[k].status = "prepare_failed"
  <2> DEFINE m == Marked(<<item>>, "prepare_failed")
  <2>1. /\ m \in Seq([work: Work, status: Statuses]) /\ Len(m) = Len(<<item>>)
        /\ \A k \in 1..Len(<<item>>) : m[k].work = <<item>>[k] /\ m[k].status = "prepare_failed"
    BY <1>3, <1>4, MarkedRows
  <2>2. rows' = m
    BY <1>1
  <2> HIDE DEF m
  <2> QED BY <1>3, <2>1, <2>2
<1>6. Elements(ready') = {} /\ InPlanOrder(ready') /\ ready' \in Seq(Work)
  BY <1>1, MembersOfEmpty, ElementsAreMembers, OrderOfEmpty DEF TypeOK
<1>7. Abandoning'
  BY <1>1, <1>5 DEF Abandoning
<1>8. \A j, k \in 1..Len(rows') : rows'[j].work = rows'[k].work => j = k
  BY <1>5
<1>9. \A k \in 1..Len(rows') : rows'[k].work \in Elements(NextUnit) \ Elements(ready')
  BY <1>5, <1>6
<1> QED BY <1>1, <1>5, <1>6, <1>7, <1>8, <1>9, TakeStep

\* any unit that a worker yields
LEMMA PrepareStep ==
    ASSUME IInv, Prepare
    PROVE  IInv'
<1>1. CASE SeeCancel
  BY <1>1, Seen DEF Prepare
<1>2. CASE LoadFails
  BY <1>2, LoadStep DEF Prepare
<1>3. CASE LoadSample
  BY <1>3, SampleStep DEF Prepare
<1>4. CASE \E inWorker, inMask \in SUBSET Elements(NextUnit) :
              inWorker \cap inMask = {} /\ PrepareChunk(inWorker, inMask)
  BY <1>4, ChunkStep DEF Prepare
<1>5. CASE \E item \in Elements(NextUnit) : fail_fast /\ AbandonChunk(item)
  BY <1>5, AbandonStep DEF Prepare
<1> QED BY <1>1, <1>2, <1>3, <1>4, <1>5 DEF Prepare

\* what is not taken depends on phase and position
LEMMA SameStream ==
    ASSUME UNCHANGED <<phase, taken>>
    PROVE  Untaken' = Untaken /\ Units' = Units
BY DEF Untaken, Units

\* an entry that the Rebatcher buffers keeps the invariant
LEMMA BufferStep ==
    ASSUME IInv, Buffer
    PROVE  IInv'
<1>1. /\ TypeOK /\ Ordered /\ pc = "pull" /\ ready # <<>> /\ Fits
      /\ buffer' = Append(buffer, Head(ready)) /\ ready' = Tail(ready)
      /\ pc' = pc /\ phase' = phase /\ taken' = taken /\ batch' = batch /\ stack' = stack
      /\ cap' = cap /\ rows' = rows /\ done' = done /\ record' = record
      /\ token' = token /\ fail_fast' = fail_fast
  BY DEF IInv, Buffer, written, request
<1>2. /\ ready \in Seq(Work) /\ buffer \in Seq(Work)
      /\ Elements(buffer) \subseteq Work /\ Elements(ready) \subseteq Work
  BY <1>1, TypesOfQueues
<1>3. /\ InPlanOrder(batch) /\ InPlanOrder(buffer) /\ InPlanOrder(ready)
      /\ Ahead(Elements(batch), Elements(buffer)) /\ Ahead(Elements(batch), Elements(ready))
      /\ Ahead(Elements(buffer), Elements(ready))
      /\ Ahead(Elements(batch) \cup Elements(buffer) \cup Elements(ready), Untaken)
  BY <1>1 DEF Ordered
<1> DEFINE x == ready[1]
<1>4. /\ Head(ready) = x /\ x \in Work /\ Tail(ready) \in Seq(Work)
  BY <1>1, <1>2, HeadAndTail
<1>5. /\ InPlanOrder(Tail(ready)) /\ Ahead({x}, Elements(Tail(ready)))
      /\ Elements(ready) = {x} \cup Elements(Tail(ready))
  BY <1>1, <1>2, <1>3, OrderOfTail
<1> HIDE DEF x
<1>6. Elements(buffer') = Elements(buffer) \cup {x} /\ buffer' \in Seq(Work)
  BY <1>1, <1>2, <1>4, MembersOfAppend, ElementsAreMembers, AppendProperties
<1>7. InPlanOrder(buffer')
  <2>1. Ahead(Elements(buffer), {x})
    BY <1>3, <1>5 DEF Ahead
  <2> QED BY <1>1, <1>2, <1>3, <1>4, <2>1, OrderOfAppend
<1>8. Untaken' = Untaken /\ Units' = Units
  BY <1>1, SameStream
<1>9. Queued' = Queued /\ Waiting' = Waiting /\ Abandoning' = Abandoning
  BY <1>1, <1>5, <1>6, <1>8 DEF Queued, Waiting, Abandoning
<1>10. TypeOK'
  BY <1>1, <1>4, <1>6, <1>8 DEF TypeOK
<1>11. Ordered'
  <2>1. Ahead(Elements(batch), Elements(buffer')) /\ Ahead(Elements(batch), Elements(ready'))
    BY <1>1, <1>3, <1>5, <1>6 DEF Ahead
  <2>2. Ahead(Elements(buffer'), Elements(ready'))
    BY <1>1, <1>3, <1>5, <1>6 DEF Ahead
  <2>3. Elements(batch) \cup Elements(buffer') \cup Elements(ready')
        = Elements(batch) \cup Elements(buffer) \cup Elements(ready)
    BY <1>1, <1>5, <1>6
  <2> QED BY <1>1, <1>3, <1>5, <1>7, <1>8, <2>1, <2>2, <2>3 DEF Ordered
<1>12. Predicting'
  BY <1>1, AtPull DEF Predicting, Ended
<1>13. Fitting'
  <2>1. OneShape(buffer) /\ OneShape(batch) /\ Len(batch) <= InitialBatchSize
    BY DEF IInv, Fitting
  <2>2. \A v \in Elements(buffer) : Shape[v] = Shape[x]
    <3>1. CASE buffer = <<>>
      BY <3>1, MembersOfEmpty, ElementsAreMembers
    <3>2. CASE buffer # <<>>
      <4>1. Head(buffer) = buffer[1] /\ buffer[1] \in Elements(buffer)
        BY <1>2, <3>2, HeadAndTail, ElementsAreMembers
      <4> QED BY <1>1, <1>4, <2>1, <3>2, <4>1 DEF OneShape, Fits
    <3> QED BY <3>1, <3>2
  <2>3. OneShape(buffer')
    BY <1>6, <2>1, <2>2 DEF OneShape
  <2> QED BY <1>1, <2>1, <2>3 DEF Fitting, OneShape
<1>14. RowsApart' /\ RecordedOnce' /\ Covered' /\ CleanFirst' /\ Failing'
  BY <1>1, <1>9 DEF IInv, RowsApart, RecordedOnce, Covered, CleanFirst, Failing
<1> QED BY <1>10, <1>11, <1>12, <1>13, <1>14 DEF IInv

\* the buffer, or what of it the cap allows, becomes the batch
LEMMA SubmitStep ==
    ASSUME IInv, pc = "pull", NEW items \in Seq(Work), NEW rest \in Seq(Work),
           Submit(items, rest), items # <<>>, Len(items) <= cap,
           InPlanOrder(items), InPlanOrder(rest), Ahead(Elements(items), Elements(rest)),
           Elements(buffer) = Elements(items) \cup Elements(rest)
    PROVE  IInv'
<1>1. /\ TypeOK /\ Ordered
      /\ pc' = "predict" /\ batch' = items /\ stack' = <<items>> /\ buffer' = rest
      /\ phase' = phase /\ taken' = taken /\ ready' = ready
      /\ cap' = cap /\ rows' = rows /\ done' = done /\ record' = record
      /\ token' = token /\ fail_fast' = fail_fast
  BY DEF IInv, Submit, stream, written, request
<1>2. /\ InPlanOrder(ready) /\ Ahead(Elements(buffer), Elements(ready))
      /\ Ahead(Elements(batch) \cup Elements(buffer) \cup Elements(ready), Untaken)
  BY <1>1 DEF Ordered
<1>3. Len(items) \in Nat /\ Len(items) > 0 /\ Len(rest) \in Nat
  BY EmptySeq, LenProperties
<1>4. /\ rows = <<>> /\ done = 0
      /\ \A w \in Work : record[w] # Absent => w \notin Queued
      /\ \A w \in Work : w \in Queued \/ record[w] # Absent
      /\ fail_fast => \A w \in Work : record[w] \in {"ok", Absent}
      /\ phase = "perturbed" => \A s \in Clean : record[s] # Absent
  BY AtPull
<1>5. Untaken' = Untaken /\ Units' = Units
  BY <1>1, SameStream
<1>6. /\ Queued = Untaken \cup Elements(items) \cup Elements(rest) \cup Elements(ready)
      /\ Queued' = Untaken \cup Elements(rest) \cup Elements(ready)
      /\ Waiting' = Elements(items)
  BY <1>1, <1>5 DEF Queued, Waiting
<1>7. Elements(items) \cap Queued' = {}
  <2>1. Elements(items) \subseteq Work
    BY MembersType, ElementsAreMembers
  <2>2. Elements(items) \cap Elements(rest) = {}
    BY <2>1, AheadIsApart
  <2>3. Elements(buffer) \cap Elements(ready) = {} /\ Elements(buffer) \cap Untaken = {}
    BY <1>1, QueuesApart
  <2> QED BY <1>6, <2>2, <2>3
<1>8. TypeOK'
  BY <1>1, <1>5 DEF TypeOK
<1>9. Ordered'
  <2>1. Ahead(Elements(items), Elements(ready)) /\ Ahead(Elements(rest), Elements(ready))
    BY <1>2 DEF Ahead
  <2>2. Ahead(Elements(items) \cup Elements(rest) \cup Elements(ready), Untaken)
    BY <1>2 DEF Ahead
  <2> QED BY <1>1, <1>2, <1>5, <2>1, <2>2 DEF Ordered
<1>10. Predicting'
  <2> DEFINE off == [p \in 1..2 |-> IF p = 1 THEN 0 ELSE Len(items)]
  <2>1. /\ off \in [1..2 -> 0..Len(items)] /\ off[1] = 0 /\ off[2] = Len(items)
        /\ \A p, q \in 1..2 : p < q => off[p] < off[q]
    BY <1>3
  <2> HIDE DEF off
  <2>2. items = SubSeq(items, 0 + 1, Len(items))
    BY SubSeqFull
  <2>3. Len(stack') = 1 /\ stack'[1] = items /\ stack' # <<>> /\ 1 + 1 = 2
    BY <1>1
  <2>4. Cut(off)'
    BY <1>1, <1>4, <2>1, <2>2, <2>3 DEF Cut
  <2>5. RowsOfBatch'
    BY <1>1, <1>4 DEF RowsOfBatch
  <2> QED BY <1>1, <1>4, <2>3, <2>4, <2>5 DEF Predicting
<1>11. Fitting'
  <2>1. OneShape(buffer) /\ cap <= InitialBatchSize /\ cap \in Nat
    BY <1>1, BatchSizes DEF IInv, Fitting, TypeOK
  <2> QED BY <1>1, <1>3, <2>1, BatchSizes DEF Fitting, OneShape
<1>12. RowsApart'
  BY <1>1 DEF RowsApart
<1>13. RecordedOnce'
  BY <1>1, <1>4, <1>6 DEF RecordedOnce
<1>14. Covered'
  BY <1>1, <1>4, <1>6 DEF Covered
<1>15. CleanFirst' /\ Failing'
  BY <1>1, <1>4 DEF CleanFirst, Failing
<1> QED BY <1>8, <1>9, <1>10, <1>11, <1>12, <1>13, <1>14, <1>15 DEF IInv

\* so does any step of the Rebatcher
LEMMA RebatchStep ==
    ASSUME IInv, Rebatch
    PROVE  IInv'
<1>1. /\ TypeOK /\ buffer \in Seq(Work) /\ InPlanOrder(buffer) /\ Len(buffer) \in Nat
      /\ cap \in Nat \ {0}
  BY TypesOfQueues, BatchSizes DEF IInv, Ordered, TypeOK
<1>2. CASE Buffer
  BY <1>2, BufferStep
<1>3. CASE SubmitFull
  <2>1. /\ pc = "pull" /\ Len(buffer) >= cap
        /\ Submit(SubSeq(buffer, 1, cap), Suffix(buffer, cap))
    BY <1>3 DEF SubmitFull
  <2>2. cap \in 0..Len(buffer)
    BY <1>1, <2>1
  <2> DEFINE items == SubSeq(buffer, 1, cap)
  <2> DEFINE rest == Suffix(buffer, cap)
  <2>3. /\ items \in Seq(Work) /\ Len(items) = cap /\ rest \in Seq(Work)
        /\ InPlanOrder(items) /\ InPlanOrder(rest)
        /\ Ahead(Elements(items), Elements(rest))
        /\ Elements(buffer) = Elements(items) \cup Elements(rest)
    BY <1>1, <2>2, OrderOfPieces
  <2>4. Submit(items, rest)
    BY <2>1
  <2> HIDE DEF items, rest
  <2>5. items # <<>>
    BY <1>1, <2>3, EmptySeq
  <2> QED BY <1>1, <2>1, <2>3, <2>4, <2>5, SubmitStep
<1>4. CASE SubmitBeforeNewShape \/ SubmitRest
  <2>1. pc = "pull" /\ Len(buffer) < cap /\ buffer # <<>> /\ Submit(buffer, <<>>)
    BY <1>4 DEF SubmitBeforeNewShape, SubmitRest, Fits
  <2>2. Elements(<<>>) = {} /\ InPlanOrder(<<>>) /\ <<>> \in Seq(Work)
    BY MembersOfEmpty, ElementsAreMembers, OrderOfEmpty
  <2>3. Ahead(Elements(buffer), Elements(<<>>)) /\ Elements(buffer) = Elements(buffer) \cup Elements(<<>>)
    BY <2>2 DEF Ahead
  <2>4. Len(buffer) <= cap
    BY <1>1, <2>1
  <2> QED BY <1>1, <2>1, <2>2, <2>3, <2>4, SubmitStep
<1> QED BY <1>2, <1>3, <1>4 DEF Rebatch

-----------------------------------------------------------------------------
(* Predicting, splitting and failing.                                      *)

\* while a batch is predicted its rows are those of its first items
LEMMA AtPredict ==
    ASSUME IInv, pc = "predict"
    PROVE  /\ TypeOK /\ done = 0 /\ stack \in Seq(Seq(Work)) /\ stack # <<>>
           /\ RowsOfBatch /\ Waiting = Elements(batch)
           /\ \A w \in Work : record[w] # Absent => w \notin Queued \cup Elements(batch)
           /\ ~Abandoning =>
                 \A w \in Work : w \in Queued \cup Elements(batch) \/ record[w] # Absent
           /\ phase = "perturbed" => \A s \in Clean : record[s] # Absent
           /\ fail_fast => \A w \in Work : record[w] \in {"ok", Absent}
<1>1. pc \notin Ended /\ Waiting = Elements(batch)
  BY DEF Ended, Waiting
<1> QED BY <1>1 DEF IInv, TypeOK, Predicting, RecordedOnce, Covered, CleanFirst, Failing

\* the part at the head of the stack, as a piece of the batch
LEMMA PartOfBatch ==
    ASSUME TypeOK, stack # <<>>, NEW off, Cut(off)
    PROVE  /\ Part = stack[1] /\ Part \in Seq(Work)
           /\ off[1] \in 0..Len(batch) /\ off[2] \in off[1]..Len(batch) /\ off[1] < off[2]
           /\ off[1] = Len(rows) /\ Len(Part) = off[2] - off[1]
           /\ Part = SubSeq(batch, off[1] + 1, off[2])
           /\ \A k \in 1..Len(Part) : Part[k] = batch[off[1] + k]
           /\ Len(stack) \in Nat \ {0} /\ Tail(stack) \in Seq(Seq(Work))
           /\ Len(Tail(stack)) = Len(stack) - 1
           /\ \A i \in 1..Len(stack) - 1 : Tail(stack)[i] = stack[i + 1]
<1>1. /\ stack \in Seq(Seq(Work)) /\ batch \in Seq(Work) /\ Len(batch) \in Nat
  BY TypesOfQueues DEF TypeOK
<1>2. /\ Len(stack) \in Nat \ {0} /\ Head(stack) = stack[1] /\ stack[1] \in Seq(Work)
      /\ Tail(stack) \in Seq(Seq(Work)) /\ Len(Tail(stack)) = Len(stack) - 1
      /\ \A i \in 1..Len(stack) - 1 : Tail(stack)[i] = stack[i + 1]
  BY <1>1, HeadAndTail
<1>3. 1 \in 1..Len(stack) /\ 1 \in 1..Len(stack) + 1 /\ 2 \in 1..Len(stack) + 1 /\ 1 + 1 = 2
  BY <1>2
<1>4. /\ off[1] \in 0..Len(batch) /\ off[2] \in 0..Len(batch) /\ off[1] < off[2]
      /\ off[1] = Len(rows) /\ stack[1] = SubSeq(batch, off[1] + 1, off[2])
  BY <1>3 DEF Cut
<1>5. off[2] \in off[1]..Len(batch)
  BY <1>1, <1>4
<1>6. /\ Len(stack[1]) = off[2] - off[1]
      /\ \A k \in 1..off[2] - off[1] : stack[1][k] = batch[off[1] + k]
  <2> DEFINE a == off[1]
  <2> DEFINE b == off[2]
  <2>1. a \in 0..Len(batch) /\ b \in a..Len(batch) /\ stack[1] = SubSeq(batch, a + 1, b)
    BY <1>4, <1>5
  <2> HIDE DEF a, b
  <2>2. Len(SubSeq(batch, a + 1, b)) = b - a
    BY <1>1, <2>1, Piece
  <2>3. \A k \in 1..b - a : SubSeq(batch, a + 1, b)[k] = batch[a + k]
    BY <1>1, <2>1, Piece
  <2>4. Len(stack[1]) = b - a /\ \A k \in 1..b - a : stack[1][k] = batch[a + k]
    BY <2>1, <2>2, <2>3
  <2> QED BY <2>4 DEF a, b
<1> QED BY <1>2, <1>4, <1>5, <1>6 DEF Part

\* and every part: not empty, not longer than the batch, made of its items
LEMMA PartsOfBatch ==
    ASSUME TypeOK, NEW off, Cut(off), NEW p \in 1..Len(stack)
    PROVE  /\ stack[p] # <<>> /\ Len(stack[p]) \in Nat /\ Len(stack[p]) <= Len(batch)
           /\ Elements(stack[p]) \subseteq Elements(batch)
<1> DEFINE a == off[p]
<1> DEFINE b == off[p + 1]
<1>1. batch \in Seq(Work) /\ Len(batch) \in Nat /\ Len(stack) \in Nat
  BY TypesOfQueues, LenProperties DEF TypeOK
<1>2. p \in 1..Len(stack) + 1 /\ p + 1 \in 1..Len(stack) + 1 /\ p < p + 1
  BY <1>1
<1>3. /\ a \in 0..Len(batch) /\ b \in 0..Len(batch) /\ a < b
      /\ stack[p] = SubSeq(batch, a + 1, b)
  BY <1>2 DEF Cut
<1> HIDE DEF a, b
<1>4. b \in a..Len(batch) /\ a \in Nat /\ b \in Nat
  BY <1>1, <1>3
<1>5. /\ Len(SubSeq(batch, a + 1, b)) = b - a
      /\ Elements(SubSeq(batch, a + 1, b)) = {batch[k] : k \in a + 1..b}
  BY <1>1, <1>3, <1>4, Piece, ElementsAreMembers
<1>6. Len(stack[p]) = b - a /\ Elements(stack[p]) = {batch[k] : k \in a + 1..b}
  BY <1>3, <1>5
<1>7. Len(stack[p]) \in Nat \ {0} /\ Len(stack[p]) <= Len(batch)
  BY <1>1, <1>3, <1>4, <1>6
<1>8. \A k \in a + 1..b : k \in 1..Len(batch)
  BY <1>1, <1>3, <1>4
<1>9. stack[p] # <<>>
  BY <1>7
<1> QED BY <1>6, <1>7, <1>8, <1>9 DEF Elements

\* the other queues do not change while a batch is predicted
LEMMA WhilePredicting ==
    ASSUME IInv, pc = "predict", pc' \in {"predict", "outcome"},
           UNCHANGED <<stream, buffer, batch, written, request>>,
           cap' \in 1..InitialBatchSize, stack' \in Seq(Seq(Work)),
           rows' \in Seq([work: Work, status: Statuses]),
           ~Abandoning' => ~Abandoning, Predicting'
    PROVE  IInv'
<1>1. /\ phase' = phase /\ taken' = taken /\ ready' = ready /\ buffer' = buffer
      /\ batch' = batch /\ done' = done /\ record' = record
      /\ token' = token /\ fail_fast' = fail_fast
  BY DEF stream, written, request
<1>2. /\ TypeOK /\ done = 0
      /\ \A w \in Work : record[w] # Absent => w \notin Queued \cup Elements(batch)
      /\ ~Abandoning =>
            \A w \in Work : w \in Queued \cup Elements(batch) \/ record[w] # Absent
      /\ phase = "perturbed" => \A s \in Clean : record[s] # Absent
      /\ fail_fast => \A w \in Work : record[w] \in {"ok", Absent}
  BY AtPredict
<1>3. Untaken' = Untaken /\ Units' = Units
  BY <1>1, SameStream
<1>4. Queued' = Queued /\ Waiting' = Elements(batch)
  BY <1>1, <1>3 DEF Queued, Waiting
<1>5. TypeOK'
  <2>1. Len(rows') \in Nat
    BY LenProperties
  <2>2. done' \in 0..Len(rows')
    BY <1>1, <1>2, <2>1
  <2> QED BY <1>1, <1>2, <1>3, <2>2 DEF TypeOK
<1>6. Ordered'
  BY <1>1, <1>3 DEF IInv, Ordered
<1>7. Fitting'
  BY <1>1 DEF IInv, Fitting
<1>8. RowsApart'
  BY DEF RowsApart
<1>9. RecordedOnce'
  BY <1>1, <1>2, <1>4 DEF RecordedOnce
<1>10. Covered'
  BY <1>1, <1>2, <1>4 DEF Covered
<1>11. CleanFirst' /\ Failing'
  BY <1>1, <1>2 DEF CleanFirst, Failing
<1> QED BY <1>5, <1>6, <1>7, <1>8, <1>9, <1>10, <1>11 DEF IInv

\* the results of a part follow those of the parts before it
LEMMA PredictedStep ==
    ASSUME IInv, pc = "predict", NEW status \in Statuses, Predicted(status),
           cap' \in 1..InitialBatchSize,
           UNCHANGED <<stream, buffer, batch, written, request>>
    PROVE  IInv'
<1>1. /\ rows' = rows \o Marked(Part, status) /\ stack' = Tail(stack)
      /\ pc' = IF Tail(stack) = <<>> THEN "outcome" ELSE "predict"
      /\ batch' = batch /\ done' = done /\ fail_fast' = fail_fast
  BY DEF Predicted, written, request
<1>2. TypeOK /\ done = 0 /\ stack # <<>> /\ RowsOfBatch
  BY AtPredict
<1>3. PICK off : Cut(off)
  BY <1>2 DEF IInv, Predicting
<1>4. /\ Part \in Seq(Work) /\ off[1] \in Nat /\ off[2] \in Nat
      /\ off[1] = Len(rows) /\ Len(Part) = off[2] - off[1]
      /\ \A k \in 1..Len(Part) : Part[k] = batch[off[1] + k]
      /\ Len(stack) \in Nat \ {0} /\ stack' \in Seq(Seq(Work))
      /\ Len(stack') = Len(stack) - 1
      /\ \A i \in 1..Len(stack) - 1 : stack'[i] = stack[i + 1]
  <2>1. /\ Part \in Seq(Work) /\ off[1] \in 0..Len(batch) /\ off[2] \in off[1]..Len(batch)
        /\ off[1] = Len(rows) /\ Len(Part) = off[2] - off[1]
        /\ \A k \in 1..Len(Part) : Part[k] = batch[off[1] + k]
        /\ Len(stack) \in Nat \ {0} /\ Tail(stack) \in Seq(Seq(Work))
        /\ Len(Tail(stack)) = Len(stack) - 1
        /\ \A i \in 1..Len(stack) - 1 : Tail(stack)[i] = stack[i + 1]
    BY <1>2, <1>3, PartOfBatch
  <2>2. off[1] \in Nat /\ off[2] \in Nat
    BY <2>1
  <2>3. stack' = Tail(stack)
    BY <1>1
  <2> QED BY <2>1, <2>2, <2>3
<1>5. /\ rows' \in Seq([work: Work, status: Statuses])
      /\ Len(rows') = off[2] /\ Len(rows) \in Nat /\ Len(rows) <= Len(rows')
      /\ \A i \in 1..Len(rows') : i <= Len(rows) => rows'[i] = rows[i]
      /\ \A i \in 1..Len(rows') : ~(i <= Len(rows)) => rows'[i].work = Part[i - Len(rows)]
  <2> DEFINE m == Marked(Part, status)
  <2>1. /\ m \in Seq([work: Work, status: Statuses]) /\ Len(m) = Len(Part)
        /\ \A k \in 1..Len(Part) : m[k].work = Part[k]
    <3>1. Part \in Seq(Work)
      BY <1>4
    <3> QED BY <3>1, MarkedRows
  <2>2. rows \in Seq([work: Work, status: Statuses]) /\ Len(rows) \in Nat
    BY <1>2, TypesOfRows DEF TypeOK
  <2>3. rows' = rows \o m
    BY <1>1
  <2> HIDE DEF m
  <2>4. /\ rows \o m \in Seq([work: Work, status: Statuses])
        /\ Len(rows \o m) = Len(rows) + Len(m)
        /\ \A i \in 1..Len(rows) + Len(m) :
              (rows \o m)[i] = IF i <= Len(rows) THEN rows[i] ELSE m[i - Len(rows)]
    BY <2>1, <2>2, ConcatProperties
  <2>5. Len(rows') = off[2] /\ Len(rows) <= Len(rows')
    BY <1>4, <2>1, <2>2, <2>3, <2>4
  <2>6. ASSUME NEW i \in 1..Len(rows'), ~(i <= Len(rows))
        PROVE  rows'[i].work = Part[i - Len(rows)]
    <3>1. i - Len(rows) \in 1..Len(Part)
      BY <1>4, <2>2, <2>5, <2>6
    <3>2. rows'[i] = m[i - Len(rows)]
      BY <2>1, <2>2, <2>3, <2>4, <2>6
    <3> QED BY <2>1, <3>1, <3>2
  <2> QED BY <2>2, <2>3, <2>4, <2>5, <2>6
<1>6. RowsOfBatch'
  <2> SUFFICES ASSUME NEW i \in 1..Len(rows') PROVE rows'[i].work = batch[i]
    BY <1>1 DEF RowsOfBatch
  <2>1. CASE i <= Len(rows)
    BY <1>2, <1>5, <2>1 DEF RowsOfBatch
  <2>2. CASE ~(i <= Len(rows))
    <3>1. i - Len(rows) \in 1..Len(Part) /\ off[1] + (i - Len(rows)) = i
      BY <1>4, <1>5, <2>2
    <3> QED BY <1>4, <1>5, <2>2, <3>1
  <2> QED BY <2>1, <2>2
<1>7. stack' # <<>> => \E o : Cut(o)'
  <2> SUFFICES ASSUME stack' # <<>> PROVE \E o : Cut(o)'
    OBVIOUS
  <2> DEFINE n == Len(stack')
  <2> DEFINE o == [p \in 1..n + 1 |-> off[p + 1]]
  <2>1. n \in Nat /\ n + 1 = Len(stack)
    BY <1>4
  <2>2. ASSUME NEW p \in 1..n + 1 PROVE p + 1 \in 1..Len(stack) + 1 /\ o[p] = off[p + 1]
    BY <2>1
  <2>3. o \in [1..n + 1 -> 0..Len(batch)]
    BY <1>3, <2>2 DEF Cut
  <2>4. o[1] = Len(rows') /\ o[n + 1] = Len(batch)
    BY <1>3, <1>5, <2>1, <2>2 DEF Cut
  <2>5. \A p, q \in 1..n + 1 : p < q => o[p] < o[q]
    <3> SUFFICES ASSUME NEW p \in 1..n + 1, NEW q \in 1..n + 1, p < q PROVE o[p] < o[q]
      OBVIOUS
    <3>1. p + 1 < q + 1
      BY <2>1
    <3> QED BY <1>3, <2>2, <3>1 DEF Cut
  <2>6. \A p \in 1..n : stack'[p] = SubSeq(batch, o[p] + 1, o[p + 1])
    <3> TAKE p \in 1..n
    <3>1. p + 1 \in 1..Len(stack) /\ p \in 1..n + 1 /\ p + 1 \in 1..n + 1 /\ p \in 1..Len(stack) - 1
      BY <2>1
    <3>2. stack[p + 1] = SubSeq(batch, off[p + 1] + 1, off[(p + 1) + 1])
      BY <1>3, <3>1 DEF Cut
    <3> QED BY <1>4, <2>2, <3>1, <3>2
  <2>7. n = Len(stack') /\ batch' = batch
    BY <1>1
  <2> HIDE DEF n, o
  <2>8. PICK f : f = o
    OBVIOUS
  <2>9. Cut(f)'
    BY <2>3, <2>4, <2>5, <2>6, <2>7, <2>8 DEF Cut
  <2> QED BY <2>9
<1>8. stack' = <<>> => Len(rows') = Len(batch)
  <2> SUFFICES ASSUME stack' = <<>> PROVE Len(rows') = Len(batch)
    OBVIOUS
  <2>1. Len(stack) + 1 = 2
    <3>1. Len(stack') = 0
      OBVIOUS
    <3>2. Len(stack) \in Nat /\ Len(stack') = Len(stack) - 1
      BY <1>4
    <3>3. \A n \in Nat : 0 = n - 1 => n + 1 = 2
      OBVIOUS
    <3>4. 0 = Len(stack) - 1
      BY <3>1, <3>2, Zenon
    <3> QED BY <3>2, <3>3, <3>4
  <2> QED BY <1>3, <1>5, <2>1 DEF Cut
<1>9. pc' \in {"predict", "outcome"} /\ (pc' = "outcome" <=> stack' = <<>>)
  BY <1>1
<1>10. Predicting'
  BY <1>1, <1>2, <1>6, <1>7, <1>8, <1>9 DEF Predicting
<1>11. ~Abandoning' => ~Abandoning
  <2> SUFFICES ASSUME Abandoning PROVE Abandoning'
    OBVIOUS
  <2>1. PICK k \in 1..Len(rows) : rows[k].status # "ok"
    BY DEF Abandoning
  <2>2. k \in 1..Len(rows') /\ rows'[k] = rows[k]
    BY <1>4, <1>5
  <2> QED BY <1>1, <2>1, <2>2 DEF Abandoning
<1> QED BY <1>4, <1>5, <1>9, <1>10, <1>11, WhilePredicting

\* memory errors never raise the cap, and leave at least one
LEMMA OomShrinks ==
    ASSUME TypeOK, RecordOom, Len(Part) \in Nat
    PROVE  cap' \in 1..InitialBatchSize /\ cap' <= cap
BY BatchSizes DEF TypeOK, RecordOom, Smaller

\* the halves cut the part where it is split
LEMMA SplitStep ==
    ASSUME IInv, OomSplit
    PROVE  IInv'
<1> DEFINE mid == Len(Part) \div 2
<1> DEFINE left == SubSeq(Part, 1, mid)
<1> DEFINE right == Suffix(Part, mid)
<1>1. /\ pc = "predict" /\ pc' = pc /\ Len(Part) > 1 /\ RecordOom
      /\ stack' = <<left, right>> \o Tail(stack)
      /\ batch' = batch /\ rows' = rows /\ done' = done /\ fail_fast' = fail_fast
      /\ UNCHANGED <<stream, buffer, batch, written, request>>
  BY DEF OomSplit, written, request
<1>2. TypeOK /\ done = 0 /\ stack # <<>> /\ RowsOfBatch /\ batch \in Seq(Work)
  BY <1>1, AtPredict DEF TypeOK
<1>3. PICK off : Cut(off)
  BY <1>2 DEF IInv, Predicting
<1>4. /\ Part \in Seq(Work) /\ off[1] \in 0..Len(batch) /\ off[2] \in off[1]..Len(batch)
      /\ Len(Part) = off[2] - off[1] /\ Part = SubSeq(batch, off[1] + 1, off[2])
      /\ Len(stack) \in Nat \ {0} /\ Tail(stack) \in Seq(Seq(Work))
      /\ Len(Tail(stack)) = Len(stack) - 1
      /\ \A i \in 1..Len(stack) - 1 : Tail(stack)[i] = stack[i + 1]
  BY <1>2, <1>3, PartOfBatch
<1> DEFINE a == off[1]
<1> DEFINE b == off[2]
<1>5. /\ Len(batch) \in Nat /\ a \in 0..Len(batch) /\ b \in a..Len(batch) /\ Len(Part) = b - a
      /\ mid \in 0..b - a /\ mid \in Nat \ {0} /\ mid < b - a /\ b - a \in mid..b - a
  <2>1. Len(batch) \in Nat
    BY <1>2, LenProperties
  <2>2. a \in 0..Len(batch) /\ b \in a..Len(batch) /\ Len(Part) = b - a /\ b - a > 1
    BY <1>1, <1>4
  <2> HIDE DEF a, b
  <2>3. a \in Nat /\ b \in Nat /\ b - a \in Nat
    BY <2>1, <2>2
  <2>4. mid \in Nat \ {0} /\ mid < b - a
    BY <2>2, <2>3
  <2> HIDE DEF mid
  <2> QED BY <2>1, <2>2, <2>3, <2>4
<1>6. Part = SubSeq(batch, a + 1, b)
  BY <1>4
<1> HIDE DEF a, b, mid
<1>7. left = SubSeq(batch, a + 1, a + mid) /\ left \in Seq(Work)
  <2>1. 0 \in 0..b - a /\ mid \in 0..b - a /\ 0 + 1 = 1 /\ a + 0 = a
    BY <1>5
  <2>2. SubSeq(SubSeq(batch, a + 1, b), 0 + 1, mid) = SubSeq(batch, a + 0 + 1, a + mid)
    BY <1>2, <1>5, <2>1, PieceOfPiece
  <2>3. mid \in 0..Len(Part)
    BY <1>5
  <2>4. SubSeq(Part, 0 + 1, mid) \in Seq(Work)
    BY <1>4, <2>1, <2>3, <1>5, Piece
  <2> QED BY <1>6, <2>1, <2>2, <2>4
<1>8. right = SubSeq(batch, a + mid + 1, b) /\ right \in Seq(Work)
  <2>1. SubSeq(SubSeq(batch, a + 1, b), mid + 1, b - a) = SubSeq(batch, a + mid + 1, a + (b - a))
    BY <1>2, <1>5, PieceOfPiece
  <2>2. a + (b - a) = b
    BY <1>5
  <2>3. mid \in 0..Len(Part) /\ Len(Part) \in mid..Len(Part)
    BY <1>5
  <2>4. SubSeq(Part, mid + 1, Len(Part)) \in Seq(Work)
    BY <1>4, <2>3, Piece
  <2> QED BY <1>5, <1>6, <2>1, <2>2, <2>4 DEF Suffix
<1> HIDE DEF left, right
<1>9. /\ stack' \in Seq(Seq(Work)) /\ Len(stack') = Len(stack) + 1 /\ stack' # <<>>
      /\ stack'[1] = left /\ stack'[2] = right
      /\ \A p \in 3..Len(stack) + 1 : stack'[p] = stack[p - 1]
  <2> DEFINE h == <<left, right>>
  <2> DEFINE t == Tail(stack)
  <2>1. h \in Seq(Seq(Work)) /\ Len(h) = 2 /\ h[1] = left /\ h[2] = right
    BY <1>7, <1>8, TwoMembers
  <2>2. /\ t \in Seq(Seq(Work)) /\ Len(t) = Len(stack) - 1
        /\ \A i \in 1..Len(stack) - 1 : t[i] = stack[i + 1]
    BY <1>4
  <2>3. stack' = h \o t
    BY <1>1
  <2> HIDE DEF h, t
  <2>4. /\ h \o t \in Seq(Seq(Work)) /\ Len(h \o t) = Len(h) + Len(t)
        /\ \A i \in 1..Len(h) + Len(t) :
              (h \o t)[i] = IF i <= Len(h) THEN h[i] ELSE t[i - Len(h)]
    BY <2>1, <2>2, ConcatProperties
  <2>5. Len(stack') = Len(stack) + 1 /\ 1 \in 1..Len(h) + Len(t) /\ 2 \in 1..Len(h) + Len(t)
    <3>1. Len(stack) \in Nat \ {0}
      BY <1>4
    <3>2. Len(h) + Len(t) = Len(stack) + 1
      BY <2>1, <2>2, <3>1
    <3>3. Len(stack') = Len(h) + Len(t)
      BY <2>3, <2>4
    <3> QED BY <3>1, <3>2, <3>3
  <2>6. stack'[1] = left /\ stack'[2] = right
    BY <2>1, <2>3, <2>4, <2>5
  <2>7. ASSUME NEW p \in 3..Len(stack) + 1 PROVE stack'[p] = stack[p - 1]
    <3>1. /\ p \in 1..Len(h) + Len(t) /\ ~(p <= Len(h))
          /\ p - 2 \in 1..Len(stack) - 1 /\ (p - 2) + 1 = p - 1
      BY <1>4, <2>1, <2>2
    <3> QED BY <2>1, <2>2, <2>3, <2>4, <3>1
  <2>8. stack' # <<>>
    BY <1>4, <2>5
  <2> QED BY <2>3, <2>4, <2>5, <2>6, <2>7, <2>8
<1>10. \E o : Cut(o)'
  <2> DEFINE n == Len(stack)
  <2> DEFINE o == [p \in 1..n + 2 |-> IF p = 1 THEN a ELSE IF p = 2 THEN a + mid ELSE off[p - 1]]
  <2>1. n \in Nat \ {0}
    BY <1>4
  <2>2. /\ off \in [1..n + 1 -> 0..Len(batch)] /\ off[1] = a /\ off[2] = b
        /\ a = Len(rows) /\ off[n + 1] = Len(batch)
        /\ \A p, q \in 1..n + 1 : p < q => off[p] < off[q]
        /\ \A p \in 1..n : stack[p] = SubSeq(batch, off[p] + 1, off[p + 1])
    BY <1>3 DEF Cut, a, b
  <2>3. o[1] = a /\ o[2] = a + mid /\ \A p \in 3..n + 2 : o[p] = off[p - 1]
    BY <2>1
  <2>4. \A p \in 3..n + 2 : p - 1 \in 2..n + 1 /\ p - 1 \in 1..n + 1 /\ off[p - 1] >= b
    <3> TAKE p \in 3..n + 2
    <3>1. p - 1 \in 2..n + 1 /\ p - 1 \in 1..n + 1 /\ 2 \in 1..n + 1
      BY <2>1
    <3>2. p - 1 = 2 \/ 2 < p - 1
      BY <3>1
    <3>3. off[p - 1] \in 0..Len(batch) /\ Len(batch) \in Nat
      BY <1>5, <2>2, <3>1
    <3>4. b \in Nat
      BY <1>5
    <3> QED BY <2>2, <3>1, <3>2, <3>3, <3>4
  <2>5. o \in [1..n + 2 -> 0..Len(batch)]
    BY <1>5, <2>2, <2>4
  <2>6. o[1] = Len(rows) /\ o[n + 2] = Len(batch)
    <3>1. n + 2 \in 3..n + 2 /\ (n + 2) - 1 = n + 1
      BY <2>1
    <3> QED BY <2>2, <2>3, <3>1
  <2> HIDE DEF o
  <2>7. \A p, q \in 1..n + 2 : p < q => o[p] < o[q]
    <3> SUFFICES ASSUME NEW p \in 1..n + 2, NEW q \in 1..n + 2, p < q PROVE o[p] < o[q]
      OBVIOUS
    <3>1. CASE q = 2
      BY <1>5, <2>1, <2>3, <3>1
    <3>2. CASE q # 2 /\ p < 3
      <4>1. q \in 3..n + 2 /\ (p = 1 \/ p = 2)
        BY <2>1, <3>2
      <4>2. q - 1 \in 1..n + 1 /\ off[q - 1] >= b
        BY <2>4, <4>1
      <4>3. off[q - 1] \in 0..Len(batch) /\ Len(batch) \in Nat
        BY <1>5, <2>2, <4>2
      <4>4. a + mid < b /\ a < b /\ a \in Nat /\ b \in Nat /\ mid \in Nat
        BY <1>5
      <4> QED BY <2>3, <4>1, <4>2, <4>3, <4>4
    <3>3. CASE ~(p < 3)
      <4>1. p \in 3..n + 2 /\ q \in 3..n + 2 /\ p - 1 < q - 1
        BY <2>1, <3>3
      <4> QED BY <2>2, <2>3, <2>4, <4>1
    <3> QED BY <2>1, <3>1, <3>2, <3>3
  <2>8. \A p \in 1..n + 1 : stack'[p] = SubSeq(batch, o[p] + 1, o[p + 1])
    <3> TAKE p \in 1..n + 1
    <3>1. CASE p = 1
      BY <1>7, <1>9, <2>3, <3>1
    <3>2. CASE p = 2
      <4>1. 3 \in 3..n + 2 /\ 3 - 1 = 2 /\ 2 + 1 = 3
        BY <2>1
      <4> QED BY <1>8, <1>9, <2>2, <2>3, <3>2, <4>1
    <3>3. CASE p # 1 /\ p # 2
      <4>1. /\ p \in 3..n + 1 /\ p \in 3..n + 2 /\ p + 1 \in 3..n + 2
            /\ p - 1 \in 1..n /\ (p + 1) - 1 = (p - 1) + 1
        BY <2>1, <3>3
      <4> QED BY <1>9, <2>2, <2>3, <4>1
    <3> QED BY <3>1, <3>2, <3>3
  <2>9. Len(stack') = n + 1 /\ (n + 1) + 1 = n + 2
    BY <1>9, <2>1
  <2> HIDE DEF n
  <2>10. batch' = batch /\ rows' = rows
    BY <1>1
  <2>11. \A p \in 1..Len(stack') : stack'[p] = SubSeq(batch, o[p] + 1, o[p + 1])
    BY <2>8, <2>9
  <2>12. PICK f : f = o
    OBVIOUS
  <2>13. Cut(f)'
    BY <2>5, <2>6, <2>7, <2>9, <2>10, <2>11, <2>12 DEF Cut
  <2> QED BY <2>13
<1>11. Predicting'
  BY <1>1, <1>2, <1>9, <1>10 DEF Predicting, RowsOfBatch
<1>12. cap' \in 1..InitialBatchSize
  <2>1. Len(Part) \in Nat
    BY <1>4, LenProperties
  <2> QED BY <1>1, <1>2, <2>1, OomShrinks
<1>13. ~Abandoning' => ~Abandoning
  BY <1>1 DEF Abandoning
<1>14. rows' \in Seq([work: Work, status: Statuses])
  BY <1>1, <1>2 DEF TypeOK
<1> QED BY <1>1, <1>9, <1>11, <1>12, <1>13, <1>14, WhilePredicting

\* a cleanup that raises keeps the invariant
LEMMA CleanupStep ==
    ASSUME IInv, CleanupRaises
    PROVE  IInv'
<1>1. /\ pc = "predict" /\ pc' = "outcome" /\ stack' = <<>>
      /\ rows' = Marked(batch, "predict_failed")
      /\ batch' = batch /\ cap' = cap /\ done' = done /\ fail_fast' = fail_fast
      /\ UNCHANGED <<stream, buffer, batch, written, request>>
  BY DEF CleanupRaises, written, request
<1>2. TypeOK /\ done = 0 /\ stack # <<>> /\ batch \in Seq(Work) /\ cap \in 1..InitialBatchSize
  BY <1>1, AtPredict DEF TypeOK
<1>3. PICK off : Cut(off)
  BY <1>2 DEF IInv, Predicting
<1>4. Len(batch) \in Nat \ {0}
  <2>1. /\ off[1] \in 0..Len(batch) /\ off[2] \in off[1]..Len(batch) /\ off[1] < off[2]
    BY <1>2, <1>3, PartOfBatch
  <2>2. Len(batch) \in Nat
    BY <1>2, LenProperties
  <2> QED BY <2>1, <2>2
<1>5. "predict_failed" \in Statuses
  BY DEF Statuses, Failures
<1>6. /\ rows' \in Seq([work: Work, status: Statuses]) /\ Len(rows') = Len(batch)
      /\ \A k \in 1..Len(batch) : rows'[k].work = batch[k] /\ rows'[k].status = "predict_failed"
  <2> DEFINE m == Marked(batch, "predict_failed")
  <2>1. /\ m \in Seq([work: Work, status: Statuses]) /\ Len(m) = Len(batch)
        /\ \A k \in 1..Len(batch) : m[k].work = batch[k] /\ m[k].status = "predict_failed"
    BY <1>2, <1>5, MarkedRows
  <2>2. rows' = m
    BY <1>1
  <2> HIDE DEF m
  <2> QED BY <2>1, <2>2
<1>7. Predicting'
  BY <1>1, <1>2, <1>6 DEF Predicting, RowsOfBatch
<1>8. ~Abandoning' => ~Abandoning
  <2>1. 1 \in 1..Len(rows') /\ rows'[1].status # "ok"
    BY <1>4, <1>6
  <2> QED BY <1>1, <2>1 DEF Abandoning
<1>9. stack' \in Seq(Seq(Work))
  BY <1>1
<1> QED BY <1>1, <1>2, <1>6, <1>7, <1>8, <1>9, WhilePredicting

\* so does any answer of the model
LEMMA AnswerStep ==
    ASSUME IInv, Answer
    PROVE  IInv'
<1>1. /\ TypeOK /\ cap \in 1..InitialBatchSize
      /\ {"ok", "predict_failed", "skipped_oom"} \subseteq Statuses
  BY DEF IInv, TypeOK, Statuses, Failures
<1>2. CASE PredictOk
  BY <1>1, <1>2, PredictedStep DEF PredictOk
<1>3. CASE PredictRaises
  BY <1>1, <1>3, PredictedStep DEF PredictRaises
<1>4. CASE OomAlone
  <2>1. pc = "predict" /\ Len(Part) = 1 /\ RecordOom /\ Predicted("skipped_oom")
        /\ UNCHANGED <<stream, buffer, batch, written, request>>
    BY <1>4 DEF OomAlone
  <2>2. cap' \in 1..InitialBatchSize
    BY <1>1, <2>1, OomShrinks
  <2> QED BY <1>1, <2>1, <2>2, PredictedStep
<1>5. CASE OomSplit
  BY <1>5, SplitStep
<1> QED BY <1>2, <1>3, <1>4, <1>5 DEF Answer

-----------------------------------------------------------------------------
(* Recording.                                                              *)

\* a run that ended keeps no promise but types and order
LEMMA EndStep ==
    ASSUME IInv, pc' \in Ended, TypeOK',
           UNCHANGED <<stream, batching, cap, rows, done, request>>
    PROVE  IInv'
<1>1. /\ phase' = phase /\ taken' = taken /\ ready' = ready /\ buffer' = buffer
      /\ batch' = batch /\ stack' = stack /\ rows' = rows /\ done' = done
  BY DEF stream, batching
<1>2. Untaken' = Untaken
  BY <1>1, SameStream
<1>3. Ordered' /\ Fitting'
  BY <1>1, <1>2 DEF IInv, Ordered, Fitting
<1>4. Predicting'
  <2>1. pc' \notin {"pull", "predict", "outcome", "write"}
    BY DEF Ended
  <2>2. stack # <<>> => RowsOfBatch /\ \E off : Cut(off)
    BY DEF IInv, Predicting
  <2>3. stack' # <<>> => RowsOfBatch' /\ \E off : Cut(off)'
    BY <1>1, <2>2 DEF RowsOfBatch, Cut
  <2> QED BY <2>1, <2>3 DEF Predicting
<1>5. RowsApart' /\ RecordedOnce' /\ Covered' /\ CleanFirst' /\ Failing'
  BY DEF RowsApart, RecordedOnce, Covered, CleanFirst, Failing, Ended
<1> QED BY <1>3, <1>4, <1>5 DEF IInv

\* the decision what to do with the rows
LEMMA OutcomeStep ==
    ASSUME IInv, Outcome
    PROVE  IInv'
<1>1. /\ pc = "outcome" /\ pc' = IF token THEN "cancelled" ELSE "write"
      /\ UNCHANGED <<stream, batching, cap, rows, written, request>>
      /\ phase' = phase /\ taken' = taken /\ ready' = ready /\ buffer' = buffer
      /\ batch' = batch /\ stack' = stack /\ cap' = cap /\ rows' = rows
      /\ done' = done /\ record' = record /\ token' = token /\ fail_fast' = fail_fast
  BY DEF Outcome, stream, batching, written, request
<1>2. /\ TypeOK /\ Ordered /\ done = 0 /\ stack = <<>> /\ Len(rows) = Len(batch) /\ RowsOfBatch
  BY <1>1 DEF IInv, Predicting
<1>3. Untaken' = Untaken /\ Units' = Units
  BY <1>1, SameStream
<1>4. TypeOK'
  BY <1>1, <1>2, <1>3 DEF TypeOK, Ended
<1>5. CASE pc' = "cancelled"
  BY <1>1, <1>4, <1>5, EndStep DEF Ended, written
<1>6. CASE pc' = "write"
  <2>1. batch \in Seq(Work) /\ Len(batch) \in Nat /\ InPlanOrder(batch)
    BY <1>2, TypesOfQueues DEF Ordered
  <2>2. Queued' = Queued /\ Elements(batch) \cap Queued = {}
    BY <1>1, <1>2, <1>3, QueuesApart DEF Queued
  <2>3. \A k \in 1..Len(rows) : rows[k].work = batch[k]
    BY <1>2 DEF RowsOfBatch
  <2>4. Waiting' = Elements(batch) /\ Waiting = Elements(batch)
    <3>1. done' + 1 = 1
      BY <1>1, <1>2
    <3>2. Waiting' = {rows[k].work : k \in 1..Len(rows)}
      BY <1>1, <1>6, <3>1 DEF Waiting
    <3>3. {rows[k].work : k \in 1..Len(rows)} = {batch[k] : k \in 1..Len(batch)}
      BY <1>2, <2>3
    <3> QED BY <1>1, <3>2, <3>3 DEF Waiting, Elements
  <2>5. Ordered' /\ Fitting'
    BY <1>1, <1>3 DEF IInv, Ordered, Fitting
  <2>6. Predicting'
    BY <1>1, <1>2, <1>6 DEF Predicting
  <2>7. RowsApart'
    <3>1. \A j, k \in 1..Len(rows) : rows[j].work = rows[k].work => j = k
      BY <1>2, <2>1, <2>3, NoTwice
    <3>2. \A k \in 1..Len(rows) : rows[k].work \notin Queued
      BY <1>2, <2>2, <2>3 DEF Elements
    <3> QED BY <1>1, <2>2, <3>1, <3>2 DEF RowsApart
  <2>8. pc \notin Ended /\ Abandoning' = Abandoning
    BY <1>1 DEF Ended, Abandoning
  <2>9. RecordedOnce' /\ Covered'
    BY <1>1, <2>2, <2>4, <2>8 DEF IInv, RecordedOnce, Covered
  <2>10. CleanFirst' /\ Failing'
    BY <1>1, <2>8 DEF IInv, CleanFirst, Failing
  <2> QED BY <1>4, <2>5, <2>6, <2>7, <2>9, <2>10 DEF IInv
<1> QED BY <1>1, <1>5, <1>6

\* a row that is written
LEMMA WriteStep ==
    ASSUME IInv, Write
    PROVE  IInv'
<1> DEFINE w0 == rows[done + 1].work
<1> DEFINE st == rows[done + 1].status
<1>1. /\ pc = "write" /\ pc' = pc /\ done < Len(rows) /\ done' = done + 1
      /\ record' = [record EXCEPT ![w0] = st]
      /\ phase' = phase /\ taken' = taken /\ ready' = ready /\ buffer' = buffer
      /\ batch' = batch /\ stack' = stack /\ cap' = cap /\ rows' = rows
      /\ token' = token /\ fail_fast' = fail_fast
  BY DEF Write, stream, batching, request
<1>2. /\ TypeOK /\ Ordered /\ pc \notin Ended /\ stack = <<>>
  BY <1>1 DEF IInv, Predicting, Ended
<1>3. /\ Len(rows) \in Nat /\ done \in Nat /\ done + 1 \in 1..Len(rows)
      /\ w0 \in Work /\ st \in Statuses
  BY <1>1, <1>2, TypesOfRows
<1>4. st # Absent
  BY <1>3, AbsentAssumption
<1>5. /\ record \in [Work -> Statuses \cup {Absent}]
      /\ record' \in [Work -> Statuses \cup {Absent}]
      /\ \A w \in Work : record'[w] = IF w = w0 THEN st ELSE record[w]
  BY <1>1, <1>2, <1>3 DEF TypeOK
<1>6. Untaken' = Untaken /\ Units' = Units
  BY <1>1, SameStream
<1>7. Queued' = Queued
  BY <1>1, <1>6 DEF Queued
<1>8. /\ \A j, k \in 1..Len(rows) : rows[j].work = rows[k].work => j = k
      /\ \A k \in 1..Len(rows) : rows[k].work \notin Queued
  BY <1>1 DEF IInv, RowsApart
<1> HIDE DEF w0, st
<1>9. Waiting = {w0} \cup Waiting' /\ w0 \notin Waiting'
  <2>1. /\ Waiting = {rows[k].work : k \in (done + 1)..Len(rows)}
        /\ Waiting' = {rows[k].work : k \in ((done + 1) + 1)..Len(rows)}
    BY <1>1 DEF Waiting
  <2>2. /\ (done + 1)..Len(rows) = {done + 1} \cup ((done + 1) + 1)..Len(rows)
        /\ \A k \in ((done + 1) + 1)..Len(rows) : k \in 1..Len(rows) /\ k # done + 1
    BY <1>3
  <2>3. \A k \in ((done + 1) + 1)..Len(rows) : rows[k].work # w0
    BY <1>3, <1>8, <2>2 DEF w0
  <2> QED BY <2>1, <2>2, <2>3 DEF w0
<1>10. w0 \notin Queued
  BY <1>3, <1>8 DEF w0
<1>11. TypeOK'
  <2>1. done' \in 0..Len(rows')
    BY <1>1, <1>3
  <2> QED BY <1>1, <1>2, <1>5, <1>6, <2>1 DEF TypeOK
<1>12. Ordered' /\ Fitting'
  BY <1>1, <1>6 DEF IInv, Ordered, Fitting
<1>13. Predicting'
  BY <1>1, <1>2 DEF Predicting
<1>14. RowsApart'
  BY <1>1, <1>7, <1>8 DEF RowsApart
<1>15. Abandoning' = Abandoning
  BY <1>1 DEF Abandoning
<1>16. RecordedOnce'
  <2>1. \A w \in Work : record[w] # Absent => w \notin Queued \cup Waiting
    BY <1>2 DEF IInv, RecordedOnce
  <2> QED BY <1>5, <1>7, <1>9, <1>10, <2>1 DEF RecordedOnce
<1>17. Covered'
  <2>1. ~Abandoning => \A w \in Work : w \in Queued \cup Waiting \/ record[w] # Absent
    BY <1>2 DEF IInv, Covered
  <2> QED BY <1>4, <1>5, <1>7, <1>9, <1>15, <2>1 DEF Covered
<1>18. CleanFirst'
  <2>1. phase = "perturbed" => \A s \in Clean : record[s] # Absent
    BY <1>2 DEF IInv, CleanFirst
  <2> QED BY <1>1, <1>4, <1>5, <2>1, PlanTypes DEF CleanFirst
<1>19. Failing'
  <2> SUFFICES ASSUME fail_fast, NEW w \in Work, record'[w] \notin {"ok", Absent}
               PROVE  \E k \in 1..Len(rows) : rows[k].status # "ok"
    BY <1>1 DEF Failing
  <2>1. CASE w = w0
    <3>1. st # "ok"
      BY <1>5, <2>1
    <3> QED BY <1>3, <3>1 DEF st
  <2>2. CASE w # w0
    <3>1. record[w] \notin {"ok", Absent}
      BY <1>5, <2>2
    <3> QED BY <1>2, <3>1 DEF IInv, Failing
  <2> QED BY <2>1, <2>2
<1> QED BY <1>11, <1>12, <1>13, <1>14, <1>16, <1>17, <1>18, <1>19 DEF IInv

\* the end of the rows of a batch
LEMMA WrittenStep ==
    ASSUME IInv, Written
    PROVE  IInv'
<1>1. /\ pc = "write" /\ done = Len(rows)
      /\ pc' = IF Abandoning THEN "failed" ELSE "pull"
      /\ rows' = <<>> /\ done' = 0 /\ batch' = <<>>
      /\ phase' = phase /\ taken' = taken /\ ready' = ready /\ buffer' = buffer
      /\ stack' = stack /\ cap' = cap /\ record' = record
      /\ token' = token /\ fail_fast' = fail_fast
  BY DEF Written, AfterRows, Abandoning, stream, request
<1>2. TypeOK /\ Ordered /\ Len(rows) \in Nat /\ stack = <<>> /\ pc \notin Ended
  BY <1>1, TypesOfRows DEF IInv, Predicting, Ended
<1>3. Untaken' = Untaken /\ Units' = Units
  BY <1>1, SameStream
<1>4. Elements(batch') = {} /\ InPlanOrder(batch') /\ Len(rows') = 0 /\ Len(batch') = 0
  BY <1>1, MembersOfEmpty, ElementsAreMembers, OrderOfEmpty
<1>5. Queued' = Queued /\ Waiting = {}
  <2>1. (done + 1)..Len(rows) = {}
    BY <1>1, <1>2
  <2> QED BY <1>1, <1>3, <2>1 DEF Queued, Waiting
<1>6. TypeOK'
  <2>1. /\ rows' \in Seq([work: Work, status: Statuses]) /\ batch' \in Seq(Work)
        /\ done' \in 0..Len(rows')
    BY <1>1, <1>4
  <2>2. pc' \in {"pull", "predict", "outcome", "write"} \cup Ended
    BY <1>1 DEF Ended
  <2> QED BY <1>1, <1>2, <1>3, <2>1, <2>2 DEF TypeOK
<1>7. Ordered'
  BY <1>1, <1>2, <1>3, <1>4 DEF Ordered, Ahead
<1>8. Predicting'
  BY <1>1, <1>2 DEF Predicting
<1>9. Fitting'
  BY <1>1, <1>4, BatchSizes DEF IInv, Fitting, OneShape
<1>10. RowsApart'
  BY <1>1 DEF RowsApart
<1>11. Waiting' = {}
  BY <1>1 DEF Waiting
<1>12. RecordedOnce'
  BY <1>1, <1>2, <1>5, <1>11 DEF IInv, RecordedOnce
<1>13. Covered'
  <2>1. ~Abandoning => \A w \in Work : w \in Queued \cup Waiting \/ record[w] # Absent
    BY <1>2 DEF IInv, Covered
  <2>2. pc' \notin Ended => ~Abandoning
    BY <1>1 DEF Ended
  <2> QED BY <1>1, <1>5, <1>11, <2>1, <2>2 DEF Covered
<1>14. CleanFirst'
  BY <1>1, <1>2 DEF IInv, CleanFirst
<1>15. Failing'
  <2>1. fail_fast /\ ~Abandoning => ~\E w \in Work : record[w] \notin {"ok", Absent}
    BY <1>2 DEF IInv, Failing, Abandoning
  <2>2. pc' \notin Ended => ~Abandoning
    BY <1>1 DEF Ended
  <2> QED BY <1>1, <2>1, <2>2 DEF Failing
<1> QED BY <1>6, <1>7, <1>8, <1>9, <1>10, <1>12, <1>13, <1>14, <1>15 DEF IInv

\* the perturbed items were untaken all along
LEMMA EndCleanStep ==
    ASSUME IInv, EndClean
    PROVE  IInv'
<1>1. /\ pc = "pull" /\ Exhausted /\ ready = <<>> /\ buffer = <<>> /\ phase = "clean"
      /\ phase' = "perturbed" /\ taken' = 0
      /\ pc' = pc /\ ready' = ready /\ buffer' = buffer /\ batch' = batch /\ stack' = stack
      /\ cap' = cap /\ rows' = rows /\ done' = done /\ record' = record
      /\ token' = token /\ fail_fast' = fail_fast
  BY DEF EndClean, Drained, batching, written, request
<1>2. /\ TypeOK /\ Ordered /\ batch = <<>> /\ stack = <<>> /\ rows = <<>> /\ done = 0
      /\ \A w \in Work : record[w] # Absent => w \notin Queued
      /\ \A w \in Work : w \in Queued \/ record[w] # Absent
      /\ fail_fast => \A w \in Work : record[w] \in {"ok", Absent}
  BY <1>1, AtPull DEF IInv
<1>3. Untaken = Perturbed
  <2>1. Len(Units) \in Nat /\ taken = Len(Units)
    BY <1>1, UnitsOfPhase DEF Exhausted
  <2>2. (taken + 1)..Len(Units) = {}
    BY <2>1
  <2> QED BY <1>1, <2>2 DEF Untaken
<1>4. Untaken' = Perturbed /\ Len(Units') \in Nat
  <2>1. Units' = Chunks
    BY <1>1 DEF Units
  <2>2. (taken' + 1)..Len(Chunks) = 1..Len(Chunks)
    BY <1>1
  <2>3. Untaken' = UNION {Elements(Chunks[k]) : k \in 1..Len(Chunks)}
    BY <1>1, <2>1, <2>2 DEF Untaken
  <2>4. {Elements(Chunks[k]) : k \in 1..Len(Chunks)} = {Elements(c) : c \in Elements(Chunks)}
    BY DEF Elements
  <2> QED BY <2>1, <2>3, <2>4, PlanTypes DEF Perturbed
<1>5. Elements(ready) = {} /\ Elements(buffer) = {} /\ Queued = Perturbed
  BY <1>1, <1>3, MembersOfEmpty, ElementsAreMembers DEF Queued
<1>6. Queued' = Queued /\ Waiting' = {} /\ pc' \notin Ended
  BY <1>1, <1>3, <1>4 DEF Queued, Waiting, Ended
<1>7. TypeOK'
  <2>1. taken' \in 0..Len(Units') /\ phase' \in {"clean", "perturbed"}
    BY <1>1, <1>4
  <2> QED BY <1>1, <1>2, <2>1 DEF TypeOK
<1>8. Ordered'
  BY <1>1, <1>2, <1>3, <1>4 DEF Ordered
<1>9. Predicting' /\ Fitting' /\ RowsApart'
  BY <1>1, <1>2 DEF IInv, Predicting, Fitting, RowsApart
<1>10. RecordedOnce' /\ Covered' /\ Failing'
  BY <1>1, <1>2, <1>6 DEF RecordedOnce, Covered, Failing
<1>11. CleanFirst'
  <2>1. \A s \in Clean : s \in Work /\ s \notin Queued
    BY <1>5, PlanTypes
  <2> QED BY <1>1, <1>2, <2>1 DEF CleanFirst
<1> QED BY <1>7, <1>8, <1>9, <1>10, <1>11 DEF IInv

\* a cancellation, or an error from outside
LEMMA DisturbStep ==
    ASSUME IInv, Disturb
    PROVE  IInv'
<1>1. TypeOK
  BY DEF IInv
<1>2. CASE Break
  <2>1. pc' = "failed" /\ UNCHANGED <<stream, batching, cap, rows, done, record, request>>
    BY <1>2 DEF Break, written
  <2>2. TypeOK'
    <3>1. Units' = Units
      BY <2>1, SameStream DEF stream
    <3> QED BY <1>1, <2>1, <3>1 DEF TypeOK, stream, batching, request, Ended
  <2> QED BY <2>1, <2>2, EndStep DEF Ended
<1>3. CASE WriterRaises
  <2> DEFINE w0 == rows[done + 1].work
  <2> DEFINE st == rows[done + 1].status
  <2>1. /\ pc' = "failed" /\ done < Len(rows)
        /\ record' \in {record, [record EXCEPT ![w0] = st]}
        /\ UNCHANGED <<stream, batching, cap, rows, done, request>>
    BY <1>3 DEF WriterRaises
  <2>2. w0 \in Work /\ st \in Statuses
    <3>1. done + 1 \in 1..Len(rows)
      BY <1>1, <2>1, TypesOfRows
    <3> QED BY <1>1, <3>1, TypesOfRows
  <2> HIDE DEF w0, st
  <2>3. record' \in [Work -> Statuses \cup {Absent}]
    BY <1>1, <2>1, <2>2 DEF TypeOK
  <2>4. TypeOK'
    <3>1. Units' = Units
      BY <2>1, SameStream DEF stream
    <3> QED BY <1>1, <2>1, <2>3, <3>1 DEF TypeOK, stream, batching, request, Ended
  <2> QED BY <2>1, <2>4, EndStep DEF Ended
<1>4. CASE Cancel
  <2>1. /\ token' = TRUE /\ pc' = pc /\ phase' = phase /\ taken' = taken /\ ready' = ready
        /\ buffer' = buffer /\ batch' = batch /\ stack' = stack /\ cap' = cap /\ rows' = rows
        /\ done' = done /\ record' = record /\ fail_fast' = fail_fast
    BY <1>4 DEF Cancel, stream, batching, written
  <2>2. Untaken' = Untaken /\ Units' = Units
    BY <2>1, SameStream
  <2>3. Queued' = Queued /\ Waiting' = Waiting /\ Abandoning' = Abandoning
    BY <2>1, <2>2 DEF Queued, Waiting, Abandoning
  <2>4. TypeOK'
    BY <1>1, <2>1, <2>2 DEF TypeOK
  <2>5. Ordered' /\ Fitting'
    BY <2>1, <2>2 DEF IInv, Ordered, Fitting
  <2>6. Predicting'
    BY <2>1 DEF IInv, Predicting, RowsOfBatch, Cut
  <2>7. RowsApart' /\ RecordedOnce' /\ Covered' /\ CleanFirst' /\ Failing'
    BY <2>1, <2>3 DEF IInv, RowsApart, RecordedOnce, Covered, CleanFirst, Failing
  <2> QED BY <2>4, <2>5, <2>6, <2>7 DEF IInv
<1> QED BY <1>2, <1>3, <1>4 DEF Disturb

\* the end of the run
LEMMA FinishStep ==
    ASSUME IInv, Finish
    PROVE  IInv'
<1>1. /\ pc' \in Ended
      /\ UNCHANGED <<stream, batching, cap, rows, done, record, request>>
  BY DEF Finish, Ended, written
<1>2. TypeOK'
  <2>1. Units' = Units
    BY <1>1, SameStream DEF stream
  <2> QED BY <1>1, <2>1 DEF IInv, TypeOK, stream, batching, request
<1> QED BY <1>1, <1>2, EndStep

\* and stuttering
LEMMA StutterStep ==
    ASSUME IInv, UNCHANGED vars
    PROVE  IInv'
<1>1. /\ pc' = pc /\ phase' = phase /\ taken' = taken /\ ready' = ready /\ token' = token
      /\ buffer' = buffer /\ batch' = batch /\ stack' = stack /\ cap' = cap /\ rows' = rows
      /\ done' = done /\ record' = record /\ fail_fast' = fail_fast
  BY DEF vars, stream, batching, written, request
<1>2. Untaken' = Untaken /\ Units' = Units
  BY <1>1, SameStream
<1>3. Queued' = Queued /\ Waiting' = Waiting /\ Abandoning' = Abandoning
  BY <1>1, <1>2 DEF Queued, Waiting, Abandoning
<1>4. TypeOK'
  BY <1>1, <1>2 DEF IInv, TypeOK
<1>5. Ordered' /\ Fitting'
  BY <1>1, <1>2 DEF IInv, Ordered, Fitting
<1>6. Predicting'
  BY <1>1 DEF IInv, Predicting, RowsOfBatch, Cut
<1>7. RowsApart' /\ RecordedOnce' /\ Covered' /\ CleanFirst' /\ Failing'
  BY <1>1, <1>3 DEF IInv, RowsApart, RecordedOnce, Covered, CleanFirst, Failing
<1> QED BY <1>4, <1>5, <1>6, <1>7 DEF IInv

\* every step keeps the invariant
LEMMA NextStep ==
    ASSUME IInv, [Next]_vars
    PROVE  IInv'
<1>1. CASE Prepare
  BY <1>1, PrepareStep
<1>2. CASE Rebatch
  BY <1>2, RebatchStep
<1>3. CASE Answer
  BY <1>3, AnswerStep
<1>4. CASE CleanupRaises
  BY <1>4, CleanupStep
<1>5. CASE Outcome
  BY <1>5, OutcomeStep
<1>6. CASE Write
  BY <1>6, WriteStep
<1>7. CASE Written
  BY <1>7, WrittenStep
<1>8. CASE EndClean
  BY <1>8, EndCleanStep
<1>9. CASE Finish
  BY <1>9, FinishStep
<1>10. CASE Disturb
  BY <1>10, DisturbStep
<1>11. CASE UNCHANGED vars
  BY <1>11, StutterStep
<1> QED BY <1>1, <1>2, <1>3, <1>4, <1>5, <1>6, <1>7, <1>8, <1>9, <1>10, <1>11
        DEF Next, Proceed, Advance

\* a run starts in it
LEMMA InitStep == ASSUME Init PROVE IInv
<1>1. /\ pc = "pull" /\ phase = "clean" /\ taken = 0 /\ ready = <<>>
      /\ buffer = <<>> /\ batch = <<>> /\ stack = <<>> /\ cap = InitialBatchSize
      /\ rows = <<>> /\ done = 0 /\ record = [w \in Work |-> Absent]
      /\ token = FALSE /\ fail_fast \in FailFastModes
  BY DEF Init
<1>2. Len(Units) \in Nat
  BY <1>1, UnitsOfPhase
<1>3. TypeOK
  <2>1. taken \in 0..Len(Units) /\ done \in 0..Len(rows)
    BY <1>1, <1>2
  <2>2. cap \in 1..InitialBatchSize
    BY <1>1, BatchSizes
  <2>3. record \in [Work -> Statuses \cup {Absent}]
    BY <1>1
  <2>4. /\ <<>> \in Seq(Work) /\ <<>> \in Seq(Seq(Work))
        /\ <<>> \in Seq([work: Work, status: Statuses])
    BY EmptySeq
  <2> QED BY <1>1, <2>1, <2>2, <2>3, <2>4 DEF TypeOK
<1>4. Elements(<<>>) = {} /\ InPlanOrder(<<>>)
  BY MembersOfEmpty, ElementsAreMembers, OrderOfEmpty
<1>5. Ordered
  BY <1>1, <1>4 DEF Ordered, Ahead
<1>6. Predicting /\ Fitting /\ RowsApart
  BY <1>1, <1>4, BatchSizes DEF Predicting, Fitting, OneShape, RowsApart
<1>7. RecordedOnce /\ CleanFirst /\ Failing
  BY <1>1 DEF RecordedOnce, CleanFirst, Failing
<1>8. Covered
  <2>1. ASSUME NEW s \in Clean PROVE s \in Untaken
    <3>1. PICK k \in 1..Len(Samples) : s = Samples[k]
      BY DEF Clean, Elements
    <3>2. k \in 1..Len(Units) /\ Units[k] = <<s>>
      BY <1>1, <3>1, UnitsOfPhase
    <3>3. k \in (taken + 1)..Len(Units) /\ s \in Elements(Units[k])
      BY <1>1, <3>2, MembersOfOne, ElementsAreMembers
    <3> QED BY <3>3 DEF Untaken
  <2>2. Perturbed \subseteq Untaken
    BY <1>1 DEF Untaken
  <2> QED BY <2>1, <2>2 DEF Covered, Queued, Work
<1> QED BY <1>3, <1>5, <1>6, <1>7, <1>8 DEF IInv

\* The invariant holds of every reachable state.
THEOREM Invariant == Spec => []IInv
<1>1. Init => IInv
  BY InitStep
<1>2. IInv /\ [Next]_vars => IInv'
  BY NextStep
<1> QED BY <1>1, <1>2, PTL DEF Spec

-----------------------------------------------------------------------------
(* Exactly one place.                                                      *)

One(S) == \E x : S = {x}

\* in ordered work a piece occurs once or not at all
LEMMA OneOccurrence ==
    ASSUME NEW s \in Seq(Work), InPlanOrder(s), NEW w, NEW tag
    PROVE  LET at == {<<tag, k>> : k \in Occurrences(s, w)}
           IN  IF w \in Elements(s) THEN One(at) ELSE at = {}
<1>1. CASE w \in Elements(s)
  <2>1. PICK k \in 1..Len(s) : s[k] = w
    BY <1>1 DEF Elements
  <2>2. Occurrences(s, w) = {k}
    BY <2>1, NoTwice DEF Occurrences
  <2>3. {<<tag, j>> : j \in Occurrences(s, w)} = {<<tag, k>>}
    BY <2>2
  <2> QED BY <1>1, <2>3 DEF One
<1>2. CASE w \notin Elements(s)
  <2>1. Occurrences(s, w) = {}
    BY <1>2 DEF Occurrences, Elements
  <2> QED BY <1>2, <2>1
<1> QED BY <1>1, <1>2

\* where the parts on the stack have the i-th item of the batch
LEMMA OneOnStack ==
    ASSUME TypeOK, Ordered, stack # <<>>, NEW off, Cut(off),
           NEW i \in 1..Len(batch)
    PROVE  IF i <= Len(rows) THEN OnStack(batch[i]) = {} ELSE One(OnStack(batch[i]))
<1> DEFINE n == Len(stack)
<1> DEFINE w == batch[i]
<1>1. /\ batch \in Seq(Work) /\ Len(batch) \in Nat /\ InPlanOrder(batch)
      /\ n \in Nat \ {0}
  BY TypesOfQueues, EmptySeq DEF TypeOK, Ordered
<1>2. /\ off \in [1..n + 1 -> 0..Len(batch)] /\ off[1] = Len(rows) /\ off[n + 1] = Len(batch)
      /\ \A p, q \in 1..n + 1 : p < q => off[p] < off[q]
      /\ \A p \in 1..n : stack[p] = SubSeq(batch, off[p] + 1, off[p + 1])
  BY DEF Cut
<1> HIDE DEF n
<1>3. ASSUME NEW p \in 1..n
      PROVE  /\ p + 1 \in 1..n + 1 /\ p \in 1..n + 1
             /\ off[p] \in Nat /\ off[p + 1] \in Nat /\ off[p] < off[p + 1]
             /\ Len(stack[p]) = off[p + 1] - off[p]
             /\ \A k \in 1..off[p + 1] - off[p] : stack[p][k] = batch[off[p] + k]
  <2> DEFINE a == off[p]
  <2> DEFINE b == off[p + 1]
  <2>1. p + 1 \in 1..n + 1 /\ p \in 1..n + 1 /\ p < p + 1
    BY <1>1
  <2>2. a \in 0..Len(batch) /\ b \in 0..Len(batch) /\ a < b
    BY <1>2, <2>1
  <2>3. stack[p] = SubSeq(batch, a + 1, b)
    BY <1>2
  <2> HIDE DEF a, b
  <2>4. b \in a..Len(batch) /\ a \in Nat /\ b \in Nat
    BY <1>1, <2>2
  <2>5. /\ Len(SubSeq(batch, a + 1, b)) = b - a
        /\ \A k \in 1..b - a : SubSeq(batch, a + 1, b)[k] = batch[a + k]
    BY <1>1, <2>2, <2>4, Piece
  <2>6. Len(stack[p]) = b - a /\ \A k \in 1..b - a : stack[p][k] = batch[a + k]
    BY <2>3, <2>5
  <2> QED BY <2>1, <2>2, <2>4, <2>6 DEF a, b
\* a part has w where it has the i-th item
<1>4. ASSUME NEW p \in 1..n, NEW k \in 1..Len(stack[p])
      PROVE  /\ stack[p][k] = w <=> off[p] + k = i
             /\ off[p] < off[p] + k /\ off[p] + k <= off[p + 1] /\ off[p] + k \in Nat
  <2>1. /\ off[p] \in Nat /\ off[p + 1] \in Nat /\ Len(stack[p]) = off[p + 1] - off[p]
        /\ off[p + 1] <= Len(batch)
    BY <1>1, <1>2, <1>3
  <2>2. k \in Nat \ {0} /\ k <= off[p + 1] - off[p] /\ off[p] + k \in 1..Len(batch)
    BY <1>1, <2>1
  <2>3. stack[p][k] = batch[off[p] + k]
    BY <1>3, <2>1
  <2>4. batch[off[p] + k] = w <=> off[p] + k = i
    BY <1>1, <2>2, NoTwice
  <2> QED BY <2>1, <2>2, <2>3, <2>4
<1>5. \A x : x \in OnStack(w) <=>
             \E p \in 1..n : \E k \in 1..Len(stack[p]) : x = <<p, k>> /\ off[p] + k = i
  <2>1. \A p \in 1..n : \A k : k \in Occurrences(stack[p], w)
                               <=> k \in 1..Len(stack[p]) /\ off[p] + k = i
    BY <1>4 DEF Occurrences
  <2>2. \A p : \A x : x \in {p} \X Occurrences(stack[p], w)
                      <=> \E k \in Occurrences(stack[p], w) : x = <<p, k>>
    OBVIOUS
  <2>3. \A x : x \in OnStack(w) <=> \E p \in 1..n : x \in {p} \X Occurrences(stack[p], w)
    BY DEF OnStack, n
  <2> HIDE DEF w
  <2>4. ASSUME NEW x, x \in OnStack(w)
        PROVE  \E p \in 1..n : \E k \in 1..Len(stack[p]) : x = <<p, k>> /\ off[p] + k = i
    <3>1. PICK p \in 1..n : x \in {p} \X Occurrences(stack[p], w)
      BY <2>3, <2>4
    <3>2. PICK k \in Occurrences(stack[p], w) : x = <<p, k>>
      BY <2>2, <3>1
    <3> QED BY <2>1, <3>2
  <2>5. ASSUME NEW p \in 1..n, NEW k \in 1..Len(stack[p]), off[p] + k = i
        PROVE  <<p, k>> \in OnStack(w)
    <3>1. k \in Occurrences(stack[p], w)
      BY <2>1, <2>5
    <3>2. <<p, k>> \in {p} \X Occurrences(stack[p], w)
      BY <3>1
    <3> QED BY <2>3, <3>2
  <2> QED BY <2>4, <2>5
\* parts do not overlap
<1>6. ASSUME NEW p \in 1..n, NEW q \in 1..n, p < q
      PROVE  off[p + 1] <= off[q]
  <2>1. p + 1 \in 1..n + 1 /\ q \in 1..n + 1 /\ (p + 1 = q \/ p + 1 < q)
    BY <1>1, <1>6
  <2>2. off[p + 1] \in Nat /\ off[q] \in Nat
    BY <1>3
  <2> QED BY <1>2, <2>1, <2>2
<1>7. CASE i <= Len(rows)
  <2>1. \A p \in 1..n : Len(rows) <= off[p]
    <3> TAKE p \in 1..n
    <3>1. p \in 1..n + 1 /\ 1 \in 1..n + 1 /\ (p = 1 \/ 1 < p) /\ 1 \in 1..n
      BY <1>1
    <3>2. off[p] \in Nat /\ off[1] \in Nat
      BY <1>3, <3>1
    <3> QED BY <1>2, <3>1, <3>2
  <2>2. ASSUME NEW p \in 1..n, NEW k \in 1..Len(stack[p]) PROVE off[p] + k # i
    <3>1. off[p] \in Nat /\ Len(rows) \in Nat /\ i \in Nat /\ Len(rows) <= off[p]
      BY <1>1, <1>3, <2>1, TypesOfRows
    <3> QED BY <1>4, <1>7, <3>1
  <2>3. OnStack(w) = {}
    BY <1>5, <2>2
  <2> QED BY <1>7, <2>3
<1>8. CASE ~(i <= Len(rows))
  <2> DEFINE T == {p \in 1..n : i <= off[p + 1]}
  <2>1. n \in T
    BY <1>1, <1>2
  <2>2. PICK p \in T : \A q \in T : p <= q
    <3>1. T \subseteq Nat /\ T # {}
      BY <2>1
    <3> HIDE DEF T
    <3> QED BY <3>1, NatLeast
  <2>3. p \in 1..n /\ i <= off[p + 1] /\ off[p] \in Nat /\ off[p + 1] \in Nat
    BY <1>3
  <2>4. off[p] < i
    <3>1. CASE p = 1
      BY <1>2, <1>8, <2>3, <3>1
    <3>2. CASE p # 1
      <4>1. p - 1 \in 1..n /\ ~(p <= p - 1) /\ (p - 1) + 1 = p
        BY <1>1, <2>3, <3>2
      <4>2. ~(i <= off[p])
        BY <2>2, <4>1
      <4> QED BY <2>3, <4>2
    <3> QED BY <3>1, <3>2
  <2> DEFINE k == i - off[p]
  <2>5. k \in 1..Len(stack[p]) /\ off[p] + k = i
    <3>1. Len(stack[p]) = off[p + 1] - off[p]
      BY <1>3, <2>3
    <3> QED BY <2>3, <2>4, <3>1
  <2>6. ASSUME NEW q \in 1..n, NEW m \in 1..Len(stack[q]), off[q] + m = i
        PROVE  q = p /\ m = k
    <3>1. off[q] < i /\ i <= off[q + 1] /\ off[q] \in Nat /\ off[q + 1] \in Nat /\ i \in Nat
      BY <1>3, <1>4, <2>6
    <3>2. ~(q < p)
      <4> SUFFICES ASSUME q < p PROVE FALSE
        OBVIOUS
      <4>1. off[q + 1] <= off[p]
        BY <1>6, <2>3
      <4> QED BY <2>3, <2>4, <3>1, <4>1
    <3>3. ~(p < q)
      <4> SUFFICES ASSUME p < q PROVE FALSE
        OBVIOUS
      <4>1. off[p + 1] <= off[q]
        BY <1>6, <2>3
      <4> QED BY <2>3, <3>1, <4>1
    <3>4. q = p
      BY <1>1, <2>3, <3>2, <3>3
    <3>5. m \in Nat
      BY <1>3, <3>1
    <3> QED BY <2>3, <2>6, <3>4, <3>5
  <2>7. OnStack(w) = {<<p, k>>}
    <3> HIDE DEF T, k, w
    <3>1. \A x : x \in OnStack(w) <=> x = <<p, k>>
      BY <1>5, <2>3, <2>5, <2>6
    <3> QED BY <3>1
  <2> QED BY <1>8, <2>7 DEF One
<1> QED BY <1>7, <1>8

\* work that waits for its record is in a part, or in a row
LEMMA OneWaiting ==
    ASSUME IInv, pc \notin Ended, NEW w \in Work
    PROVE  LET at == {<<"stack", k>> : k \in OnStack(w)} \cup {<<"rows", k>> : k \in RowsOf(w)}
           IN  IF w \in Waiting THEN One(at) ELSE at = {}
<1>1. /\ TypeOK /\ Ordered /\ Len(rows) \in Nat /\ done \in Nat
      /\ pc \in {"pull", "predict", "outcome", "write"}
  BY TypesOfRows DEF IInv, TypeOK
<1>2. stack = <<>> => OnStack(w) = {}
  BY DEF OnStack
<1>3. CASE pc = "pull"
  <2>1. rows = <<>> /\ stack = <<>> /\ done = 0 /\ Waiting = {}
    BY <1>3, AtPull DEF Waiting
  <2>2. RowsOf(w) = {}
    BY <2>1 DEF RowsOf
  <2> QED BY <1>2, <2>1, <2>2
<1>4. CASE pc = "write"
  <2>1. OnStack(w) = {}
    BY <1>2, <1>4 DEF IInv, Predicting
  <2>2. Waiting = {rows[k].work : k \in (done + 1)..Len(rows)}
    BY <1>4 DEF Waiting
  <2>3. CASE w \in Waiting
    <3>1. PICK k \in (done + 1)..Len(rows) : rows[k].work = w
      BY <2>2, <2>3
    <3>2. \A j \in (done + 1)..Len(rows) : j \in 1..Len(rows)
      BY <1>1
    <3>3. RowsOf(w) = {k}
      BY <1>4, <3>1, <3>2 DEF IInv, RowsApart, RowsOf
    <3>4. {<<"rows", j>> : j \in RowsOf(w)} = {<<"rows", k>>}
      BY <3>3
    <3> QED BY <2>1, <2>3, <3>4 DEF One
  <2>4. CASE w \notin Waiting
    <3>1. RowsOf(w) = {}
      BY <2>2, <2>4 DEF RowsOf
    <3> QED BY <2>1, <2>4, <3>1
  <2> QED BY <2>3, <2>4
<1>5. CASE pc \in {"predict", "outcome"}
  <2>1. /\ done = 0 /\ Waiting = Elements(batch) /\ RowsOfBatch
        /\ stack # <<>> => \E off : Cut(off)
        /\ stack = <<>> => Len(rows) = Len(batch)
    BY <1>5 DEF IInv, Predicting, Waiting
  <2>2. /\ batch \in Seq(Work) /\ Len(batch) \in Nat /\ InPlanOrder(batch)
    BY <1>1, TypesOfQueues DEF Ordered
  <2>3. Len(rows) <= Len(batch)
    <3>1. CASE stack = <<>>
      BY <2>1, <2>2, <3>1
    <3>2. CASE stack # <<>>
      <4>1. PICK off : Cut(off)
        BY <2>1, <3>2
      <4>2. off[1] \in 0..Len(batch) /\ off[1] = Len(rows)
        BY <1>1, <3>2, <4>1, PartOfBatch
      <4> QED BY <2>2, <4>2
    <3> QED BY <3>1, <3>2
  <2>4. RowsOf(w) = {k \in 1..Len(rows) : batch[k] = w}
    <3>1. done + 1 = 1
      BY <2>1
    <3> QED BY <2>1, <3>1 DEF RowsOf, RowsOfBatch
  <2>5. CASE w \notin Waiting
    <3>1. \A k \in 1..Len(batch) : batch[k] # w
      BY <2>1, <2>5 DEF Elements
    <3>2. RowsOf(w) = {}
      <4>1. \A k \in 1..Len(rows) : k \in 1..Len(batch)
        BY <1>1, <2>2, <2>3
      <4> QED BY <2>4, <3>1, <4>1
    <3>3. OnStack(w) = {}
      <4>1. CASE stack = <<>>
        BY <1>2, <4>1
      <4>2. CASE stack # <<>>
        <5>1. PICK off : Cut(off)
          BY <2>1, <4>2
        <5>2. ASSUME NEW p \in 1..Len(stack), NEW k \in 1..Len(stack[p]) PROVE stack[p][k] # w
          <6>1. Elements(stack[p]) \subseteq Elements(batch)
            BY <1>1, <4>2, <5>1, PartsOfBatch
          <6> QED BY <2>1, <2>5, <6>1 DEF Elements
        <5> QED BY <5>2 DEF OnStack, Occurrences
      <4> QED BY <4>1, <4>2
    <3> QED BY <2>5, <3>2, <3>3
  <2>6. CASE w \in Waiting
    <3>1. PICK i \in 1..Len(batch) : batch[i] = w
      BY <2>1, <2>6 DEF Elements
    <3>2. \A k \in 1..Len(rows) : k \in 1..Len(batch)
      BY <1>1, <2>2, <2>3
    <3>3. CASE i <= Len(rows)
      <4>1. i \in 1..Len(rows)
        BY <1>1, <2>2, <3>3
      <4>2. RowsOf(w) = {i}
        BY <2>2, <2>4, <3>1, <3>2, <4>1, NoTwice
      <4>3. OnStack(w) = {}
        BY <1>1, <1>2, <2>1, <3>1, <3>3, OneOnStack
      <4>4. {<<"rows", k>> : k \in RowsOf(w)} = {<<"rows", i>>}
        BY <4>2
      <4> QED BY <2>6, <4>3, <4>4 DEF One
    <3>4. CASE ~(i <= Len(rows))
      <4>1. RowsOf(w) = {}
        <5>1. ASSUME NEW k \in 1..Len(rows), batch[k] = w PROVE FALSE
          <6>1. k = i
            BY <2>2, <3>1, <3>2, <5>1, NoTwice
          <6> QED BY <1>1, <3>4, <6>1
        <5> QED BY <2>4, <5>1
      <4>2. stack # <<>>
        BY <1>1, <2>1, <2>2, <3>4
      <4>3. PICK x : OnStack(w) = {x}
        BY <1>1, <2>1, <3>1, <3>4, <4>2, OneOnStack DEF One
      <4>4. {<<"stack", k>> : k \in OnStack(w)} = {<<"stack", x>>}
        BY <4>3
      <4> QED BY <2>6, <4>1, <4>4 DEF One
    <3> QED BY <3>3, <3>4
  <2> QED BY <2>5, <2>6
<1> QED BY <1>1, <1>3, <1>4, <1>5

\* the invariant gives: nothing is lost or doubled
LEMMA OnePlace ==
    ASSUME IInv
    PROVE  NothingLostOrDoubled
<1> SUFFICES ASSUME pc \notin Ended, ~Abandoning, NEW w \in Work
             PROVE  \E p \in Places(w) : Places(w) = {p}
  BY DEF NothingLostOrDoubled
<1>1. TypeOK /\ Ordered
  BY DEF IInv
<1> DEFINE A1 == {<<"untaken", 0>> : n \in IF w \in Untaken THEN {0} ELSE {}}
<1> DEFINE A2 == {<<"ready", k>> : k \in Occurrences(ready, w)}
<1> DEFINE A3 == {<<"buffer", k>> : k \in Occurrences(buffer, w)}
<1> DEFINE A4 == {<<"stack", k>> : k \in OnStack(w)} \cup {<<"rows", k>> : k \in RowsOf(w)}
<1> DEFINE A5 == {<<"record", 0>> : n \in IF record[w] # Absent THEN {0} ELSE {}}
<1>2. Places(w) = A1 \cup A2 \cup A3 \cup A4 \cup A5
  BY DEF Places
<1>3. IF w \in Untaken THEN One(A1) ELSE A1 = {}
  BY DEF One
<1>4. IF w \in Elements(ready) THEN One(A2) ELSE A2 = {}
  BY <1>1, TypesOfQueues, OneOccurrence DEF Ordered
<1>5. IF w \in Elements(buffer) THEN One(A3) ELSE A3 = {}
  BY <1>1, TypesOfQueues, OneOccurrence DEF Ordered
<1>6. IF w \in Waiting THEN One(A4) ELSE A4 = {}
  BY OneWaiting
<1>7. IF record[w] # Absent THEN One(A5) ELSE A5 = {}
  BY DEF One
<1> HIDE DEF A1, A2, A3, A4, A5
<1>8. /\ ~(w \in Elements(buffer) /\ w \in Elements(ready))
      /\ ~(w \in Elements(buffer) /\ w \in Untaken) /\ ~(w \in Elements(ready) /\ w \in Untaken)
  BY <1>1, QueuesApart
<1>9. ~(w \in Waiting /\ w \in Queued)
  <2>1. CASE pc \in {"predict", "outcome"}
    BY <1>1, <2>1, QueuesApart DEF Waiting
  <2>2. CASE pc = "write"
    <3>1. done \in Nat /\ \A k \in (done + 1)..Len(rows) : k \in 1..Len(rows)
      BY <1>1, TypesOfRows
    <3> QED BY <2>2, <3>1 DEF IInv, RowsApart, Waiting
  <2>3. CASE pc \notin {"predict", "outcome", "write"}
    BY <2>3 DEF Waiting
  <2> QED BY <2>1, <2>2, <2>3
<1>10. /\ record[w] # Absent => w \notin Queued \cup Waiting
       /\ w \in Queued \cup Waiting \/ record[w] # Absent
  BY DEF IInv, RecordedOnce, Covered
<1>11. One(Places(w))
  BY <1>2, <1>3, <1>4, <1>5, <1>6, <1>7, <1>8, <1>9, <1>10 DEF Queued
<1> QED BY <1>11 DEF One

-----------------------------------------------------------------------------
(* The theorems.                                                           *)

\* rows are predicted in plan order
LEMMA InOrder == ASSUME IInv PROVE PredictedInOrder
<1>1. TypeOK /\ Ordered
  BY DEF IInv
<1>2. InPlanOrder(batch \o buffer \o ready)
  <2>1. batch \in Seq(Work) /\ buffer \in Seq(Work) /\ ready \in Seq(Work)
    BY <1>1, TypesOfQueues
  <2>2. InPlanOrder(batch \o buffer)
    BY <1>1, <2>1, OrderOfConcat DEF Ordered
  <2>3. batch \o buffer \in Seq(Work)
    BY <2>1, ConcatProperties
  <2>4. Elements(batch \o buffer) = Elements(batch) \cup Elements(buffer)
    BY <2>1, MembersOfConcat, ElementsAreMembers
  <2>5. Ahead(Elements(batch \o buffer), Elements(ready))
    BY <1>1, <2>4 DEF Ordered, Ahead
  <2> QED BY <1>1, <2>1, <2>2, <2>3, <2>5, OrderOfConcat DEF Ordered
<1>3. pc = "outcome" => Len(rows) = Len(batch) /\ \A k \in 1..Len(batch) : rows[k].work = batch[k]
  BY DEF IInv, Predicting, RowsOfBatch
<1> QED BY <1>2, <1>3 DEF PredictedInOrder

\* no part is empty, mixed or too large
LEMMA PartsFit == ASSUME IInv PROVE PartsFitTheModel
<1>1. TypeOK /\ OneShape(batch) /\ Len(batch) <= InitialBatchSize /\ Len(batch) \in Nat
  BY TypesOfQueues DEF IInv, Fitting
<1> SUFFICES ASSUME NEW p \in 1..Len(stack)
             PROVE  /\ stack[p] # <<>> /\ Len(stack[p]) <= TargetBatchSize
                    /\ MaxBatchSize # NoLimit => Len(stack[p]) <= MaxBatchSize
                    /\ \A v, w \in Elements(stack[p]) : Shape[v] = Shape[w]
  BY DEF PartsFitTheModel
<1>2. stack # <<>>
  OBVIOUS
<1>3. PICK off : Cut(off)
  BY <1>2 DEF IInv, Predicting
<1>4. /\ stack[p] # <<>> /\ Len(stack[p]) \in Nat /\ Len(stack[p]) <= Len(batch)
      /\ Elements(stack[p]) \subseteq Elements(batch)
  BY <1>1, <1>3, PartsOfBatch
<1>5. Len(stack[p]) <= TargetBatchSize
  BY <1>1, <1>4, BatchSizes, RuntimeAssumption
<1>6. MaxBatchSize # NoLimit => Len(stack[p]) <= MaxBatchSize
  BY <1>1, <1>4, BatchSizes, RuntimeAssumption
<1> QED BY <1>1, <1>4, <1>5, <1>6 DEF OneShape

\* with fail_fast the first failure is the last
LEMMA FailuresStop == ASSUME IInv PROVE FailFastStops
BY DEF IInv, TypeOK, Failing, FailFastStops

\* Whatever fails, is split, cancelled or given up: batches are pieces of the
\* plan in its order, fit the model, and hold every piece of work once.
THEOREM BatchesSound == Spec => []BatchesAreSound
<1>1. IInv => BatchesAreSound
  BY OnePlace, InOrder, PartsFit, FailuresStop DEF BatchesAreSound, IInv
<1> QED BY <1>1, Invariant, PTL

\* BatchSizeState.record_oom never lets the cap grow, and every batch that is
\* submitted is within it.
THEOREM CapHolds == Spec => SubmissionsFollowTheCap
<1> DEFINE Follows == cap' <= cap /\ (pc = "pull" /\ pc' = "predict" => Len(batch') <= cap)
<1>1. ASSUME IInv, [Next]_vars
      PROVE  Follows \/ UNCHANGED vars
  <2>1. /\ TypeOK /\ cap \in Nat /\ Len(buffer) \in Nat /\ buffer \in Seq(Work)
    BY <1>1, TypesOfQueues, BatchSizes DEF IInv, TypeOK
  <2>2. CASE Prepare
    <3>1. CASE \E inWorker, inMask \in SUBSET Elements(NextUnit) : PrepareChunk(inWorker, inMask)
      <4>1. cap' = cap /\ (pc' = "pull" \/ pc' = "write")
        BY <3>1 DEF PrepareChunk
      <4> QED BY <2>1, <4>1
    <3>2. CASE SeeCancel \/ LoadFails \/ LoadSample \/ \E item \in Elements(NextUnit) : AbandonChunk(item)
      <4>1. cap' = cap /\ (pc' = pc \/ pc' = "write" \/ pc' = "cancelled")
        BY <3>2 DEF SeeCancel, LoadFails, LoadSample, AbandonChunk
      <4> QED BY <2>1, <4>1
    <3> QED BY <2>2, <3>1, <3>2 DEF Prepare
  <2>3. CASE Buffer
    BY <2>1, <2>3 DEF Buffer
  <2>4. CASE SubmitFull
    <3>1. cap \in 0..Len(buffer)
      BY <2>1, <2>4 DEF SubmitFull
    <3>2. Len(SubSeq(buffer, 1, cap)) = cap
      BY <1>1, <2>1, <3>1, OrderOfPieces DEF IInv, Ordered
    <3> QED BY <2>1, <2>4, <3>2 DEF SubmitFull, Submit
  <2>5. CASE SubmitBeforeNewShape \/ SubmitRest
    BY <2>1, <2>5 DEF SubmitBeforeNewShape, SubmitRest, Submit
  <2>6. CASE Answer
    <3>1. pc = "predict"
      BY <2>6 DEF Answer, PredictOk, PredictRaises, OomAlone, OomSplit
    <3>2. CASE RecordOom
      <4>1. /\ stack # <<>>
            /\ \E off : Cut(off)
        BY <1>1, <3>1 DEF IInv, Predicting
      <4>2. Len(Part) \in Nat
        BY <2>1, <4>1, PartOfBatch, LenProperties
      <4> QED BY <2>1, <3>1, <3>2, <4>2, OomShrinks
    <3>3. CASE cap' = cap
      BY <2>1, <3>1, <3>3
    <3> QED BY <2>6, <3>2, <3>3 DEF Answer, PredictOk, PredictRaises, OomAlone, OomSplit
  <2>7. CASE CleanupRaises \/ Outcome \/ Write \/ Written \/ EndClean \/ Finish
    BY <2>1, <2>7 DEF CleanupRaises, Outcome, Write, Written, AfterRows, EndClean, Drained, Finish
  <2>8. CASE Disturb
    BY <2>1, <2>8 DEF Disturb, Break, WriterRaises, Cancel
  <2> QED BY <1>1, <2>2, <2>3, <2>4, <2>5, <2>6, <2>7, <2>8 DEF Next, Proceed, Advance, Rebatch
<1>2. IInv /\ [Next]_vars => [Follows]_vars
  BY <1>1
<1> QED BY <1>2, Invariant, PTL DEF Spec, SubmissionsFollowTheCap

\* Once the token is set, a run writes no more than the rows it is at, and
\* never reports completion.
THEOREM CancelObserved == Spec => CancelIsObserved
<1> DEFINE Observes == token => /\ record' # record => pc = "write"
                                /\ pc' = "write" => pc = "write"
                                /\ pc' = "completed" => pc = "completed"
<1>1. ASSUME Next, token
      PROVE  Observes
  <2>1. CASE Prepare
    BY <1>1, <2>1 DEF Prepare, Pulling, SeeCancel, LoadFails, LoadSample, PrepareChunk,
       AbandonChunk, written
  <2>2. CASE Rebatch
    BY <2>2 DEF Rebatch, Buffer, SubmitFull, SubmitBeforeNewShape, SubmitRest, Submit, written
  <2>3. CASE Answer
    BY <2>3 DEF Answer, PredictOk, PredictRaises, OomAlone, OomSplit, Predicted, written
  <2>4. CASE CleanupRaises
    BY <2>4 DEF CleanupRaises, written
  <2>5. CASE Outcome \/ Finish \/ EndClean
    BY <1>1, <2>5 DEF Outcome, Finish, EndClean, Drained, written
  <2>6. CASE Write \/ Written
    BY <2>6 DEF Write, Written, AfterRows
  <2>7. CASE Disturb
    BY <1>1, <2>7 DEF Disturb, Break, WriterRaises, Cancel, written
  <2> QED BY <1>1, <2>1, <2>2, <2>3, <2>4, <2>5, <2>6, <2>7 DEF Next, Proceed, Advance
<1>2. [Next]_vars => [Observes]_vars
  BY <1>1
<1> QED BY <1>2, PTL DEF Spec, CancelIsObserved

-----------------------------------------------------------------------------
(* Runtime implements WorkList.                                            *)

\* the row at hand is of work that has no record, and in its turn
LEMMA RowIsDue ==
    ASSUME IInv, pc = "write", done < Len(rows)
    PROVE  LET w == rows[done + 1].work IN
           /\ w \in Work /\ rows[done + 1].status \in Statuses /\ record[w] = Absent
           /\ w \in Perturbed => \A s \in Clean : record[s] # Absent
<1> DEFINE w == rows[done + 1].work
<1>1. TypeOK /\ pc \notin Ended
  BY DEF IInv, Ended
<1>2. /\ done + 1 \in 1..Len(rows) /\ done + 1 \in (done + 1)..Len(rows)
      /\ w \in Work /\ rows[done + 1].status \in Statuses
  BY <1>1, TypesOfRows
<1>3. w \in Waiting /\ w \notin Queued
  BY <1>2 DEF IInv, Waiting, RowsApart
<1> HIDE DEF w
<1>4. record[w] = Absent
  BY <1>1, <1>2, <1>3 DEF IInv, RecordedOnce
<1>5. w \in Perturbed => phase = "perturbed"
  <2>1. phase = "clean" => Perturbed \subseteq Queued
    BY DEF Untaken, Queued
  <2> QED BY <1>1, <1>3, <2>1 DEF TypeOK
<1>6. w \in Perturbed => \A s \in Clean : record[s] # Absent
  BY <1>1, <1>5 DEF IInv, CleanFirst
<1> QED BY <1>2, <1>4, <1>6 DEF w

\* when the second phase is drained all work has a record
LEMMA AllRecorded ==
    ASSUME IInv, Drained, phase = "perturbed"
    PROVE  \A w \in Work : record[w] # Absent
<1>1. /\ pc = "pull" /\ Exhausted /\ ready = <<>> /\ buffer = <<>>
  BY DEF Drained
<1>2. Elements(ready) = {} /\ Elements(buffer) = {}
  BY <1>1, MembersOfEmpty, ElementsAreMembers
<1>3. Untaken = {}
  <2>1. Len(Units) \in Nat /\ taken = Len(Units)
    BY <1>1, UnitsOfPhase DEF Exhausted
  <2>2. (taken + 1)..Len(Units) = {}
    BY <2>1
  <2> QED BY <2>2 DEF Untaken
<1> QED BY <1>1, <1>2, <1>3, AtPull DEF Queued

\* only writing, a writer that raises and the end of a run change records or complete it
LEMMA QuietStep ==
    ASSUME [Next]_vars, ~Write, ~WriterRaises, ~Finish
    PROVE  /\ record' = record
           /\ pc' = pc \/ (pc \notin Ended /\ pc' # "completed")
<1>1. CASE Prepare
  <2>1. CASE \E inWorker, inMask \in SUBSET Elements(NextUnit) : PrepareChunk(inWorker, inMask)
    <3>1. record' = record /\ (pc' = "pull" \/ pc' = "write")
      BY <2>1 DEF PrepareChunk, written
    <3> QED BY <1>1, <3>1 DEF Prepare, Pulling, Ended
  <2>2. CASE SeeCancel \/ LoadFails \/ LoadSample \/ \E item \in Elements(NextUnit) : AbandonChunk(item)
    <3>1. record' = record /\ (pc' = pc \/ pc' = "write" \/ pc' = "cancelled")
      BY <2>2 DEF SeeCancel, LoadFails, LoadSample, AbandonChunk, written
    <3> QED BY <1>1, <3>1 DEF Prepare, Pulling, Ended
  <2> QED BY <1>1, <2>1, <2>2 DEF Prepare
<1>2. CASE Rebatch
  BY <1>2 DEF Rebatch, Buffer, SubmitFull, SubmitBeforeNewShape, SubmitRest, Submit, written, Ended
<1>3. CASE Answer
  BY <1>3 DEF Answer, PredictOk, PredictRaises, OomAlone, OomSplit, Predicted, written, Ended
<1>4. CASE CleanupRaises
  BY <1>4 DEF CleanupRaises, written, Ended
<1>5. CASE Outcome \/ EndClean
  BY <1>5 DEF Outcome, EndClean, Drained, written, Ended
<1>6. CASE Written
  BY <1>6 DEF Written, AfterRows, Ended
<1>7. CASE Break \/ Cancel
  BY <1>7 DEF Break, Cancel, written, Ended
<1>8. CASE UNCHANGED vars
  BY <1>8 DEF vars, written
<1> QED BY <1>1, <1>2, <1>3, <1>4, <1>5, <1>6, <1>7, <1>8
        DEF Next, Proceed, Advance, Disturb

\* Every piece of work is recorded at most once, clean samples first, and a
\* run that completes has recorded all of it.
THEOREM WorkListImplemented == Spec => ImplementsWorkList
<1> DEFINE Mapped == IF pc \in {"cancelled", "failed"} THEN "stopped"
                     ELSE IF pc = "completed" THEN "completed" ELSE "running"
<1>1. Init => List!Init
  BY DEF Init, List!Init, List!Work, Work
<1>2. ASSUME IInv, [Next]_vars
      PROVE  [List!Next]_(List!vars)
  <2>1. CASE Write
    <3> DEFINE w == rows[done + 1].work
    <3> DEFINE v == rows[done + 1].status
    <3>1. /\ pc = "write" /\ pc' = pc /\ done < Len(rows)
          /\ record' = [record EXCEPT ![w] = v]
      BY <2>1 DEF Write
    <3>2. /\ w \in Work /\ v \in Statuses /\ record[w] = Absent
          /\ w \in Perturbed => \A s \in Clean : record[s] # Absent
      BY <1>2, <3>1, RowIsDue
    <3> HIDE DEF w, v
    <3>3. List!Record(w, v)
      BY <3>1, <3>2 DEF List!Record
    <3> QED BY <3>2, <3>3 DEF List!Next, List!Work, Work
  <2>2. CASE WriterRaises
    <3> DEFINE w == rows[done + 1].work
    <3> DEFINE v == rows[done + 1].status
    <3>1. /\ pc = "write" /\ pc' = "failed" /\ done < Len(rows)
          /\ record' \in {record, [record EXCEPT ![w] = v]}
      BY <2>2 DEF WriterRaises
    <3>2. /\ w \in Work /\ v \in Statuses /\ record[w] = Absent
          /\ w \in Perturbed => \A s \in Clean : record[s] # Absent
      BY <1>2, <3>1, RowIsDue
    <3> HIDE DEF w, v
    <3>3. List!Record(w, v) \/ List!Stop
      BY <3>1, <3>2 DEF List!Record, List!Stop
    <3> QED BY <3>2, <3>3 DEF List!Next, List!Work, Work
  <2>3. CASE Finish
    <3>1. /\ Drained /\ phase = "perturbed" /\ pc = "pull" /\ record' = record
          /\ pc' \in {"cancelled", "completed"}
      BY <2>3 DEF Finish, Drained, written
    <3>2. \A w \in Work : record[w] # Absent
      BY <1>2, <3>1, AllRecorded
    <3>3. List!Complete \/ List!Stop
      BY <3>1, <3>2 DEF List!Complete, List!Stop, List!Work, Work
    <3> QED BY <3>3 DEF List!Next
  <2>4. CASE ~Write /\ ~WriterRaises /\ ~Finish
    <3>1. /\ record' = record
          /\ pc' = pc \/ (pc \notin Ended /\ pc' # "completed")
      BY <1>2, <2>4, QuietStep
    <3>2. CASE pc' \in {"cancelled", "failed"} /\ pc \notin Ended
      BY <3>1, <3>2 DEF List!Next, List!Stop, Ended
    <3>3. CASE ~(pc' \in {"cancelled", "failed"} /\ pc \notin Ended)
      <4>1. Mapped' = Mapped
        BY <3>1, <3>3 DEF Ended
      <4> QED BY <3>1, <4>1 DEF List!vars
    <3> QED BY <3>2, <3>3
  <2> QED BY <2>1, <2>2, <2>3, <2>4
<1>3. IInv /\ [Next]_vars => [List!Next]_(List!vars)
  BY <1>2
<1> QED BY <1>1, <1>3, Invariant, PTL DEF Spec, ImplementsWorkList, List!Spec

-----------------------------------------------------------------------------
(* Measurements: calls and outcomes.                                       *)

\* the model was asked about w: there is a row, or the record, that says so
OfModel == {"ok", "predict_failed", "skipped_oom"}
InRows(w) == \E k \in 1..Len(rows) : rows[k].work = w /\ rows[k].status \in OfModel
IsAsked(w) == record[w] \in OfModel \/ InRows(w)
Asked(W) == {w \in W : IsAsked(w)}

\* A full binary tree with r leaves has r - 1 other nodes. While a batch is
\* predicted each part on the stack may still cost as many calls as it has
\* items and splits, and the first of them is one that was not counted yet.
AtLeast(n, r) == n * InitialBatchSize >= r
AtMost(n, r, parts) == n <= 2 * r + parts - 1
CallsOK(n, W, predicting) ==
    /\ n \in Nat /\ AtLeast(n, Cardinality(Asked(W)))
    /\ IF predicting THEN AtMost(n, Cardinality(Asked(W)), Len(stack))
       ELSE n = 0 \/ AtMost(n, Cardinality(Asked(W)), 0)
Predicts(p) == pc = "predict" /\ phase = p
Counting == Measurable /\ pc \notin {"cancelled", "failed"}
CallsInv ==
    /\ calls = Absence \/ calls = [clean |-> calls.clean, perturbed |-> calls.perturbed]
    /\ Counting =>
          /\ CallsOK(calls.clean, Clean, Predicts("clean"))
          /\ CallsOK(calls.perturbed, Perturbed, Predicts("perturbed"))
RowsKept == pc = "write" => \A k \in 1..done : record[rows[k].work] = rows[k].status
AllDone == pc = "completed" => rows = <<>> /\ \A w \in Work : record[w] # Absent
CountInv == CallsInv /\ RowsKept /\ AllDone

\* a step of a measurement is a step of a run
LEMMA MeasuredSteps ==
    ASSUME [MeasureNext]_measuring
    PROVE  [Next]_vars
<1>1. CountedAnswer => Next
  BY DEF CountedAnswer, Next, Proceed
<1>2. Abort => Next
  BY DEF Abort, Next, Proceed
<1>3. Advance \/ Disturb => Next
  BY DEF Next, Proceed
<1> QED BY <1>1, <1>2, <1>3 DEF MeasureNext, measuring

\* a sequence that repeats nothing has as many members as items
LEMMA AsManyMembers ==
    ASSUME NEW A, NEW s \in Seq(A), \A j, k \in 1..Len(s) : s[j] = s[k] => j = k
    PROVE  IsFiniteSet(Elements(s)) /\ Cardinality(Elements(s)) = Len(s)
<1>1. Len(s) \in Nat
  BY LenProperties
<1>2. IsFiniteSet(1..Len(s)) /\ Cardinality(1..Len(s)) = Len(s)
  <2>1. \A n \in Nat : IsFiniteSet(1..n) /\ Cardinality(1..n) = IF 1 > n THEN 0 ELSE n - 1 + 1
    BY FS_Interval
  <2> QED BY <1>1, <2>1
<1> DEFINE n == Len(s)
<1> DEFINE f == [k \in 1..n |-> s[k]]
<1>3. f \in [1..n -> Elements(s)]
  BY DEF Elements
<1>4. \A y \in Elements(s) : \E k \in 1..n : f[k] = y
  BY DEF Elements
<1>5. \A j, k \in 1..n : f[j] = f[k] => j = k
  OBVIOUS
<1>6. f \in Bijection(1..n, Elements(s))
  <2> HIDE DEF f, n
  <2>1. f \in Injection(1..n, Elements(s))
    BY <1>3, <1>5 DEF Injection, IsInjective
  <2>2. f \in Surjection(1..n, Elements(s))
    BY <1>3, <1>4 DEF Surjection
  <2> QED BY <2>1, <2>2 DEF Bijection
<1>7. ExistsBijection(1..n, Elements(s))
  BY <1>6 DEF ExistsBijection
<1> QED BY <1>2, <1>7, FS_Bijection

\* all work is finite
LEMMA WorkIsFinite == IsFiniteSet(Clean) /\ IsFiniteSet(Perturbed)
<1>1. \A n \in Nat : IsFiniteSet(1..n)
  BY FS_Interval
<1>2. \A s : Len(s) \in Nat => IsFiniteSet(Elements(s))
  <2> SUFFICES ASSUME NEW s, Len(s) \in Nat PROVE IsFiniteSet(Elements(s))
    OBVIOUS
  <2> DEFINE f == [k \in 1..Len(s) |-> s[k]]
  <2>1. f \in Surjection(1..Len(s), Elements(s))
    BY DEF Surjection, Elements
  <2> QED BY <1>1, <2>1, FS_Surjection
<1>3. IsFiniteSet(Clean)
  BY <1>2, PlanTypes DEF Clean
<1>4. IsFiniteSet(Elements(Chunks)) /\ \A c \in Elements(Chunks) : IsFiniteSet(Elements(c))
  BY <1>2, PlanTypes DEF Elements
<1>5. IsFiniteSet({Elements(c) : c \in Elements(Chunks)})
  <2> DEFINE S == Elements(Chunks)
  <2> DEFINE T == {Elements(c) : c \in S}
  <2> DEFINE f == [c \in S |-> Elements(c)]
  <2> HIDE DEF S
  <2>1. f \in Surjection(S, T)
    BY DEF Surjection
  <2>2. IsFiniteSet(S)
    BY <1>4 DEF S
  <2> HIDE DEF f, T
  <2>3. IsFiniteSet(T)
    BY <2>1, <2>2, FS_Surjection
  <2> QED BY <2>3 DEF S, T
<1>6. \A e \in {Elements(c) : c \in Elements(Chunks)} : IsFiniteSet(e)
  BY <1>4
<1>7. IsFiniteSet(Perturbed)
  BY <1>5, <1>6, FS_UNION DEF Perturbed
<1> QED BY <1>3, <1>7

\* rows of failed preparations are not about the model
LEMMA UnaskedRows ==
    ASSUME NEW s \in Seq(Work), NEW status \in {"load_failed", "prepare_failed"},
           rows' = Marked(s, status)
    PROVE  \A w : ~InRows(w)'
<1>1. status \in Statuses /\ status \notin OfModel
  BY DEF Statuses, Failures, OfModel
<1>2. \A k \in 1..Len(s) : Marked(s, status)[k].status = status
  BY <1>1, MarkedRows
<1>3. Len(Marked(s, status)) = Len(s)
  BY <1>1, MarkedRows
<1> QED BY <1>1, <1>2, <1>3 DEF InRows

\* without rows nothing was asked that has no record
LEMMA NoRows == ASSUME rows = <<>> PROVE \A w : ~InRows(w)
<1>1. Len(rows) = 0
  BY EmptySeq
<1> QED BY <1>1 DEF InRows

\* what a unit becomes is not about the model
LEMMA PrepareAsks ==
    ASSUME IInv, Prepare, ~SeeCancel
    PROVE  /\ record' = record /\ phase' = phase /\ pc = "pull" /\ pc' \in {"pull", "write"}
           /\ done' = done /\ done = 0
           /\ \A w : IsAsked(w)' <=> IsAsked(w)
<1>1. pc = "pull" /\ ~Exhausted /\ rows = <<>> /\ done = 0 /\ TypeOK
  <2>1. pc = "pull" /\ ~Exhausted
    BY DEF Prepare, Pulling
  <2> QED BY <2>1, AtPull DEF IInv
<1>2. \A w : ~InRows(w)
  BY <1>1, NoRows
<1>3. ASSUME record' = record, \A w : ~InRows(w)'
      PROVE  \A w : IsAsked(w)' <=> IsAsked(w)
  BY <1>2, <1>3 DEF IsAsked
<1>4. CASE LoadFails
  <2>1. Take /\ record' = record /\ pc' = "write" /\ done' = done
        /\ rows' = Marked(NextUnit, "load_failed")
    BY <1>4 DEF LoadFails, written
  <2>2. NextUnit \in Seq(Work) /\ phase' = phase
    BY <1>1, <2>1, Take1
  <2>3. \A w : ~InRows(w)'
    BY <2>1, <2>2, UnaskedRows
  <2> QED BY <1>1, <1>3, <2>1, <2>2, <2>3
<1>5. CASE LoadSample
  <2>1. phase' = phase /\ record' = record /\ pc' = pc /\ done' = done /\ rows' = rows
    BY <1>5 DEF LoadSample, Take, written
  <2>2. \A w : ~InRows(w)'
    BY <1>2, <2>1 DEF InRows
  <2> QED BY <1>1, <1>3, <2>1, <2>2
<1>6. ASSUME NEW inWorker \in SUBSET Elements(NextUnit), NEW inMask \in SUBSET Elements(NextUnit),
             PrepareChunk(inWorker, inMask)
      PROVE  /\ record' = record /\ phase' = phase /\ pc' \in {"pull", "write"} /\ done' = done
             /\ \A w : ~InRows(w)'
  <2> DEFINE s == Those(NextUnit, inWorker) \o Those(NextUnit, inMask)
  <2>1. Take /\ record' = record /\ pc' \in {"pull", "write"} /\ done' = done
        /\ rows' = Marked(s, "prepare_failed")
    BY <1>1, <1>6 DEF PrepareChunk, written
  <2>2. NextUnit \in Seq(Work) /\ InPlanOrder(NextUnit) /\ phase' = phase
    BY <1>1, <2>1, Take1
  <2>3. Those(NextUnit, inWorker) \in Seq(Work) /\ Those(NextUnit, inMask) \in Seq(Work)
    BY <2>2, ThoseFacts
  <2>4. s \in Seq(Work)
    BY <2>3
  <2> HIDE DEF s
  <2>5. \A w : ~InRows(w)'
    BY <2>1, <2>4, UnaskedRows
  <2> QED BY <2>1, <2>2, <2>5
<1>7. ASSUME NEW item \in Elements(NextUnit), AbandonChunk(item)
      PROVE  /\ record' = record /\ phase' = phase /\ pc' \in {"pull", "write"} /\ done' = done
             /\ \A w : ~InRows(w)'
  <2>1. Take /\ record' = record /\ pc' = "write" /\ done' = done
        /\ rows' = Marked(<<item>>, "prepare_failed")
    BY <1>7 DEF AbandonChunk, written
  <2>2. Elements(NextUnit) \subseteq Work /\ phase' = phase
    BY <1>1, <2>1, Take1
  <2>3. <<item>> \in Seq(Work)
    BY <2>2
  <2>4. \A w : ~InRows(w)'
    BY <2>1, <2>3, UnaskedRows
  <2> QED BY <2>1, <2>2, <2>4
<1> QED BY <1>1, <1>3, <1>4, <1>5, <1>6, <1>7 DEF Prepare

\* the row that is written is about work that had no record
LEMMA WriteAsks ==
    ASSUME IInv, RowsKept, Write
    PROVE  /\ RowsKept' /\ phase' = phase /\ pc = "write" /\ pc' = "write"
           /\ \A w : IsAsked(w)' <=> IsAsked(w)
<1> PICK x : x = rows[done + 1].work
  OBVIOUS
<1> PICK v : v = rows[done + 1].status
  OBVIOUS
<1>1. /\ pc = "write" /\ pc' = "write" /\ done < Len(rows) /\ rows' = rows /\ done' = done + 1
      /\ phase' = phase /\ record' = [record EXCEPT ![x] = v]
  BY DEF Write, stream
<1>2. TypeOK /\ \A j, k \in 1..Len(rows) : rows[j].work = rows[k].work => j = k
  BY <1>1 DEF IInv, RowsApart
<1>3. Len(rows) \in Nat /\ done \in 0..Len(rows) /\ x \in Work /\ record[x] = Absent
  <2>1. x \in Work /\ record[x] = Absent
    BY <1>1, RowIsDue
  <2> QED BY <1>2, <2>1, TypesOfRows
<1>4. done + 1 \in 1..Len(rows)
  BY <1>1, <1>3
<1>5. record \in [Work -> Statuses \cup {Absent}]
  BY <1>2 DEF TypeOK
<1>6. record'[x] = v /\ \A w : w # x => record'[w] = record[w]
  <2> QED BY <1>1, <1>3, <1>5
<1>7. RowsKept'
  <2> SUFFICES ASSUME NEW k \in 1..done + 1 PROVE record'[rows[k].work] = rows[k].status
    BY <1>1 DEF RowsKept
  <2>1. CASE k = done + 1
    BY <1>6, <2>1
  <2>2. CASE k # done + 1
    <3>1. k \in 1..done /\ k \in 1..Len(rows)
      BY <1>3, <2>2
    <3>2. rows[k].work # x
      BY <1>2, <1>4, <2>2, <3>1
    <3> QED BY <1>1, <1>6, <3>1, <3>2 DEF RowsKept
  <2> QED BY <2>1, <2>2
<1>8. \A w : InRows(w)' <=> InRows(w)
  BY <1>1 DEF InRows
<1>9. \A w : IsAsked(w)' <=> IsAsked(w)
  <2>1. ASSUME NEW w, w # x PROVE IsAsked(w)' <=> IsAsked(w)
    BY <1>6, <1>8, <2>1 DEF IsAsked
  <2>2. IsAsked(x)' <=> IsAsked(x)
    <3>1. Absent \notin OfModel
      BY AbsentAssumption DEF OfModel, Statuses, Failures
    <3>2. v \in OfModel <=> InRows(x)
      BY <1>2, <1>4 DEF InRows
    <3> QED BY <1>3, <1>6, <1>8, <3>1, <3>2 DEF IsAsked
  <2> QED BY <2>1, <2>2
<1> QED BY <1>1, <1>7, <1>9

\* when all rows are written, the record knows them
LEMMA WrittenAsks ==
    ASSUME IInv, RowsKept, Written
    PROVE  /\ RowsKept' /\ phase' = phase /\ pc = "write" /\ pc' \in {"pull", "failed"}
           /\ \A w : IsAsked(w)' <=> IsAsked(w)
<1>1. /\ pc = "write" /\ pc' \in {"pull", "failed"} /\ done = Len(rows) /\ rows' = <<>>
      /\ phase' = phase /\ record' = record
  BY DEF Written, AfterRows, stream
<1>2. \A w : ~InRows(w)'
  <2>1. Len(rows') = 0
    BY <1>1, EmptySeq
  <2> QED BY <2>1 DEF InRows
<1>3. \A w : InRows(w) => record[w] \in OfModel
  BY <1>1 DEF InRows, RowsKept
<1>4. RowsKept'
  BY <1>1 DEF RowsKept
<1> QED BY <1>1, <1>2, <1>3, <1>4 DEF IsAsked

\* what is predicted is of the phase the run is in
LEMMA BatchOfPhase ==
    ASSUME IInv, pc = "predict"
    PROVE  Elements(batch) \subseteq IF phase = "clean" THEN Clean ELSE Perturbed
<1>1. TypeOK /\ phase \in {"clean", "perturbed"} /\ Elements(batch) \subseteq Work
  BY TypesOfQueues DEF IInv, TypeOK
<1>2. CASE phase = "clean"
  <2>1. Perturbed \subseteq Queued
    BY <1>2 DEF Queued, Untaken
  <2>2. Elements(batch) \cap Queued = {}
    BY QueuesApart DEF IInv
  <2> QED BY <1>1, <1>2, <2>1, <2>2 DEF Work
<1>3. CASE phase = "perturbed"
  <2>1. /\ \A w \in Work : record[w] # Absent => w \notin Elements(batch)
        /\ \A s \in Clean : record[s] # Absent
    BY <1>3, AtPredict
  <2> QED BY <1>1, <1>3, <2>1 DEF Work
<1> QED BY <1>1, <1>2, <1>3

\* the part at the head of the stack: each of its items once, none of them asked
LEMMA PartIsNew ==
    ASSUME IInv, pc = "predict"
    PROVE  /\ Part \in Seq(Work) /\ Len(Part) \in 1..InitialBatchSize
           /\ Cardinality(Elements(Part)) = Len(Part) /\ IsFiniteSet(Elements(Part))
           /\ Elements(Part) \subseteq Elements(batch) /\ \A w \in Elements(Part) : ~IsAsked(w)
           /\ Len(stack) \in Nat \ {0} /\ Len(Tail(stack)) = Len(stack) - 1
           /\ Tail(stack) \in Seq(Seq(Work))
<1>1. /\ TypeOK /\ stack # <<>> /\ RowsOfBatch /\ batch \in Seq(Work) /\ InPlanOrder(batch)
      /\ \A w \in Work : record[w] # Absent => w \notin Elements(batch)
      /\ Len(batch) <= InitialBatchSize /\ Len(batch) \in Nat
  BY AtPredict, TypesOfQueues DEF IInv, Ordered, Fitting
<1>2. PICK off : Cut(off)
  BY <1>1 DEF IInv, Predicting
<1>3. /\ Part \in Seq(Work) /\ off[1] \in 0..Len(batch) /\ off[2] \in off[1]..Len(batch)
      /\ off[1] < off[2] /\ off[1] = Len(rows) /\ Len(Part) = off[2] - off[1]
      /\ \A k \in 1..Len(Part) : Part[k] = batch[off[1] + k]
      /\ Len(stack) \in Nat \ {0} /\ Len(Tail(stack)) = Len(stack) - 1
      /\ Tail(stack) \in Seq(Seq(Work))
  BY <1>1, <1>2, PartOfBatch
<1> DEFINE a == off[1]
<1>4. a \in Nat /\ a = Len(rows) /\ Len(Part) \in Nat /\ a + Len(Part) <= Len(batch) /\ 1 <= Len(Part)
  BY <1>1, <1>3
<1>5a. \A k \in 1..Len(Part) : Part[k] = batch[a + k]
  BY <1>3
<1> HIDE DEF a
<1>5. \A k \in 1..Len(Part) : a + k \in 1..Len(batch) /\ Part[k] = batch[a + k]
  BY <1>1, <1>4, <1>5a
<1>6. Len(Part) \in 1..InitialBatchSize
  BY <1>1, <1>4, BatchSizes
<1>7. \A j, k \in 1..Len(Part) : Part[j] = Part[k] => j = k
  <2> SUFFICES ASSUME NEW j \in 1..Len(Part), NEW k \in 1..Len(Part), Part[j] = Part[k]
               PROVE  j = k
    OBVIOUS
  <2>1. batch[a + j] = batch[a + k] /\ a + j \in 1..Len(batch) /\ a + k \in 1..Len(batch)
    BY <1>5
  <2>2. a + j = a + k
    BY <1>1, <2>1, NoTwice
  <2> QED BY <1>4, <2>2
<1>8. IsFiniteSet(Elements(Part)) /\ Cardinality(Elements(Part)) = Len(Part)
  BY <1>3, <1>7, AsManyMembers
<1>9. Elements(Part) \subseteq Elements(batch)
  BY <1>5 DEF Elements
<1>10. ASSUME NEW w \in Elements(Part) PROVE ~IsAsked(w)
  <2>1. PICK k \in 1..Len(Part) : w = batch[a + k] /\ a + k \in 1..Len(batch)
    BY <1>5 DEF Elements
  <2>2. record[w] = Absent /\ Absent \notin OfModel
    <3>1. w \in Work
      BY <1>1, <2>1, ElementOfSeq
    <3>2. w \in Elements(batch)
      BY <2>1 DEF Elements
    <3> QED BY <1>1, <3>1, <3>2, AbsentAssumption DEF OfModel, Statuses, Failures
  <2>3. ASSUME NEW j \in 1..Len(rows), rows[j].work = w PROVE FALSE
    <3>1. batch[j] = batch[a + k] /\ j \in 1..Len(batch)
      BY <1>1, <1>4, <2>1, <2>3 DEF RowsOfBatch
    <3>2. j = a + k
      BY <1>1, <2>1, <3>1, NoTwice
    <3> QED BY <1>4, <3>2
  <2> QED BY <2>2, <2>3 DEF IsAsked, InRows
<1> QED BY <1>3, <1>6, <1>8, <1>9, <1>10

\* an answer is about the items of the part
LEMMA AnswerAsks ==
    ASSUME IInv, pc = "predict", NEW status \in OfModel, Predicted(status), UNCHANGED record
    PROVE  \A w : IsAsked(w)' <=> IsAsked(w) \/ w \in Elements(Part)
<1>1. /\ rows' = rows \o Marked(Part, status) /\ record' = record
  BY DEF Predicted
<1>2. Part \in Seq(Work) /\ rows \in Seq([work: Work, status: Statuses]) /\ status \in Statuses
  BY PartIsNew DEF IInv, TypeOK, OfModel, Statuses, Failures
<1>3. PICK m : m = Marked(Part, status)
  OBVIOUS
<1>4. PICK P : P = Part
  OBVIOUS
<1>5. /\ m \in Seq([work: Work, status: Statuses]) /\ Len(m) = Len(P) /\ Len(P) \in Nat
      /\ \A k \in 1..Len(P) : m[k].work = P[k] /\ m[k].status = status
  <2>1. P \in Seq(Work) /\ m = Marked(P, status)
    BY <1>2, <1>3, <1>4
  <2>2. /\ Marked(P, status) \in Seq([work: Work, status: Statuses])
        /\ Len(Marked(P, status)) = Len(P) /\ Len(P) \in Nat
        /\ \A k \in 1..Len(P) : /\ Marked(P, status)[k].work = P[k]
                                /\ Marked(P, status)[k].status = status
    BY <1>2, <2>1, MarkedRows
  <2> QED BY <2>1, <2>2
<1>6. PICK r : r = rows
  OBVIOUS
<1>7. Len(r) \in Nat /\ r \in Seq([work: Work, status: Statuses])
  BY <1>2, <1>6, LenProperties
<1>8. /\ Len(r \o m) = Len(r) + Len(m)
      /\ \A i \in 1..Len(r) + Len(m) :
            (r \o m)[i] = IF i <= Len(r) THEN r[i] ELSE m[i - Len(r)]
  <2> DEFINE Rec == [work: Work, status: Statuses]
  <2>1. r \in Seq(Rec) /\ m \in Seq(Rec)
    BY <1>5, <1>7
  <2> HIDE DEF Rec
  <2> QED BY <2>1, ConcatProperties
<1>9. PICK t : t = r \o m
  OBVIOUS
<1>10. Len(t) = Len(r) + Len(P) /\ \A i \in 1..Len(t) : t[i] = IF i <= Len(r) THEN r[i] ELSE m[i - Len(r)]
  BY <1>5, <1>8, <1>9
<1>11. ASSUME NEW w
       PROVE  (\E k \in 1..Len(t) : t[k].work = w /\ t[k].status \in OfModel)
                 <=> \/ \E k \in 1..Len(r) : r[k].work = w /\ r[k].status \in OfModel
                     \/ \E k \in 1..Len(P) : P[k] = w
  <2>1. ASSUME NEW k \in 1..Len(t), t[k].work = w, t[k].status \in OfModel, ~(k <= Len(r))
        PROVE  \E i \in 1..Len(P) : P[i] = w
    <3>1. k - Len(r) \in 1..Len(P)
      BY <1>5, <1>7, <1>10, <2>1
    <3>2. t[k] = m[k - Len(r)]
      BY <1>10, <2>1
    <3> QED BY <1>5, <2>1, <3>1, <3>2
  <2>2. ASSUME NEW k \in 1..Len(t), t[k].work = w, t[k].status \in OfModel, k <= Len(r)
        PROVE  \E i \in 1..Len(r) : r[i].work = w /\ r[i].status \in OfModel
    <3>1. k \in 1..Len(r) /\ t[k] = r[k]
      BY <1>7, <1>10, <2>2
    <3> QED BY <2>2, <3>1
  <2>3. ASSUME NEW k \in 1..Len(r), r[k].work = w, r[k].status \in OfModel
        PROVE  \E i \in 1..Len(t) : t[i].work = w /\ t[i].status \in OfModel
    <3>1. k \in 1..Len(t) /\ t[k] = r[k]
      BY <1>5, <1>7, <1>10
    <3> QED BY <2>3, <3>1
  <2>4. ASSUME NEW k \in 1..Len(P), P[k] = w
        PROVE  \E i \in 1..Len(t) : t[i].work = w /\ t[i].status \in OfModel
    <3> DEFINE i == Len(r) + k
    <3>1. i \in 1..Len(t) /\ ~(i <= Len(r)) /\ i - Len(r) = k
      BY <1>5, <1>7, <1>10
    <3> HIDE DEF i
    <3>2. t[i] = m[k]
      BY <1>10, <3>1
    <3> QED BY <1>5, <2>4, <3>1, <3>2
  <2> QED BY <2>1, <2>2, <2>3, <2>4
<1>12. rows' = t
  BY <1>1, <1>3, <1>6, <1>9
<1>13. ASSUME NEW w PROVE InRows(w)' <=> InRows(w) \/ w \in Elements(P)
  <2>1. InRows(w)' <=> \E k \in 1..Len(t) : t[k].work = w /\ t[k].status \in OfModel
    BY <1>12 DEF InRows
  <2>2. InRows(w) <=> \E k \in 1..Len(r) : r[k].work = w /\ r[k].status \in OfModel
    BY <1>6 DEF InRows
  <2>3. w \in Elements(P) <=> \E k \in 1..Len(P) : P[k] = w
    BY DEF Elements
  <2> QED BY <1>11, <2>1, <2>2, <2>3
<1> QED BY <1>1, <1>4, <1>13 DEF IsAsked

\* the asked work of any kind only depends on what is asked
LEMMA AskedSame ==
    ASSUME \A w : IsAsked(w)' <=> IsAsked(w), NEW W
    PROVE  Asked(W)' = Asked(W)
BY DEF Asked

\* what is asked now adds to the asked work of its kind, and of no other
LEMMA AskedMore ==
    ASSUME NEW P, IsFiniteSet(P), \A w \in P : ~IsAsked(w),
           \A w : IsAsked(w)' <=> IsAsked(w) \/ w \in P, NEW W, IsFiniteSet(W)
    PROVE  /\ P \subseteq W => Cardinality(Asked(W)') = Cardinality(Asked(W)) + Cardinality(P)
           /\ P \cap W = {} => Asked(W)' = Asked(W)
           /\ Cardinality(P) \in Nat
<1>1. P \cap W = {} => Asked(W)' = Asked(W)
  BY DEF Asked
<1>2. Cardinality(P) \in Nat
  BY FS_CardinalityType
<1>3. ASSUME P \subseteq W PROVE Cardinality(Asked(W)') = Cardinality(Asked(W)) + Cardinality(P)
  <2>1. Asked(W)' = Asked(W) \cup P
    BY <1>3 DEF Asked
  <2>2. Asked(W) \cap P = {} /\ Asked(W) \subseteq W
    BY DEF Asked
  <2>3. PICK A : A = Asked(W)
    OBVIOUS
  <2>4. IsFiniteSet(A) /\ A \cap P = {}
    BY <2>2, <2>3, FS_Subset
  <2> QED BY <2>1, <2>3, <2>4, DisjointUnion
<1> QED BY <1>1, <1>2, <1>3

\* one more call pays for one more full batch
LEMMA OneCallMore ==
    ASSUME NEW n \in Nat, NEW r \in Nat, NEW m \in 1..InitialBatchSize, AtLeast(n, r)
    PROVE  AtLeast(n + 1, r + m) /\ AtLeast(n + 1, r)
<1>1. PICK size \in Nat : size = InitialBatchSize
  BY BatchSizes
<1>2. (n + 1) * size = n * size + size /\ n * size \in Nat
  BY <1>1
<1>3. n * size >= r
  BY <1>1 DEF AtLeast
<1>4. m \in Nat /\ m <= size
  BY <1>1
<1>5. (n + 1) * size >= r + m /\ (n + 1) * size >= r
  <2> DEFINE x == n * size
  <2>1. x \in Nat /\ x >= r
    BY <1>2, <1>3
  <2> HIDE DEF x
  <2>2. x + size >= r + m /\ x + size >= r
    BY <1>1, <1>4, <2>1
  <2> QED BY <1>2, <2>2 DEF x
<1> QED BY <1>1, <1>5 DEF AtLeast

\* the bound for one kind of work when nothing of it was asked
LEMMA QuietBound ==
    ASSUME NEW W, IsFiniteSet(W), NEW n, NEW before \in BOOLEAN, NEW after \in BOOLEAN,
           CallsOK(n, W, before), Asked(W)' = Asked(W),
           before => after /\ Len(stack') = Len(stack),
           after => before \/ Len(stack') = 1
    PROVE  CallsOK(n, W, after)'
<1>1. PICK r : r = Cardinality(Asked(W))
  OBVIOUS
<1>2. Asked(W) \subseteq W
  BY DEF Asked
<1>3. r \in Nat
  BY <1>1, <1>2, FS_Subset, FS_CardinalityType
<1>4. Cardinality(Asked(W))' = r
  BY <1>1
<1>5. /\ n \in Nat /\ AtLeast(n, r)
      /\ IF before THEN AtMost(n, r, Len(stack)) ELSE n = 0 \/ AtMost(n, r, 0)
  BY <1>1 DEF CallsOK
<1>6. n = 0 \/ AtMost(n, r, 0) => AtMost(n, r, 1)
  BY <1>3, <1>5 DEF AtMost
<1>7. IF after THEN AtMost(n, r, Len(stack')) ELSE n = 0 \/ AtMost(n, r, 0)
  BY <1>5, <1>6
<1>8. PICK c : c = Len(stack')
  OBVIOUS
<1>9. CallsOK(n, W, after)' <=>
         /\ n \in Nat /\ AtLeast(n, r)
         /\ IF after THEN AtMost(n, r, c) ELSE n = 0 \/ AtMost(n, r, 0)
  BY <1>4, <1>8 DEF CallsOK, AtMost, AtLeast
<1> QED BY <1>5, <1>7, <1>8, <1>9

\* nothing that was asked changes, and nothing is predicted, unless a batch begins
LEMMA QuietCalls ==
    ASSUME CallsInv, calls' = calls, \A w : IsAsked(w)' <=> IsAsked(w),
           Counting' => Counting,
           \A p : Predicts(p) => Predicts(p)' /\ Len(stack') = Len(stack),
           \A p : Predicts(p)' => Predicts(p) \/ Len(stack') = 1
    PROVE  CallsInv'
<1>1. calls' = Absence \/ calls' = [clean |-> calls'.clean, perturbed |-> calls'.perturbed]
  BY DEF CallsInv
<1>2. ASSUME NEW n, NEW W, NEW p, IsFiniteSet(W), CallsOK(n, W, Predicts(p))
      PROVE  CallsOK(n, W, Predicts(p))'
  <2> PICK before \in BOOLEAN : before = Predicts(p)
    BY DEF Predicts
  <2> PICK after \in BOOLEAN : after = Predicts(p)'
    BY DEF Predicts
  <2>1. CallsOK(n, W, before)
    BY <1>2 DEF CallsOK
  <2>2. Asked(W)' = Asked(W)
    BY AskedSame
  <2>3. CallsOK(n, W, after)'
    BY <1>2, <2>1, <2>2, QuietBound
  <2> QED BY <2>3 DEF CallsOK
<1>3. ASSUME Counting'
      PROVE  /\ CallsOK(calls.clean, Clean, Predicts("clean"))'
             /\ CallsOK(calls.perturbed, Perturbed, Predicts("perturbed"))'
  <2>1. /\ CallsOK(calls.clean, Clean, Predicts("clean"))
        /\ CallsOK(calls.perturbed, Perturbed, Predicts("perturbed"))
    BY <1>3 DEF CallsInv
  <2> PICK c : c = calls.clean
    OBVIOUS
  <2> PICK p : p = calls.perturbed
    OBVIOUS
  <2>2. calls'.clean = c /\ calls'.perturbed = p
    OBVIOUS
  <2>3. CallsOK(c, Clean, Predicts("clean"))'
    BY <1>2, <2>1, WorkIsFinite
  <2>4. CallsOK(p, Perturbed, Predicts("perturbed"))'
    BY <1>2, <2>1, WorkIsFinite
  <2>5. CallsOK(calls.clean, Clean, Predicts("clean"))'
    BY <2>2, <2>3 DEF CallsOK
  <2>6. CallsOK(calls.perturbed, Perturbed, Predicts("perturbed"))'
    BY <2>2, <2>4 DEF CallsOK
  <2> QED BY <2>5, <2>6
<1> QED BY <1>1, <1>3 DEF CallsInv

\* an answer settles the part at the head of the stack, or divides it
LEMMA AnswerSettles ==
    ASSUME IInv, Answer
    PROVE  /\ pc = "predict" /\ phase' = phase /\ pc' \in {"predict", "outcome"}
           /\ UNCHANGED <<token, fail_fast, record>>
           /\ \/ /\ Len(stack') = Len(stack) - 1 /\ (pc' = "outcome" => Len(stack') = 0)
                 /\ \A w : IsAsked(w)' <=> IsAsked(w) \/ w \in Elements(Part)
              \/ /\ Len(stack') = Len(stack) + 1 /\ pc' = "predict"
                 /\ \A w : IsAsked(w)' <=> IsAsked(w)
<1>1. ASSUME NEW status \in OfModel, Predicted(status), UNCHANGED record, pc = "predict"
      PROVE  /\ pc' \in {"predict", "outcome"} /\ Len(stack') = Len(stack) - 1
             /\ pc' = "outcome" => Len(stack') = 0
             /\ \A w : IsAsked(w)' <=> IsAsked(w) \/ w \in Elements(Part)
  <2>1. \A w : IsAsked(w)' <=> IsAsked(w) \/ w \in Elements(Part)
    BY <1>1, AnswerAsks
  <2>2. stack' = Tail(stack) /\ pc' = IF Tail(stack) = <<>> THEN "outcome" ELSE "predict"
    BY <1>1 DEF Predicted
  <2>3. Len(Tail(stack)) = Len(stack) - 1
    BY <1>1, PartIsNew
  <2>4. pc' = "outcome" => Len(stack') = 0
    BY <2>2, EmptySeq
  <2> QED BY <2>1, <2>2, <2>3, <2>4
<1>2. CASE PredictOk
  BY <1>1, <1>2 DEF PredictOk, OfModel, stream, written, request
<1>3. CASE PredictRaises
  BY <1>1, <1>3 DEF PredictRaises, OfModel, stream, written, request
<1>4. CASE OomAlone
  BY <1>1, <1>4 DEF OomAlone, OfModel, stream, written, request
<1>5. CASE OomSplit
  <2> PICK t : t = Tail(stack)
    OBVIOUS
  <2> PICK m : m = Len(Part) \div 2
    OBVIOUS
  <2>1. /\ stack' = <<SubSeq(Part, 1, m), Suffix(Part, m)>> \o t /\ pc = "predict"
        /\ UNCHANGED <<pc, phase, rows, record, token, fail_fast>>
    BY <1>5 DEF OomSplit, stream, written, request
  <2>2. Part \in Seq(Work) /\ Len(Part) \in Nat \ {0} /\ Len(stack) \in Nat /\ Len(t) = Len(stack) - 1
        /\ t \in Seq(Seq(Work))
    <3>1. Len(Part) \in Nat \ {0}
      BY <2>1, PartIsNew, BatchSizes
    <3> QED BY <2>1, <3>1, PartIsNew
  <2>3. Len(Part) > 1
    BY <1>5 DEF OomSplit
  <2>4. m \in 1..Len(Part) /\ m \in Nat
    BY <2>2, <2>3
  <2>5. SubSeq(Part, 1, m) \in Seq(Work) /\ Suffix(Part, m) \in Seq(Work)
    BY <2>2, <2>4 DEF Suffix
  <2>6. Len(stack') = 2 + Len(t)
    <3> DEFINE h == <<SubSeq(Part, 1, m), Suffix(Part, m)>>
    <3>1. h \in Seq(Seq(Work)) /\ Len(h) = 2
      BY <2>5
    <3>2. stack' = h \o t
      BY <2>1
    <3> HIDE DEF h
    <3> QED BY <2>2, <3>1, <3>2, ConcatProperties
  <2>7. \A w : IsAsked(w)' <=> IsAsked(w)
    BY <2>1 DEF IsAsked, InRows
  <2>8. Len(stack') = Len(stack) + 1
    BY <2>2, <2>6
  <2> QED BY <2>1, <2>7, <2>8
<1> QED BY <1>2, <1>3, <1>4, <1>5 DEF Answer

\* the phase that predicts has one call more
LEMMA AnsweredBound ==
    ASSUME IInv, Answer, NEW n, NEW W, IsFiniteSet(W), Elements(batch) \subseteq W,
           CallsOK(n, W, TRUE)
    PROVE  CallsOK(n + 1, W, pc = "predict")'
<1> PICK r : r = Cardinality(Asked(W))
  OBVIOUS
<1> PICK q : q = Cardinality(Asked(W)')
  OBVIOUS
<1> PICK c : c = Len(stack)
  OBVIOUS
<1> PICK d : d = Len(stack')
  OBVIOUS
<1> PICK m : m = Cardinality(Elements(Part))
  OBVIOUS
<1>1. Asked(W) \subseteq W
  BY DEF Asked
<1>2. r \in Nat
  BY <1>1, FS_Subset, FS_CardinalityType
<1>3. n \in Nat /\ AtLeast(n, r) /\ AtMost(n, r, c)
  BY DEF CallsOK
<1>4. /\ IsFiniteSet(Elements(Part)) /\ Elements(Part) \subseteq W
      /\ \A w \in Elements(Part) : ~IsAsked(w)
      /\ m \in 1..InitialBatchSize /\ c \in Nat \ {0}
  BY AnswerSettles, PartIsNew
<1>5. m \in Nat \ {0}
  BY <1>4, BatchSizes
<1>6. CallsOK(n + 1, W, pc = "predict")' <=>
         /\ n + 1 \in Nat /\ AtLeast(n + 1, q)
         /\ IF pc' = "predict" THEN AtMost(n + 1, q, d) ELSE n + 1 = 0 \/ AtMost(n + 1, q, 0)
  BY DEF CallsOK, AtMost, AtLeast
<1>7. AtLeast(n + 1, r + m) /\ AtLeast(n + 1, r)
  BY <1>2, <1>3, <1>4, OneCallMore
<1>8. ASSUME d = c - 1, pc' = "outcome" => d = 0,
             \A w : IsAsked(w)' <=> IsAsked(w) \/ w \in Elements(Part)
      PROVE  CallsOK(n + 1, W, pc = "predict")'
  <2>1. q = r + m
    BY <1>4, <1>8, AskedMore
  <2>2. AtMost(n + 1, r + m, d)
    <3>1. /\ n \in Nat /\ r \in Nat /\ m \in Nat /\ 1 <= m /\ c \in Nat
          /\ n <= 2 * r + c - 1 /\ d = c - 1
      BY <1>2, <1>3, <1>4, <1>5, <1>8 DEF AtMost
    <3>2. \A i, j, k, l \in Nat : 1 <= k /\ i <= 2 * j + l - 1 => i + 1 <= 2 * (j + k) + (l - 1) - 1
      OBVIOUS
    <3>3. n + 1 <= 2 * (r + m) + d - 1
      BY <3>1, <3>2
    <3> QED BY <3>3 DEF AtMost
  <2>3. pc' \in {"predict", "outcome"}
    BY AnswerSettles
  <2>4. n + 1 \in Nat
    BY <1>3
  <2> QED BY <1>6, <1>7, <1>8, <2>1, <2>2, <2>3, <2>4
<1>9. ASSUME d = c + 1, pc' = "predict", \A w : IsAsked(w)' <=> IsAsked(w)
      PROVE  CallsOK(n + 1, W, pc = "predict")'
  <2>1. q = r
    BY <1>9, AskedSame
  <2>2. AtMost(n + 1, r, d)
    BY <1>2, <1>3, <1>4, <1>9 DEF AtMost
  <2>3. n + 1 \in Nat
    BY <1>3
  <2> QED BY <1>6, <1>7, <1>9, <2>1, <2>2, <2>3
<1> QED BY <1>8, <1>9, AnswerSettles

\* and the other phase has as many as it had
LEMMA UnansweredBound ==
    ASSUME IInv, Answer, NEW n, NEW W, IsFiniteSet(W), Elements(batch) \cap W = {},
           CallsOK(n, W, FALSE)
    PROVE  CallsOK(n, W, FALSE)'
<1>1. Asked(W)' = Asked(W)
  <2>1. Elements(Part) \cap W = {} /\ IsFiniteSet(Elements(Part)) /\ \A w \in Elements(Part) : ~IsAsked(w)
    BY AnswerSettles, PartIsNew
  <2>2. ASSUME \A w : IsAsked(w)' <=> IsAsked(w) \/ w \in Elements(Part)
        PROVE  Asked(W)' = Asked(W)
    BY <2>1, <2>2, AskedMore
  <2> QED BY <2>2, AskedSame, AnswerSettles
<1> QED BY <1>1 DEF CallsOK, AtLeast, AtMost

\* a counted answer
LEMMA AnswerCounts ==
    ASSUME IInv, CallsInv, CountedAnswer
    PROVE  CallsInv'
<1>1. /\ pc = "predict" /\ phase' = phase /\ pc' \in {"predict", "outcome"}
      /\ UNCHANGED <<token, fail_fast, record>> /\ Answer
      /\ calls' = IF Measurable THEN [calls EXCEPT ![phase] = @ + 1] ELSE calls
  BY AnswerSettles DEF CountedAnswer
<1>2. phase \in {"clean", "perturbed"}
  BY DEF IInv, TypeOK
<1>3. CASE ~Measurable
  <2>1. calls' = calls /\ ~Measurable'
    BY <1>1, <1>3 DEF Measurable
  <2> QED BY <2>1 DEF CallsInv, Counting
<1>4. CASE Measurable
  <2> PICK c : c = calls.clean
    OBVIOUS
  <2> PICK p : p = calls.perturbed
    OBVIOUS
  <2>1. calls = [clean |-> c, perturbed |-> p] /\ Counting
    BY <1>1, <1>4 DEF CallsInv, Counting, Measurable
  <2>2. CallsOK(c, Clean, Predicts("clean")) /\ CallsOK(p, Perturbed, Predicts("perturbed"))
    BY <2>1 DEF CallsInv
  <2>3. CASE phase = "clean"
    <3>1. calls' = [clean |-> c + 1, perturbed |-> p]
      BY <1>1, <1>4, <2>1, <2>3
    <3>2. Elements(batch) \subseteq Clean /\ Elements(batch) \cap Perturbed = {}
      BY <1>1, <2>3, BatchOfPhase, PlanTypes
    <3>3. Predicts("clean") = TRUE /\ Predicts("perturbed") = FALSE
      BY <1>1, <2>3 DEF Predicts
    <3>4. CallsOK(c, Clean, TRUE) /\ CallsOK(p, Perturbed, FALSE)
      BY <2>2, <3>3
    <3>5. CallsOK(c + 1, Clean, pc = "predict")' /\ CallsOK(p, Perturbed, FALSE)'
      BY <1>1, <3>2, <3>4, AnsweredBound, UnansweredBound, WorkIsFinite
    <3>6. (Predicts("clean"))' = (pc' = "predict") /\ (Predicts("perturbed"))' = FALSE
      BY <1>1, <2>3 DEF Predicts
    <3>7. CallsOK(calls.clean, Clean, Predicts("clean"))'
      BY <3>1, <3>5, <3>6 DEF CallsOK
    <3>8. CallsOK(calls.perturbed, Perturbed, Predicts("perturbed"))'
      BY <3>1, <3>5, <3>6 DEF CallsOK
    <3> QED BY <3>1, <3>7, <3>8 DEF CallsInv
  <2>4. CASE phase = "perturbed"
    <3>1. calls' = [clean |-> c, perturbed |-> p + 1]
      BY <1>1, <1>4, <2>1, <2>4
    <3>2. Elements(batch) \subseteq Perturbed /\ Elements(batch) \cap Clean = {}
      BY <1>1, <2>4, BatchOfPhase, PlanTypes
    <3>3. Predicts("clean") = FALSE /\ Predicts("perturbed") = TRUE
      BY <1>1, <2>4 DEF Predicts
    <3>4. CallsOK(p, Perturbed, TRUE) /\ CallsOK(c, Clean, FALSE)
      BY <2>2, <3>3
    <3>5. CallsOK(p + 1, Perturbed, pc = "predict")' /\ CallsOK(c, Clean, FALSE)'
      BY <1>1, <3>2, <3>4, AnsweredBound, UnansweredBound, WorkIsFinite
    <3>6. (Predicts("perturbed"))' = (pc' = "predict") /\ (Predicts("clean"))' = FALSE
      BY <1>1, <2>4 DEF Predicts
    <3>7. CallsOK(calls.clean, Clean, Predicts("clean"))'
      BY <3>1, <3>5, <3>6 DEF CallsOK
    <3>8. CallsOK(calls.perturbed, Perturbed, Predicts("perturbed"))'
      BY <3>1, <3>5, <3>6 DEF CallsOK
    <3> QED BY <3>1, <3>7, <3>8 DEF CallsInv
  <2> QED BY <1>2, <2>3, <2>4
<1> QED BY <1>3, <1>4

\* a step that predicts nothing, before or after
LEMMA RestingStep ==
    ASSUME CallsInv, calls' = calls, \A w : IsAsked(w)' <=> IsAsked(w),
           token' = token, fail_fast' = fail_fast,
           pc \notin {"predict", "cancelled", "failed"}, pc' # "predict"
    PROVE  CallsInv'
<1>1. Counting' => Counting
  BY DEF Counting, Measurable
<1>2. \A p : ~Predicts(p) /\ ~Predicts(p)'
  BY DEF Predicts
<1> QED BY <1>1, <1>2, QuietCalls

\* the steps of the generators that call nothing keep the counts
LEMMA AdvanceCounts ==
    ASSUME IInv, CountInv, Advance, calls' = calls
    PROVE  CountInv'
<1> USE DEF CountInv
<1>1. CASE Prepare
  <2>1. CASE SeeCancel
    <3>1. pc' = "cancelled" /\ calls' = calls
      BY <2>1 DEF SeeCancel
    <3> QED BY <3>1 DEF CallsInv, Counting, RowsKept, AllDone
  <2>2. CASE ~SeeCancel
    <3>1. /\ record' = record /\ phase' = phase /\ pc = "pull" /\ pc' \in {"pull", "write"}
          /\ done' = done /\ done = 0 /\ \A w : IsAsked(w)' <=> IsAsked(w)
      BY <1>1, <2>2, PrepareAsks
    <3>2. token' = token /\ fail_fast' = fail_fast
      BY <1>1, <2>2 DEF Prepare, LoadFails, LoadSample, PrepareChunk, AbandonChunk, request
    <3>3. CallsInv'
      BY <3>1, <3>2, RestingStep
    <3>4. RowsKept' /\ AllDone'
      BY <3>1 DEF RowsKept, AllDone
    <3> QED BY <3>3, <3>4
  <2> QED BY <2>1, <2>2
<1>2. CASE Rebatch
  <2>1. /\ pc = "pull" /\ rows' = rows /\ record' = record /\ phase' = phase
        /\ token' = token /\ fail_fast' = fail_fast
        /\ pc' = "pull" \/ (pc' = "predict" /\ \E s : stack' = <<s>>)
    BY <1>2 DEF Rebatch, Buffer, SubmitFull, SubmitBeforeNewShape, SubmitRest, Submit,
                stream, written, request
  <2>2. \A w : IsAsked(w)' <=> IsAsked(w)
    BY <2>1 DEF IsAsked, InRows
  <2>3. Counting' => Counting
    BY <2>1 DEF Counting, Measurable
  <2>4. \A p : ~Predicts(p) /\ (Predicts(p)' => Len(stack') = 1)
    BY <2>1 DEF Predicts
  <2>5. CallsInv'
    BY <2>2, <2>3, <2>4, QuietCalls
  <2> QED BY <2>1, <2>5 DEF RowsKept, AllDone
<1>3. CASE Outcome
  <2>1. /\ pc = "outcome" /\ pc' \in {"cancelled", "write"} /\ rows' = rows /\ record' = record
        /\ token' = token /\ fail_fast' = fail_fast /\ done' = done /\ done = 0
    BY <1>3 DEF Outcome, written, request, IInv, Predicting
  <2>2. \A w : IsAsked(w)' <=> IsAsked(w)
    BY <2>1 DEF IsAsked, InRows
  <2>3. CallsInv'
    BY <2>1, <2>2, RestingStep
  <2>4. 1..0 = {}
    OBVIOUS
  <2> QED BY <2>1, <2>3, <2>4 DEF RowsKept, AllDone
<1>4. CASE Write
  <2>1. RowsKept' /\ pc = "write" /\ pc' = "write" /\ \A w : IsAsked(w)' <=> IsAsked(w)
    BY <1>4, WriteAsks
  <2>2. token' = token /\ fail_fast' = fail_fast
    BY <1>4 DEF Write, request
  <2>3. CallsInv'
    BY <2>1, <2>2, RestingStep
  <2> QED BY <2>1, <2>3 DEF AllDone
<1>5. CASE Written
  <2>1. RowsKept' /\ pc = "write" /\ pc' \in {"pull", "failed"} /\ \A w : IsAsked(w)' <=> IsAsked(w)
    BY <1>5, WrittenAsks
  <2>2. token' = token /\ fail_fast' = fail_fast
    BY <1>5 DEF Written, AfterRows, request
  <2>3. CallsInv'
    BY <2>1, <2>2, RestingStep
  <2> QED BY <2>1, <2>3 DEF AllDone
<1>6. CASE EndClean
  <2>1. /\ pc = "pull" /\ pc' = "pull" /\ rows' = rows /\ record' = record
        /\ token' = token /\ fail_fast' = fail_fast
    BY <1>6 DEF EndClean, Drained, written, request
  <2>2. \A w : IsAsked(w)' <=> IsAsked(w)
    BY <2>1 DEF IsAsked, InRows
  <2>3. CallsInv'
    BY <2>1, <2>2, RestingStep
  <2> QED BY <2>1, <2>3 DEF RowsKept, AllDone
<1>7. CASE Finish
  <2>1. /\ pc = "pull" /\ pc' \in {"cancelled", "completed"} /\ rows' = rows /\ record' = record
        /\ token' = token /\ fail_fast' = fail_fast /\ Drained /\ phase = "perturbed"
    BY <1>7 DEF Finish, Drained, written, request
  <2>2. \A w : IsAsked(w)' <=> IsAsked(w)
    BY <2>1 DEF IsAsked, InRows
  <2>3. CallsInv'
    BY <2>1, <2>2, RestingStep
  <2>4. rows = <<>> /\ \A w \in Work : record[w] # Absent
    BY <2>1, AtPull, AllRecorded
  <2> QED BY <2>1, <2>3, <2>4 DEF RowsKept, AllDone
<1> QED BY <1>1, <1>2, <1>3, <1>4, <1>5, <1>6, <1>7 DEF Advance

\* so do the steps of threads, cancellations and failures
LEMMA DisturbCounts ==
    ASSUME IInv, CountInv, Disturb, calls' = calls
    PROVE  CountInv'
<1> USE DEF CountInv
<1>1. CASE Break \/ WriterRaises
  <2>1. pc' = "failed"
    BY <1>1 DEF Break, WriterRaises
  <2> QED BY <2>1 DEF CallsInv, Counting, RowsKept, AllDone
<1>2. CASE Cancel
  <2>1. token' = TRUE /\ pc' = pc /\ rows' = rows /\ done' = done /\ record' = record
    BY <1>2 DEF Cancel, written
  <2>2. ~Counting'
    BY <2>1 DEF Counting, Measurable
  <2> QED BY <2>1, <2>2 DEF CallsInv, RowsKept, AllDone
<1> QED BY <1>1, <1>2 DEF Disturb

\* and stuttering
LEMMA StutterCounts ==
    ASSUME CountInv, UNCHANGED measuring
    PROVE  CountInv'
<1>1. /\ pc' = pc /\ phase' = phase /\ token' = token /\ fail_fast' = fail_fast
      /\ stack' = stack /\ rows' = rows /\ done' = done /\ record' = record /\ calls' = calls
  BY DEF measuring, vars, stream, batching, written, request
<1>2. \A w : IsAsked(w)' <=> IsAsked(w)
  BY <1>1 DEF IsAsked, InRows
<1>3. (Counting' <=> Counting) /\ \A p : Predicts(p)' <=> Predicts(p)
  BY <1>1 DEF Counting, Measurable, Predicts
<1>4. CallsInv'
  BY <1>1, <1>2, <1>3, QuietCalls DEF CountInv
<1> QED BY <1>1, <1>4 DEF CountInv, RowsKept, AllDone

\* the counting invariant is inductive
LEMMA MeasureStep ==
    ASSUME IInv, CountInv, [MeasureNext]_measuring
    PROVE  CountInv'
<1>1. CASE CountedAnswer
  <2>1. CallsInv'
    BY <1>1, AnswerCounts DEF CountInv
  <2>2. pc' \in {"predict", "outcome"}
    BY <1>1, AnswerSettles DEF CountedAnswer
  <2> QED BY <2>1, <2>2 DEF CountInv, RowsKept, AllDone
<1>2. CASE Abort
  <2>1. pc' = "outcome" /\ calls' = Absence
    BY <1>2 DEF Abort, CleanupRaises
  <2> QED BY <2>1 DEF CountInv, CallsInv, Counting, Measurable, RowsKept, AllDone
<1>3. CASE Advance /\ UNCHANGED calls
  BY <1>3, AdvanceCounts
<1>4. CASE Disturb /\ UNCHANGED calls
  BY <1>4, DisturbCounts
<1>5. CASE UNCHANGED measuring
  BY <1>5, StutterCounts
<1> QED BY <1>1, <1>2, <1>3, <1>4, <1>5 DEF MeasureNext

\* nothing is counted at the start
LEMMA MeasureStart ==
    ASSUME MeasureInit
    PROVE  CountInv
<1>1. /\ pc = "pull" /\ rows = <<>> /\ record = [w \in Work |-> Absent]
      /\ calls = [clean |-> 0, perturbed |-> 0]
  BY DEF MeasureInit, Init
<1>2. \A w \in Work : ~IsAsked(w)
  <2>1. Absent \notin OfModel
    BY AbsentAssumption DEF OfModel, Statuses, Failures
  <2> QED BY <1>1, <2>1, NoRows DEF IsAsked
<1>3. Asked(Clean) = {} /\ Asked(Perturbed) = {}
  BY <1>2 DEF Asked, Work
<1>4. AtLeast(0, 0)
  BY BatchSizes DEF AtLeast
<1>5. Cardinality({}) = 0 /\ 0 \in Nat
  BY FS_EmptySet
<1>6. CallsOK(0, Clean, FALSE) /\ CallsOK(0, Perturbed, FALSE)
  BY <1>3, <1>4, <1>5 DEF CallsOK
<1>7. Predicts("clean") = FALSE /\ Predicts("perturbed") = FALSE
  BY <1>1 DEF Predicts
<1>8. CallsInv
  BY <1>1, <1>6, <1>7 DEF CallsInv
<1> QED BY <1>1, <1>8 DEF CountInv, RowsKept, AllDone

\* at the end, those who reached the model are those it was asked about
LEMMA BoundAtEnd ==
    ASSUME IInv, CountInv
    PROVE  CallsAreBounded
<1> SUFFICES ASSUME Measured PROVE CallsAreBounded
  BY DEF CallsAreBounded
<1>1. pc = "completed" /\ Counting /\ rows = <<>> /\ \A w \in Work : record[w] # Absent
  BY DEF Measured, CountInv, AllDone, Counting
<1>2. \A w \in Work : record[w] \in Statuses
  BY <1>1 DEF IInv, TypeOK
<1>3. ASSUME NEW w \in Work
      PROVE  IsAsked(w) <=> record[w] \notin {"load_failed", "prepare_failed"}
  BY <1>1, <1>2, NoRows DEF IsAsked, OfModel, Statuses, Failures
<1>4. Reached(Clean) = Asked(Clean) /\ Reached(Perturbed) = Asked(Perturbed)
  BY <1>3 DEF Reached, Asked, Work
<1>5. Predicts("clean") = FALSE /\ Predicts("perturbed") = FALSE
  BY <1>1 DEF Predicts
<1>6. CallsOK(calls.clean, Clean, FALSE) /\ CallsOK(calls.perturbed, Perturbed, FALSE)
  BY <1>1, <1>5 DEF CountInv, CallsInv
<1>7. ASSUME NEW n, NEW W, IsFiniteSet(W), CallsOK(n, W, FALSE)
      PROVE  CallsBounded(n, Cardinality(Asked(W)))
  <2> PICK r : r = Cardinality(Asked(W))
    OBVIOUS
  <2>1. r \in Nat
    <3>1. Asked(W) \subseteq W
      BY DEF Asked
    <3> QED BY <1>7, <3>1, FS_Subset, FS_CardinalityType
  <2>2. n \in Nat /\ n * InitialBatchSize >= r /\ (n = 0 \/ n <= 2 * r + 0 - 1)
    BY <1>7 DEF CallsOK, AtLeast, AtMost
  <2>3. CASE r = 0
    <3>1. n = 0
      BY <2>2, <2>3
    <3> QED BY <2>2, <2>3, <3>1 DEF CallsBounded
  <2>4. CASE r # 0
    <3>1. PICK size \in Nat : size = InitialBatchSize
      BY BatchSizes
    <3>2. n # 0
      <4>1. 0 * size = 0
        BY <3>1
      <4>2. n = 0 => 0 >= r
        BY <2>2, <3>1, <4>1
      <4> QED BY <2>1, <2>4, <4>2
    <3>3. n <= 2 * r - 1
      BY <2>1, <2>2, <3>2
    <3> QED BY <2>2, <2>4, <3>3 DEF CallsBounded
  <2> QED BY <2>3, <2>4
<1>8. /\ CallsBounded(calls.clean, Cardinality(Reached(Clean)))
      /\ CallsBounded(calls.perturbed, Cardinality(Reached(Perturbed)))
  BY <1>4, <1>6, <1>7, WorkIsFinite
<1> QED BY <1>8 DEF CallsAreBounded

\* When a measurement has ended, the calls counted by CountedCall of
\* core/estimate/calls.py are, in each pass, at least one for each full batch
\* of what reached the model and at most 2n - 1 for n samples or items, however
\* out-of-memory answers split the batches.
THEOREM CallsStayBounded == MeasureSpec => []CallsAreBounded
<1>1. MeasureInit => IInv /\ CountInv
  BY InitStep, MeasureStart DEF MeasureInit
<1>2. IInv /\ CountInv /\ [MeasureNext]_measuring => (IInv /\ CountInv)'
  <2>1. IInv /\ [MeasureNext]_measuring => IInv'
    BY MeasuredSteps, NextStep
  <2>2. IInv /\ CountInv /\ [MeasureNext]_measuring => CountInv'
    BY MeasureStep
  <2> QED BY <2>1, <2>2
<1>3. IInv /\ CountInv => CallsAreBounded
  BY BoundAtEnd
<1> QED BY <1>1, <1>2, <1>3, PTL DEF MeasureSpec

\* at the end all outcomes, and all labels of valid answers, are counted
LEMMA CountedAtEnd ==
    ASSUME IInv, CountInv
    PROVE  OutcomesAreCounted
<1> SUFFICES ASSUME Measured PROVE OutcomesAreCounted
  BY DEF OutcomesAreCounted
<1>1. \A w \in Work : record[w] \in Statuses
  BY DEF IInv, TypeOK, Measured, CountInv, AllDone
<1>2. IsFiniteSet(Statuses)
  <2>1. IsFiniteSet({}) /\ \A S, x : IsFiniteSet(S) => IsFiniteSet(S \cup {x})
    BY FS_EmptySet, FS_AddElement
  <2>2. Statuses = ((((({} \cup {"ok"}) \cup {"load_failed"}) \cup {"prepare_failed"})
                    \cup {"predict_failed"}) \cup {"skipped_oom"})
    BY DEF Statuses, Failures
  <2> QED BY <2>1, <2>2
<1>3. ASSUME NEW W \in {Clean, Perturbed}
      PROVE  SumFunction(StatusCounts(W)) = Cardinality(W)
  <2>1. IsFiniteSet(W) /\ W \subseteq Work
    BY <1>3, WorkIsFinite DEF Work
  <2>2. Kind(W, record, Statuses) = W
    BY <1>1, <2>1 DEF Kind
  <2>3. StatusCounts(W) = [s \in Statuses |-> Cardinality({w \in W : record[w] = s})]
    BY DEF StatusCounts
  <2> QED BY <1>2, <2>1, <2>2, <2>3, CountedByKind
<1> DEFINE valid == {s \in Answered(Clean) : Verdict[s] # "invalid_logits"}
<1> DEFINE given(v) == {s \in valid : Verdict[s] \in v}
<1>4. IsFiniteSet(valid) /\ \A v : IsFiniteSet(given(v))
  <2>1. valid \subseteq Clean /\ \A v : given(v) \subseteq Clean
    BY DEF Answered
  <2> QED BY <2>1, WorkIsFinite, FS_Subset
<1> DEFINE l == given({"correct", "wrong"})
<1> DEFINE u == given({"unlabeled"})
<1> DEFINE i == given({"invalid_label"})
<1>5. valid = (l \cup u) \cup i /\ l \cap u = {} /\ (l \cup u) \cap i = {}
  BY EstimateAssumption DEF Answered, Verdicts
<1>6. IsFiniteSet(l) /\ IsFiniteSet(u) /\ IsFiniteSet(i)
  BY <1>4
<1>7. LET sanity == Sanity([minimum_accuracy |-> Absence]) IN
      /\ sanity.status_counts = StatusCounts(Clean) /\ sanity.terminal = Cardinality(Clean)
      /\ sanity.labeled = Cardinality(l) /\ sanity.unlabeled = Cardinality(u)
      /\ sanity.invalid_label = Cardinality(i) /\ sanity.successful = Cardinality(valid)
  BY DEF Sanity
<1> HIDE DEF l, u, i, valid
<1>8. Cardinality(l) + Cardinality(u) + Cardinality(i) = Cardinality(valid)
  <2>1. IsFiniteSet(l \cup u) /\ Cardinality(l \cup u) = Cardinality(l) + Cardinality(u)
    BY <1>5, <1>6, DisjointUnion
  <2>2. Cardinality((l \cup u) \cup i) = Cardinality(l \cup u) + Cardinality(i)
    BY <1>5, <1>6, <2>1, DisjointUnion
  <2> QED BY <1>5, <2>1, <2>2
<1> QED BY <1>3, <1>7, <1>8 DEF OutcomesAreCounted

-----------------------------------------------------------------------------
(* The selections and the areas.                                           *)

\* the nearest integer to a quotient
LEMMA Nearest ==
    ASSUME NEW a \in Nat, NEW b \in Nat \ {0}
    PROVE  /\ HalfEven(a, b) \in Int /\ b * HalfEven(a, b) \in Int
           /\ 2 * (b * HalfEven(a, b)) <= 2 * a + b /\ 2 * a <= 2 * (b * HalfEven(a, b)) + b
<1> PICK q : q = a \div b
  OBVIOUS
<1> PICK r : r = a % b
  OBVIOUS
<1>1. q \in Int /\ r \in 0..(b - 1) /\ b * q \in Int /\ a = b * q + r
  BY DivMod
<1>2. CASE 2 * r > b \/ (2 * r = b /\ q % 2 = 1)
  <2>1. HalfEven(a, b) = q + 1
    BY <1>2 DEF HalfEven
  <2>2. b * (q + 1) = b * q + b /\ 2 * r >= b
    BY <1>1, <1>2
  <2> PICK x \in Int : x = b * q
    BY <1>1
  <2>3. 2 * (x + b) <= 2 * (x + r) + b /\ 2 * (x + r) <= 2 * (x + b) + b
    BY <1>1, <2>2
  <2> QED BY <1>1, <2>1, <2>2, <2>3
<1>3. CASE ~(2 * r > b \/ (2 * r = b /\ q % 2 = 1))
  <2>1. HalfEven(a, b) = q
    BY <1>3 DEF HalfEven
  <2>2. 2 * r <= b
    BY <1>1, <1>3
  <2> PICK x \in Int : x = b * q
    BY <1>1
  <2>3. 2 * x <= 2 * (x + r) + b /\ 2 * (x + r) <= 2 * x + b
    BY <1>1, <2>2
  <2> QED BY <1>1, <2>1, <2>3
<1> QED BY <1>2, <1>3

\* quotients that are more than a unit apart have different nearest integers
LEMMA NearestApart ==
    ASSUME NEW a \in Nat, NEW c \in Nat, NEW b \in Nat \ {0}, a + b < c
    PROVE  HalfEven(a, b) < HalfEven(c, b)
<1> PICK h : h = HalfEven(a, b)
  OBVIOUS
<1> PICK k : k = HalfEven(c, b)
  OBVIOUS
<1>1. /\ h \in Int /\ k \in Int /\ b * h \in Int /\ b * k \in Int
      /\ 2 * (b * h) <= 2 * a + b /\ 2 * c <= 2 * (b * k) + b
  BY Nearest
<1>2. 2 * (b * h) < 2 * (b * k)
  BY <1>1
<1>3. b * h < b * k
  BY <1>1, <1>2
<1>4. ~(k <= h)
  <2> SUFFICES ASSUME k <= h PROVE FALSE
    OBVIOUS
  <2>1. b * k <= b * h
    BY <1>1
  <2> QED BY <1>1, <1>3, <2>1
<1> QED BY <1>1, <1>4

\* a multiple is its own quotient
LEMMA NearestOfMultiple ==
    ASSUME NEW b \in Nat \ {0}, NEW n \in Nat
    PROVE  HalfEven(b * n, b) = n
<1> PICK h : h = HalfEven(b * n, b)
  OBVIOUS
<1>0. b * n \in Nat
  OBVIOUS
<1>1. /\ h \in Int /\ b * h \in Int
      /\ 2 * (b * h) <= 2 * (b * n) + b /\ 2 * (b * n) <= 2 * (b * h) + b
  BY <1>0, Nearest
<1>2. ~(h < n)
  <2> SUFFICES ASSUME h + 1 <= n PROVE FALSE
    BY <1>1
  <2>1. b * (h + 1) <= b * n /\ b * (h + 1) = b * h + b
    BY <1>1
  <2> QED BY <1>0, <1>1, <2>1
<1>3. ~(n < h)
  <2> SUFFICES ASSUME n + 1 <= h PROVE FALSE
    BY <1>1
  <2>1. b * (n + 1) <= b * h /\ b * (n + 1) = b * n + b
    BY <1>1
  <2> QED BY <1>0, <1>1, <2>1
<1> QED BY <1>1, <1>2, <1>3

\* at least two and not all of the values: each is as near as it can be to
\* where limit of them would divide the range evenly
EvenlyFrom(s, n, limit) ==
    s = [k \in 1..limit |-> HalfEven((k - 1) * (n - 1), limit - 1) + 1]

\* fewer than all are spread from the first to the last, and differ
LEMMA SpreadOfFewer ==
    ASSUME NEW n \in Nat, NEW limit \in Nat, 1 < limit, limit < n,
           NEW s, EvenlyFrom(s, n, limit)
    PROVE  /\ \A j, k \in 1..limit : j < k => s[j] < s[k]
           /\ s[1] = 1 /\ s[limit] = n
           /\ \A k \in 1..limit : s[k] \in 1..n
<1> PICK m : m = limit - 1
  OBVIOUS
<1> PICK w : w = n - 1
  OBVIOUS
<1>1. m \in Nat \ {0} /\ w \in Nat \ {0} /\ m < w /\ 1 \in 1..limit /\ limit \in 1..limit
  OBVIOUS
<1>2. \A k \in 1..limit : s[k] = HalfEven((k - 1) * w, m) + 1
  BY DEF EvenlyFrom
<1>3. ASSUME NEW k \in 1..limit
      PROVE  (k - 1) * w \in Nat /\ HalfEven((k - 1) * w, m) \in Int
  <2>1. (k - 1) * w \in Nat
    BY <1>1
  <2> QED BY <1>1, <2>1, Nearest
<1>8. \A k \in 1..limit : s[k] \in Int
  <2> TAKE k \in 1..limit
  <2>1. PICK h \in Int : h = HalfEven((k - 1) * w, m)
    BY <1>3
  <2>2. s[k] = h + 1
    BY <1>2, <2>1
  <2> QED BY <2>2
<1>4. ASSUME NEW j \in 1..limit, NEW k \in 1..limit, j < k
      PROVE  s[j] < s[k]
  <2>1. PICK d \in Nat : k = j + 1 + d
    <3>1. \A p, q \in Nat : p < q => \E e \in Nat : q = p + 1 + e
      <4> TAKE p \in Nat, q \in Nat
      <4> HAVE p < q
      <4> WITNESS q - p - 1 \in Nat
      <4> QED OBVIOUS
    <3> QED BY <1>4, <3>1
  <2>2. (k - 1) * w = ((j - 1) * w + w) + d * w
    BY <1>1, <2>1
  <2>3. d * w \in Nat /\ (j - 1) * w \in Nat /\ (k - 1) * w \in Nat
    BY <1>1
  <2>4. (j - 1) * w + m < (k - 1) * w
    BY <1>1, <2>2, <2>3
  <2>5. HalfEven((j - 1) * w, m) < HalfEven((k - 1) * w, m)
    <3>1. PICK a \in Nat : a = (j - 1) * w
      BY <2>3
    <3>2. PICK c \in Nat : c = (k - 1) * w
      BY <2>3
    <3>3. a + m < c
      BY <2>4, <3>1, <3>2
    <3>4. HalfEven(a, m) < HalfEven(c, m)
      BY <1>1, <3>3, NearestApart
    <3>5. HalfEven(a, m) = HalfEven((j - 1) * w, m)
      BY <3>1
    <3>6. HalfEven(c, m) = HalfEven((k - 1) * w, m)
      BY <3>2
    <3> QED BY <3>4, <3>5, <3>6
  <2>6. PICK g \in Int : g = HalfEven((j - 1) * w, m)
    BY <1>3
  <2>7. PICK h \in Int : h = HalfEven((k - 1) * w, m)
    BY <1>3
  <2>8. s[j] = g + 1 /\ s[k] = h + 1 /\ g < h
    BY <1>2, <2>5, <2>6, <2>7
  <2> QED BY <2>8
<1>5. s[1] = 1
  <2>1. (1 - 1) * w = m * 0 /\ HalfEven(m * 0, m) = 0
    BY <1>1, NearestOfMultiple
  <2> QED BY <1>1, <1>2, <2>1
<1>6. s[limit] = n
  <2>1. (limit - 1) * w = m * w /\ HalfEven(m * w, m) = w
    BY <1>1, NearestOfMultiple
  <2> QED BY <1>1, <1>2, <2>1
<1>7. ASSUME NEW k \in 1..limit
      PROVE  s[k] \in 1..n
  <2>1. s[k] \in Int
    BY <1>8
  <2>2. s[1] <= s[k]
    <3>1. k = 1 \/ 1 < k
      OBVIOUS
    <3> QED BY <1>1, <1>4, <1>5, <2>1, <3>1
  <2>3. s[k] <= s[limit]
    <3>1. k = limit \/ k < limit
      OBVIOUS
    <3> QED BY <1>1, <1>4, <1>6, <2>1, <3>1
  <2> QED BY <1>5, <1>6, <2>1, <2>2, <2>3
<1> QED BY <1>4, <1>5, <1>6, <1>7

\* a selection holds as many values as it may, in order, with both ends
LEMMA SelectionIsSpread ==
    ASSUME NEW n \in Nat, NEW limit \in Nat \ {0}
    PROVE  LET s == SelectEvenly(n, limit) IN
           /\ Len(s) = Smaller(n, limit) /\ DOMAIN s = 1..Len(s) /\ Elements(s) \subseteq 1..n
           /\ \A j, k \in DOMAIN s : j < k => s[j] < s[k]
           /\ n > 0 /\ limit > 1 => s[1] = 1 /\ s[Len(s)] = n
<1> DEFINE s == SelectEvenly(n, limit)
<1>1. CASE n <= limit
  <2>1. s = [k \in 1..n |-> k] /\ Smaller(n, limit) = n
    BY <1>1 DEF SelectEvenly, Smaller
  <2> HIDE DEF s
  <2>2. s = [k \in 1..n |-> s[k]] /\ \A k \in 1..n : s[k] = k
    BY <2>1
  <2>3. Len(s) = n /\ DOMAIN s = 1..n
    BY <2>2, MadeSequence
  <2> QED BY <2>1, <2>2, <2>3 DEF Elements, s
<1>2. CASE limit < n /\ limit = 1
  <2>1. s = <<(n - 1) \div 2 + 1>> /\ Smaller(n, limit) = 1
    BY <1>2 DEF SelectEvenly, Smaller
  <2>2. (n - 1) \div 2 + 1 \in 1..n
    BY <1>2
  <2> HIDE DEF s
  <2>3. Len(s) = 1 /\ DOMAIN s = 1..1 /\ s[1] \in 1..n
    BY <2>1, <2>2
  <2>4. \A j, k \in 1..1 : ~(j < k)
    OBVIOUS
  <2>5. Elements(s) \subseteq 1..n
    <3>1. Elements(s) = {s[1]}
      BY <2>3 DEF Elements
    <3> QED BY <2>3, <3>1
  <2>6. ~(limit > 1)
    BY <1>2
  <2> QED BY <2>1, <2>3, <2>4, <2>5, <2>6 DEF s
<1>3. CASE limit < n /\ limit # 1
  <2>1. EvenlyFrom(s, n, limit)
    BY <1>3 DEF SelectEvenly, EvenlyFrom
  <2>2. Smaller(n, limit) = limit /\ 1 < limit
    BY <1>3 DEF Smaller
  <2> HIDE DEF s
  <2>3. /\ \A j, k \in 1..limit : j < k => s[j] < s[k]
        /\ s[1] = 1 /\ s[limit] = n
        /\ \A k \in 1..limit : s[k] \in 1..n
    BY <1>3, <2>1, <2>2, SpreadOfFewer
  <2>4. s = [k \in 1..limit |-> s[k]]
    BY <2>1 DEF EvenlyFrom
  <2>5. Len(s) = limit /\ DOMAIN s = 1..limit
    BY <2>4, MadeSequence
  <2> QED BY <2>2, <2>3, <2>5 DEF Elements, s
<1> QED BY <1>1, <1>2, <1>3

\* what is selected is distinct, spread and never more than asked for
LEMMA Selections == SelectionsAreSpread
<1>1. (\A n \in 1..12 : n \in Nat /\ n > 0) /\ 1..6 \subseteq Nat \ {0}
  OBVIOUS
<1> QED BY <1>1, SelectionIsSpread DEF SelectionsAreSpread

\* what a function makes of a finite set
LEMMA ImageIsFinite ==
    ASSUME NEW S, IsFiniteSet(S), NEW f, DOMAIN f = S
    PROVE  IsFiniteSet({f[x] : x \in S})
<1> DEFINE T == {f[x] : x \in S}
<1> DEFINE h == [x \in S |-> f[x]]
<1>1. h \in Surjection(S, T)
  BY DEF Surjection
<1> HIDE DEF h, T
<1>2. IsFiniteSet(T)
  BY <1>1, FS_Surjection
<1> QED BY <1>2 DEF T

\* the sum over a finite set of natural numbers
LEMMA SumOfNats ==
    ASSUME NEW S, IsFiniteSet(S), NEW f, \A x \in S : f[x] \in Nat
    PROVE  SumFunctionOnSet(f, S) \in Nat /\ \A x \in S : f[x] <= SumFunctionOnSet(f, S)
<1>1. PICK g : Sums(f, g, S) /\ SumFunctionOnSet(f, S) = g[S]
  BY FoldOnSetIsSum
<1> QED BY <1>1, SumsOfNats

\* the first item of each region, as a sequence of positions
LEMMA FirstOfEach ==
    ASSUME NEW A, NEW items \in Seq(A)
    PROVE  LET unique == Deduplicated(items) IN
           /\ unique \in Seq(1..Len(items)) /\ Len(unique) \in Nat
           /\ \A i \in 1..Len(items) : \E k \in 1..Len(unique) :
                 items[unique[k]].key = items[i].key
<1> DEFINE places == [k \in DOMAIN items |-> k]
<1> DEFINE firsts == {k \in DOMAIN items : \A j \in 1..(k - 1) : items[j].key # items[k].key}
<1> DEFINE unique == Deduplicated(items)
<1>1. DOMAIN items = 1..Len(items) /\ Len(items) \in Nat
  BY LenProperties
<1>2. places \in Seq(1..Len(items)) /\ Len(places) = Len(items)
  <2>1. places \in [1..Len(items) -> 1..Len(items)]
    BY <1>1
  <2> QED BY <1>1, <2>1, FunctionAsSeq
<1>3. Members(places) = 1..Len(items)
  BY <1>1, <1>2 DEF Members
<1>4. unique = Those(places, firsts)
  BY DEF Deduplicated
<1> HIDE DEF places, firsts, unique
<1>5. unique \in Seq(1..Len(items)) /\ Members(unique) = 1..Len(items) \cap firsts
  BY <1>2, <1>3, <1>4, ThoseMembers
<1>6. ASSUME NEW i \in 1..Len(items)
      PROVE  \E k \in 1..Len(unique) : items[unique[k]].key = items[i].key
  <2> DEFINE same == {j \in 1..Len(items) : items[j].key = items[i].key}
  <2>1. same \subseteq Nat /\ i \in same
    OBVIOUS
  <2>2. PICK j \in same : \A m \in same : j <= m
    <3> HIDE DEF same
    <3> QED BY <2>1, NatLeast
  <2>3. j \in 1..Len(items) /\ items[j].key = items[i].key
    OBVIOUS
  <2>4. ASSUME NEW m \in 1..(j - 1) PROVE items[m].key # items[j].key
    <3>1. m \in 1..Len(items) /\ m < j
      BY <1>1, <2>3
    <3>2. m \notin same
      <4> HIDE DEF same
      <4>1. j \in Nat /\ m \in Nat
        BY <2>3
      <4> QED BY <2>2, <3>1, <4>1
    <3> QED BY <2>3, <3>1, <3>2
  <2>5. j \in firsts
    BY <1>1, <2>3, <2>4 DEF firsts
  <2>6. PICK k \in 1..Len(unique) : unique[k] = j
    BY <1>5, <2>3, <2>5 DEF Members
  <2> QED BY <2>3, <2>6
<1>7. Len(unique) \in Nat
  BY <1>5, LenProperties
<1> QED BY <1>5, <1>6, <1>7 DEF unique

\* few items are chosen, all of them unless the selection is truncated
LEMMA ChosenItemsAre ==
    ASSUME NEW A, NEW s, s.items \in Seq(A), NEW limit \in Nat \ {0}
    PROVE  LET unique == Deduplicated(s.items) IN
           /\ IsFiniteSet(ChosenItems(s, limit)) /\ ChosenItems(s, limit) \subseteq Elements(s.items)
           /\ Len(unique) <= limit =>
                 \A k \in 1..Len(unique) : s.items[unique[k]] \in ChosenItems(s, limit)
<1> DEFINE unique == Deduplicated(s.items)
<1> DEFINE n == Len(unique)
<1> DEFINE picked == SelectEvenly(n, limit)
<1>1. unique \in Seq(1..Len(s.items)) /\ n \in Nat
  BY FirstOfEach
<1>2. ChosenItems(s, limit) = {s.items[unique[k]] : k \in Elements(picked)}
  BY DEF ChosenItems
<1>3. n <= limit => picked = [k \in 1..n |-> k]
  BY DEF SelectEvenly
<1> HIDE DEF unique, picked
<1>4. Len(picked) = Smaller(n, limit) /\ Elements(picked) \subseteq 1..n
  <2> HIDE DEF n
  <2> QED BY <1>1, SelectionIsSpread DEF picked
<1>5. IsFiniteSet(ChosenItems(s, limit))
  <2>1. IsFiniteSet(Elements(picked))
    <3>1. IsFiniteSet(1..n)
      BY <1>1, FS_Interval
    <3> QED BY <1>4, <3>1, FS_Subset
  <2> DEFINE S == Elements(picked)
  <2> DEFINE f == [k \in S |-> s.items[unique[k]]]
  <2> HIDE DEF S
  <2>2. DOMAIN f = S /\ {f[k] : k \in S} = {s.items[unique[k]] : k \in S}
    OBVIOUS
  <2>3. IsFiniteSet(S)
    BY <2>1 DEF S
  <2> HIDE DEF f
  <2>4. IsFiniteSet({f[k] : k \in S})
    BY <2>2, <2>3, ImageIsFinite
  <2> QED BY <1>2, <2>2, <2>4 DEF S
<1>6. ChosenItems(s, limit) \subseteq Elements(s.items)
  <2>1. \A k \in 1..n : unique[k] \in 1..Len(s.items)
    BY <1>1, ElementOfSeq
  <2> QED BY <1>2, <1>4, <2>1 DEF Elements
<1>7. ASSUME n <= limit, NEW k \in 1..n
      PROVE  s.items[unique[k]] \in ChosenItems(s, limit)
  <2>1. Smaller(n, limit) = n
    BY <1>1, <1>7 DEF Smaller
  <2>2. picked[k] = k /\ k \in 1..Len(picked)
    BY <1>3, <1>4, <1>7, <2>1
  <2>3. k \in Elements(picked)
    BY <2>2 DEF Elements
  <2> QED BY <1>2, <2>3
<1> QED BY <1>5, <1>6, <1>7 DEF unique

\* what the area check counts for each sample is a natural number
LEMMA AreaCounts ==
    ASSUME NEW g, AreaOK(g), g.max_regions \in Nat \ {0}
    PROVE  /\ \A k \in DOMAIN g.samples :
                 /\ g.samples[k] \in Elements(g.samples)
                 /\ IsFiniteSet(AreaFailures(g.samples[k], g))
                 /\ Cardinality(AreaFailures(g.samples[k], g)) \in Nat
                 /\ Len(Deduplicated(g.samples[k].items)) \in Nat
           /\ DOMAIN g.samples = 1..Len(g.samples) /\ IsFiniteSet(DOMAIN g.samples)
<1>1. DOMAIN g.samples = 1..Len(g.samples) /\ Len(g.samples) \in Nat
  BY LenProperties DEF AreaOK
<1>2. IsFiniteSet(DOMAIN g.samples)
  BY <1>1, FS_Interval
<1>3. ASSUME NEW k \in DOMAIN g.samples
      PROVE  /\ g.samples[k] \in Elements(g.samples)
             /\ IsFiniteSet(AreaFailures(g.samples[k], g))
             /\ Cardinality(AreaFailures(g.samples[k], g)) \in Nat
             /\ Len(Deduplicated(g.samples[k].items)) \in Nat
  <2>0. PICK s : s = g.samples[k]
    OBVIOUS
  <2>1. s \in Elements(g.samples)
    BY <1>1, <2>0 DEF Elements
  <2>2. s.items \in Seq(Elements(s.items))
    BY <2>1 DEF AreaOK
  <2>3. IsFiniteSet(ChosenItems(s, g.max_regions)) /\ Len(Deduplicated(s.items)) \in Nat
    BY <2>2, FirstOfEach, ChosenItemsAre
  <2>4. AreaFailures(s, g) \subseteq ChosenItems(s, g.max_regions)
    BY DEF AreaFailures
  <2>5. IsFiniteSet(AreaFailures(s, g))
    BY <2>3, <2>4, FS_Subset
  <2>6. Cardinality(AreaFailures(s, g)) \in Nat
    BY <2>5, FS_CardinalityType
  <2> QED BY <2>0, <2>1, <2>3, <2>5, <2>6
<1> QED BY <1>1, <1>2, <1>3

\* what the area check answers
LEMMA AreaTypes ==
    ASSUME NEW g, AreaOK(g), g.max_regions \in Nat \ {0}
    PROVE  AreaSanity(g) \in AreaResults
<1> DEFINE sizes == [k \in DOMAIN g.samples |-> Len(Deduplicated(g.samples[k].items))]
<1>1. DOMAIN sizes = DOMAIN g.samples /\ \A k \in DOMAIN sizes : sizes[k] \in Nat
  BY AreaCounts
<1>2. IsFiniteSet(DOMAIN sizes)
  BY AreaCounts
<1>3. AreaSanity(g).candidates = SumFunction(sizes)
  BY DEF AreaSanity
<1> HIDE DEF sizes
<1>4. SumFunction(sizes) \in Nat
  BY <1>1, <1>2, SumOfNats DEF SumFunction
<1>5. /\ AreaSanity(g) = [passed |-> AreaSanity(g).passed, candidates |-> AreaSanity(g).candidates,
                          truncated |-> AreaSanity(g).truncated]
      /\ AreaSanity(g).passed \in Outcomes /\ AreaSanity(g).truncated \in BOOLEAN
  BY DEF AreaSanity, Outcomes
<1>6. AreaSanity(g).candidates \in Nat
  BY <1>3, <1>4
<1> QED BY <1>5, <1>6 DEF AreaResults

\* an area check that passes has looked at items that keep their area
LEMMA AreasKept == PassedAreasAreKept
<1> SUFFICES ASSUME NEW p \in Situations,
                    AreaSanity(p.area).passed = "yes", ~AreaSanity(p.area).truncated,
                    NEW s \in Elements(p.area.samples), NEW x \in Elements(s.items)
             PROVE  /\ s.loads
                    /\ \E y \in Elements(s.items) :
                          y.key = x.key /\ y.areas # Absence /\ ~Deviates(y.areas, p.area.tolerance)
  BY DEF PassedAreasAreKept
<1> PICK g : g = p.area
  OBVIOUS
<1>1. AreaOK(g) /\ g.max_regions \in Nat \ {0}
  BY EstimateAssumption DEF SituationOK, OptionsOK, Positive
<1>2. PICK k \in DOMAIN g.samples : s = g.samples[k]
  BY <1>1, AreaCounts DEF Elements
<1>3. s \in Elements(g.samples) /\ s.items \in Seq(Elements(s.items)) /\ s.loads \in BOOLEAN
  BY <1>1, <1>2 DEF AreaOK
<1> DEFINE failures == [j \in DOMAIN g.samples |-> Cardinality(AreaFailures(g.samples[j], g))]
<1> DEFINE unique == Deduplicated(s.items)
<1>4. SumFunction(failures) = 0 /\ ~(Len(unique) > g.max_regions)
  <2>1. AreaSanity(g).passed = "yes" /\ ~AreaSanity(g).truncated
    OBVIOUS
  <2>2. SumFunction(failures) = 0
    BY <2>1 DEF AreaSanity
  <2>3. ~(Len(unique) > g.max_regions)
    BY <1>2, <2>1 DEF AreaSanity
  <2> QED BY <2>2, <2>3
<1>5. Cardinality(AreaFailures(s, g)) = 0
  <2>1. DOMAIN failures = DOMAIN g.samples /\ \A j \in DOMAIN failures : failures[j] \in Nat
    BY <1>1, AreaCounts
  <2>2. IsFiniteSet(DOMAIN failures)
    BY <1>1, AreaCounts
  <2>3. failures[k] = Cardinality(AreaFailures(s, g))
    BY <1>2
  <2> HIDE DEF failures
  <2>4. failures[k] <= SumFunction(failures) /\ failures[k] \in Nat
    BY <1>2, <2>1, <2>2, SumOfNats DEF SumFunction
  <2> QED BY <1>4, <2>3, <2>4
<1>6. AreaFailures(s, g) = {}
  BY <1>1, <1>2, <1>5, AreaCounts, FS_EmptySet
<1>7. Len(unique) \in Nat /\ Len(unique) <= g.max_regions
  <2>1. Len(unique) \in Nat
    BY <1>3, FirstOfEach
  <2> HIDE DEF unique
  <2> QED BY <1>1, <1>4, <2>1
<1>8. PICK i \in 1..Len(s.items) : x = s.items[i]
  BY DEF Elements
<1>9. PICK m \in 1..Len(unique) : s.items[unique[m]].key = x.key
  BY <1>3, <1>8, FirstOfEach
<1>10. PICK y : y = s.items[unique[m]]
  OBVIOUS
<1>11. y \in ChosenItems(s, g.max_regions) /\ y \in Elements(s.items)
  BY <1>1, <1>3, <1>7, <1>9, <1>10, ChosenItemsAre
<1>12. ~(s.loads => ~Evaluable(y) \/ Deviates(y.areas, g.tolerance))
  BY <1>6, <1>11 DEF AreaFailures
<1> QED BY <1>9, <1>10, <1>11, <1>12 DEF Evaluable

-----------------------------------------------------------------------------
(* The costs.                                                              *)

\* the least integer that is not below a quotient
LEMMA CeilingIs ==
    ASSUME NEW a \in Nat, NEW b \in Nat \ {0}
    PROVE  /\ Ceiling(a, b) \in Nat /\ a <= b * Ceiling(a, b)
           /\ \A k \in Nat : a <= b * k => Ceiling(a, b) <= k
<1> PICK q : q = (-a) \div b
  OBVIOUS
<1> PICK r : r = (-a) % b
  OBVIOUS
<1>1. q \in Int /\ r \in 0..(b - 1) /\ b * q \in Int /\ -a = b * q + r
  <2>1. -a \in Int
    OBVIOUS
  <2> QED BY <2>1, DivMod
<1> PICK c \in Int : c = -q
  BY <1>1
<1>2. Ceiling(a, b) = c
  BY DEF Ceiling
<1>3. b * c \in Int /\ b * c = a + r
  <2>1. \A i, j \in Int : i * (-j) \in Int /\ i * (-j) = -(i * j)
    OBVIOUS
  <2>2. b * c = -(b * q)
    BY <1>1, <2>1
  <2> PICK x \in Int : x = b * q
    BY <1>1
  <2>3. -a = x + r
    BY <1>1
  <2> QED BY <1>1, <2>2, <2>3
<1>4. ASSUME NEW k \in Int, k < c PROVE b * k \in Int /\ b * k < a
  <2>1. \A i, j \in Int : i * j \in Int /\ i * (j + 1) = i * j + i
    OBVIOUS
  <2>2. b * (k + 1) = b * k + b /\ b * k \in Int
    BY <2>1
  <2>3. b * (k + 1) <= b * c
    <3>1. PICK d \in Nat : c = (k + 1) + d
      <4>1. \A i, j \in Int : i < j => \E d \in Nat : j = (i + 1) + d
        <5> TAKE i, j \in Int
        <5> HAVE i < j
        <5> WITNESS j - i - 1 \in Nat
        <5> QED OBVIOUS
      <4> QED BY <1>4, <4>1
    <3>2. \A i \in Nat, j \in Int, e \in Nat : i * (j + e) = i * j + i * e /\ i * e \in Nat /\ i * j \in Int
      OBVIOUS
    <3>3. k + 1 \in Int
      OBVIOUS
    <3>4. b * c = b * (k + 1) + b * d /\ b * d \in Nat /\ b * (k + 1) \in Int
      BY <3>1, <3>2, <3>3
    <3> QED BY <3>4
  <2> QED BY <1>1, <1>3, <2>2, <2>3
<1>5. c \in Nat
  <2> SUFFICES ASSUME c < 0 PROVE FALSE
    OBVIOUS
  <2>1. c <= -1 /\ (-1) \in Int
    OBVIOUS
  <2>2. b * c <= -b
    <3>1. PICK d \in Nat : c = -1 - d
      <4>1. \A i \in Int : i <= -1 => \E d \in Nat : i = -1 - d
        <5> TAKE i \in Int
        <5> HAVE i <= -1
        <5> WITNESS -1 - i \in Nat
        <5> QED OBVIOUS
      <4> QED BY <2>1, <4>1
    <3>2. \A i \in Nat, e \in Nat : i * (-1 - e) = -i - i * e /\ i * e \in Nat
      OBVIOUS
    <3>3. b * c = -b - b * d /\ b * d \in Nat
      BY <3>1, <3>2
    <3> QED BY <3>3
  <2> QED BY <1>1, <1>3, <2>2
<1>6. ASSUME NEW k \in Nat, a <= b * k PROVE c <= k
  <2> SUFFICES ASSUME k < c PROVE FALSE
    OBVIOUS
  <2> PICK y \in Int : y = b * k
    BY <1>4
  <2> QED BY <1>4, <1>6
<1>7. a <= b * c
  BY <1>1, <1>3
<1> QED BY <1>2, <1>5, <1>6, <1>7

\* rounding up keeps the order
LEMMA CeilingMonotone ==
    ASSUME NEW a \in Nat, NEW c \in Nat, a <= c, NEW b \in Nat \ {0}
    PROVE  Ceiling(a, b) <= Ceiling(c, b)
<1> PICK k \in Nat : k = Ceiling(c, b)
  BY CeilingIs
<1> PICK d \in Nat : d = b * k
  OBVIOUS
<1>1. c <= d
  BY CeilingIs
<1>2. a <= b * k
  BY <1>1
<1> QED BY <1>2, CeilingIs

\* a proportion of n, rounded down
LEMMA Proportion ==
    ASSUME NEW n \in Nat, NEW l \in Nat, NEW e \in Nat \ {0}, l < e
    PROVE  /\ (n * l) \div e \in Nat /\ (n * l) \div e <= n
           /\ ((n * l) \div e) * e <= n * l
<1> PICK a \in Nat : a = n * l
  OBVIOUS
<1> PICK k : k = a \div e
  OBVIOUS
<1>1. k \in Int /\ e * k \in Int /\ a % e \in 0..(e - 1) /\ a = e * k + (a % e)
  BY DivMod
<1>2. k \in Nat
  OBVIOUS
<1>3. e * k <= a
  BY <1>1
<1>4. k <= n
  <2> SUFFICES ASSUME n + 1 <= k PROVE FALSE
    BY <1>2
  <2>1. PICK d \in Nat : k = n + 1 + d
    <3>1. \A i, j \in Nat : i + 1 <= j => \E m \in Nat : j = i + 1 + m
      <4> TAKE i, j \in Nat
      <4> HAVE i + 1 <= j
      <4> WITNESS j - i - 1 \in Nat
      <4> QED OBVIOUS
    <3> QED BY <1>2, <3>1
  <2>2. PICK f \in Nat : e = l + 1 + f
    <3>1. \A i, j \in Nat : i < j => \E m \in Nat : j = i + 1 + m
      <4> TAKE i, j \in Nat
      <4> HAVE i < j
      <4> WITNESS j - i - 1 \in Nat
      <4> QED OBVIOUS
    <3> QED BY <3>1
  <2>3. e * k = n * l + n * f + n + e + e * d
    BY <2>1, <2>2
  <2>4. n * f \in Nat /\ e * d \in Nat
    BY <2>1, <2>2
  <2> QED BY <1>3, <2>3, <2>4
<1>5. k * e = e * k
  BY <1>1
<1> QED BY <1>2, <1>3, <1>4, <1>5

\* comparing quotients by multiplying crosswise is transitive
LEMMA CrosswiseTransitive ==
    ASSUME NEW a \in Nat, NEW b \in Nat \ {0}, NEW c \in Nat, NEW d \in Nat \ {0},
           NEW e \in Nat, NEW f \in Nat \ {0}, a * d <= c * b, c * f <= e * d
    PROVE  a * f <= e * b
<1>1. (a * d) * f <= (c * b) * f
  <2>1. \A i, j, k \in Nat : i <= j => i * k <= j * k
    OBVIOUS
  <2>2. a * d \in Nat /\ c * b \in Nat /\ f \in Nat
    OBVIOUS
  <2> QED BY <2>1, <2>2
<1>2. (c * f) * b <= (e * d) * b
  <2>1. \A i, j, k \in Nat : i <= j => i * k <= j * k
    OBVIOUS
  <2>2. c * f \in Nat /\ e * d \in Nat /\ b \in Nat
    OBVIOUS
  <2> QED BY <2>1, <2>2
<1>3. (a * d) * f = (a * f) * d /\ (c * b) * f = (c * f) * b /\ (e * d) * b = (e * b) * d
  OBVIOUS
<1>4. (a * f) * d <= (e * b) * d
  <2>1. (a * d) * f \in Nat /\ (c * b) * f \in Nat /\ (e * d) * b \in Nat
    OBVIOUS
  <2> PICK x \in Nat : x = (a * d) * f
    BY <2>1
  <2> PICK y \in Nat : y = (c * b) * f
    BY <2>1
  <2> PICK z \in Nat : z = (e * d) * b
    BY <2>1
  <2>2. x <= y /\ y <= z
    BY <1>1, <1>2, <1>3
  <2>3. x <= z
    BY <2>2
  <2> QED BY <1>3, <2>3
<1> QED
  <2>1. a * f \in Nat /\ e * b \in Nat
    OBVIOUS
  <2>2. \A i, j \in Nat, k \in Nat \ {0} : i * k <= j * k => i <= j
    OBVIOUS
  <2> QED BY <1>4, <2>1, <2>2

\* what is estimated is a cost for each sample and one for each item
Weighed(n, m, a, b) == n * a + m * b

\* such a cost is a number
LEMMA WeighedIs ==
    ASSUME NEW n \in Nat, NEW m \in Nat, NEW a \in Nat, NEW b \in Nat
    PROVE  Weighed(n, m, a, b) \in Nat
BY DEF Weighed

\* and less costs no more
LEMMA WeighedMonotone ==
    ASSUME NEW n \in Nat, NEW m \in Nat, NEW a \in Nat, NEW b \in Nat,
           NEW i \in Nat, NEW j \in Nat, i <= n, j <= m
    PROVE  Weighed(i, j, a, b) <= Weighed(n, m, a, b)
<1>1. \A x, y, z \in Nat : x <= y => x * z <= y * z /\ x * z \in Nat /\ y * z \in Nat
  OBVIOUS
<1>2. /\ i * a <= n * a /\ i * a \in Nat /\ n * a \in Nat
      /\ j * b <= m * b /\ j * b \in Nat /\ m * b \in Nat
  BY <1>1
<1> QED BY <1>2 DEF Weighed

\* a part is no larger than the same proportion of the whole
LEMMA WeighedPart ==
    ASSUME NEW n \in Nat, NEW m \in Nat, NEW a \in Nat, NEW b \in Nat,
           NEW i \in Nat, NEW j \in Nat, NEW l \in Nat, NEW e \in Nat,
           i * e <= n * l, j * e <= m * l
    PROVE  Weighed(i, j, a, b) * e <= Weighed(n, m, a, b) * l
<1>1. \A x, y, z \in Nat : x <= y => x * z <= y * z /\ x * z \in Nat /\ y * z \in Nat
  OBVIOUS
<1>2. i * e \in Nat /\ n * l \in Nat /\ j * e \in Nat /\ m * l \in Nat
  OBVIOUS
<1>3. (i * e) * a <= (n * l) * a /\ (j * e) * b <= (m * l) * b
  BY <1>1, <1>2
<1>4. /\ (i * a + j * b) * e = (i * e) * a + (j * e) * b
      /\ (n * a + m * b) * l = (n * l) * a + (m * l) * b
  OBVIOUS
<1>5. /\ (i * e) * a \in Nat /\ (n * l) * a \in Nat /\ (j * e) * b \in Nat /\ (m * l) * b \in Nat
  OBVIOUS
<1>6. (i * e) * a + (j * e) * b <= (n * l) * a + (m * l) * b
  <2> PICK x \in Nat : x = (i * e) * a
    BY <1>5
  <2> PICK y \in Nat : y = (j * e) * b
    BY <1>5
  <2> PICK u \in Nat : u = (n * l) * a
    BY <1>5
  <2> PICK v \in Nat : v = (m * l) * b
    BY <1>5
  <2>1. x <= u /\ y <= v
    BY <1>3
  <2>2. x + y <= u + v
    BY <2>1
  <2> QED BY <2>2
<1> QED BY <1>4, <1>6 DEF Weighed

\* a situation whose cost can be estimated
Costed(q) ==
    /\ LimitsOK(q.limits) /\ AssumptionsOK(q)
    /\ Positive(q.elapsed.clean) /\ Positive(q.elapsed.perturbed)
    /\ q.pending_samples \in Nat /\ q.pending_items \in Nat
    /\ q.class_names \in Nat \cup {Absence}
\* measurements to extrapolate from
Gauged(sanity, profile) ==
    /\ Positive(sanity.terminal) /\ Positive(profile.terminal)
    /\ sanity.widths \subseteq Nat /\ IsFiniteSet(sanity.widths)
    /\ profile.widths \subseteq Nat /\ IsFiniteSet(profile.widths)

SampleBytes(q, classes) == q.compression_percent * (q.float_bytes * classes + q.clean_overhead)
ItemBytes(q, classes) == q.compression_percent * (q.float_bytes * classes + q.perturbed_overhead)

\* the bytes of a dump are such a cost, rounded up after compression
LEMMA DumpBytesIs ==
    ASSUME NEW q, AssumptionsOK(q), NEW classes \in Nat, NEW n \in Nat, NEW m \in Nat
    PROVE  /\ SampleBytes(q, classes) \in Nat /\ ItemBytes(q, classes) \in Nat
           /\ DumpBytes(n, m, classes, q)
                = Ceiling(Weighed(n, m, SampleBytes(q, classes), ItemBytes(q, classes)), 100)
<1> PICK percent \in Nat : percent = q.compression_percent
  BY DEF AssumptionsOK
<1> PICK float \in Nat : float = q.float_bytes
  BY DEF AssumptionsOK, Positive
<1> PICK clean \in Nat : clean = q.clean_overhead
  BY DEF AssumptionsOK
<1> PICK perturbed \in Nat : perturbed = q.perturbed_overhead
  BY DEF AssumptionsOK
<1> PICK logits \in Nat : logits = float * classes
  OBVIOUS
<1>1. /\ SampleBytes(q, classes) = percent * (logits + clean)
      /\ ItemBytes(q, classes) = percent * (logits + perturbed)
  BY DEF SampleBytes, ItemBytes
<1>2. percent * (logits + clean) \in Nat /\ percent * (logits + perturbed) \in Nat
  OBVIOUS
<1>3. percent * (n * (logits + clean) + m * (logits + perturbed))
        = n * (percent * (logits + clean)) + m * (percent * (logits + perturbed))
  <2>1. \A c, x, y, i, j \in Nat : c * (i * x + j * y) = i * (c * x) + j * (c * y)
    OBVIOUS
  <2>2. logits + clean \in Nat /\ logits + perturbed \in Nat
    OBVIOUS
  <2> QED BY <2>1, <2>2
<1>4. DumpBytes(n, m, classes, q)
        = Ceiling(percent * (n * (logits + clean) + m * (logits + perturbed)), 100)
  BY DEF DumpBytes
<1>5. Weighed(n, m, SampleBytes(q, classes), ItemBytes(q, classes))
        = n * (percent * (logits + clean)) + m * (percent * (logits + perturbed))
  BY <1>1 DEF Weighed
<1> QED BY <1>1, <1>2, <1>3, <1>4, <1>5

\* so a part of a dump has no more bytes than the dump
LEMMA DumpBytesMonotone ==
    ASSUME NEW q, AssumptionsOK(q), NEW classes \in Nat, NEW n \in Nat, NEW m \in Nat,
           NEW i \in Nat, NEW j \in Nat, i <= n, j <= m
    PROVE  /\ DumpBytes(n, m, classes, q) \in Nat /\ DumpBytes(i, j, classes, q) \in Nat
           /\ DumpBytes(i, j, classes, q) <= DumpBytes(n, m, classes, q)
<1> PICK a \in Nat : a = SampleBytes(q, classes)
  BY DumpBytesIs
<1> PICK b \in Nat : b = ItemBytes(q, classes)
  BY DumpBytesIs
<1>1. /\ DumpBytes(n, m, classes, q) = Ceiling(Weighed(n, m, a, b), 100)
      /\ DumpBytes(i, j, classes, q) = Ceiling(Weighed(i, j, a, b), 100)
  BY DumpBytesIs
<1>2. /\ Weighed(n, m, a, b) \in Nat /\ Weighed(i, j, a, b) \in Nat
      /\ Weighed(i, j, a, b) <= Weighed(n, m, a, b)
  BY WeighedIs, WeighedMonotone
<1>3. 100 \in Nat \ {0}
  OBVIOUS
<1> QED BY <1>1, <1>2, <1>3, CeilingIs, CeilingMonotone

\* the seconds of a pending sample and of an item, times what both passes measured
SampleSeconds(q, profile) == q.elapsed.clean * profile.terminal
ItemSeconds(q, sanity) == q.elapsed.perturbed * sanity.terminal

\* the seconds are such a cost over a common denominator
LEMMA SecondsAre ==
    ASSUME NEW q, Costed(q), NEW sanity, NEW profile, Gauged(sanity, profile)
    PROVE  LET seconds == EstimatedSeconds(q, sanity, profile) IN
           /\ SampleSeconds(q, profile) \in Nat /\ ItemSeconds(q, sanity) \in Nat
           /\ seconds[1] = Weighed(q.pending_samples, q.pending_items,
                                   SampleSeconds(q, profile), ItemSeconds(q, sanity))
           /\ seconds[1] \in Nat /\ seconds[2] \in Nat \ {0}
           /\ seconds[2] = sanity.terminal * profile.terminal
           /\ seconds = <<seconds[1], seconds[2]>>
<1> PICK n \in Nat : n = q.pending_samples
  BY DEF Costed
<1> PICK m \in Nat : m = q.pending_items
  BY DEF Costed
<1> PICK clean \in Nat : clean = q.elapsed.clean
  BY DEF Costed, Positive
<1> PICK perturbed \in Nat : perturbed = q.elapsed.perturbed
  BY DEF Costed, Positive
<1> PICK s \in Nat \ {0} : s = sanity.terminal
  BY DEF Gauged, Positive
<1> PICK r \in Nat \ {0} : r = profile.terminal
  BY DEF Gauged, Positive
<1>1. EstimatedSeconds(q, sanity, profile) = <<(n * clean) * r + (m * perturbed) * s, s * r>>
  BY DEF EstimatedSeconds
<1>2. (n * clean) * r + (m * perturbed) * s = n * (clean * r) + m * (perturbed * s)
  <2>1. \A i, j, k \in Nat : (i * j) * k = i * (j * k)
    OBVIOUS
  <2>2. (n * clean) * r = n * (clean * r) /\ (m * perturbed) * s = m * (perturbed * s)
    BY <2>1
  <2> QED BY <2>2
<1>3. SampleSeconds(q, profile) = clean * r /\ ItemSeconds(q, sanity) = perturbed * s
  BY DEF SampleSeconds, ItemSeconds
<1>4. clean * r \in Nat /\ perturbed * s \in Nat /\ s * r \in Nat \ {0}
  OBVIOUS
<1>5. n * (clean * r) + m * (perturbed * s) \in Nat
  OBVIOUS
<1>6. Weighed(n, m, clean * r, perturbed * s) = n * (clean * r) + m * (perturbed * s)
  BY DEF Weighed
<1> QED BY <1>1, <1>2, <1>3, <1>4, <1>5, <1>6

-----------------------------------------------------------------------------
(* The report.                                                             *)

\* the parts of a report
Classes(q, sanity, profile) == CHOOSE n \in Observed(q, sanity, profile) : TRUE
Remaining(q, sanity, profile) ==
    IF NoPending(q) THEN 0
    ELSE DumpBytes(q.pending_samples, q.pending_items, Classes(q, sanity, profile), q)
Unit(q, sanity, profile) == EstimatedSeconds(q, sanity, profile)[2]
Costs(q, sanity, profile) ==
    Estimates(q, EstimatedSeconds(q, sanity, profile), Remaining(q, sanity, profile))
Exceeded(q, sanity, profile) ==
    Exceedances(q, Costs(q, sanity, profile), Unit(q, sanity, profile))
Binder(q, sanity, profile) ==
    Binding(q, Costs(q, sanity, profile), Exceeded(q, sanity, profile))
CallsOf(q, sanity, profile) ==
    Extrapolated(calls.clean, q.pending_samples, sanity.terminal)
    + Extrapolated(calls.perturbed, q.pending_items, profile.terminal)
Advised(q, profile) ==
    IF q.pending_items > 0 THEN RecommendedVariants(q, profile) ELSE Absence

ReportParts(report, q, sanity, profile, area) ==
    /\ report = [inference_calls |-> report.inference_calls, seconds |-> report.seconds,
                 remaining_bytes |-> report.remaining_bytes, total_bytes |-> report.total_bytes,
                 exceedances |-> report.exceedances, fraction |-> report.fraction,
                 variants |-> report.variants, memory_high |-> report.memory_high,
                 confirmation_required |-> report.confirmation_required]
    /\ report.inference_calls = CallsOf(q, sanity, profile)
    /\ report.seconds = EstimatedSeconds(q, sanity, profile)
    /\ report.remaining_bytes = Remaining(q, sanity, profile)
    /\ report.total_bytes =
          IF Observed(q, sanity, profile) = {} THEN Absence
          ELSE q.manifest_bytes + DumpBytes(q.total_samples, q.total_items,
                                            Classes(q, sanity, profile), q)
    /\ report.exceedances = Exceeded(q, sanity, profile)
    /\ report.fraction =
          IF Exceeded(q, sanity, profile) = {} THEN Absence
          ELSE <<q.limits[Binder(q, sanity, profile)] * Unit(q, sanity, profile),
                 Costs(q, sanity, profile)[Binder(q, sanity, profile)]>>
    /\ report.variants = Advised(q, profile)
    /\ report.memory_high = (q.pending_items > 0 /\ profile.max_chunk > q.budget)
    /\ report.confirmation_required =
          (\/ Exceeded(q, sanity, profile) # {}
           \/ (~NoPending(q) /\ "no" \in {sanity.passed, area.passed}))

\* a report is made of those parts
LEMMA ReportIs ==
    ASSUME NEW q, NEW sanity, NEW profile, NEW area
    PROVE  ReportParts(Report(q, sanity, profile, area), q, sanity, profile, area)
<1> DEFINE a == CallsOf(q, sanity, profile)
<1> DEFINE b == EstimatedSeconds(q, sanity, profile)
<1> DEFINE c == Remaining(q, sanity, profile)
<1> DEFINE d == IF Observed(q, sanity, profile) = {} THEN Absence
                ELSE q.manifest_bytes + DumpBytes(q.total_samples, q.total_items,
                                                  Classes(q, sanity, profile), q)
<1> DEFINE e == Exceeded(q, sanity, profile)
<1> DEFINE f == IF Exceeded(q, sanity, profile) = {} THEN Absence
                ELSE <<q.limits[Binder(q, sanity, profile)] * Unit(q, sanity, profile),
                       Costs(q, sanity, profile)[Binder(q, sanity, profile)]>>
<1> DEFINE v == Advised(q, profile)
<1> DEFINE h == q.pending_items > 0 /\ profile.max_chunk > q.budget
<1> DEFINE i == \/ Exceeded(q, sanity, profile) # {}
                \/ (~NoPending(q) /\ "no" \in {sanity.passed, area.passed})
<1> DEFINE report == Report(q, sanity, profile, area)
<1>1. report =
        [inference_calls |-> a, seconds |-> b, remaining_bytes |-> c, total_bytes |-> d,
         exceedances |-> e, fraction |-> f, variants |-> v, memory_high |-> h,
         confirmation_required |-> i]
  BY Zenon DEF Report, CallsOf, Remaining, Classes, Exceeded, Costs, Unit, Binder, Advised
<1> HIDE DEF a, b, c, d, e, f, v, h, i, report
<1>2. /\ report.inference_calls = a /\ report.seconds = b /\ report.remaining_bytes = c
      /\ report.total_bytes = d /\ report.exceedances = e /\ report.fraction = f
      /\ report.variants = v /\ report.memory_high = h /\ report.confirmation_required = i
  BY <1>1
<1>3. report = [inference_calls |-> report.inference_calls, seconds |-> report.seconds,
                remaining_bytes |-> report.remaining_bytes, total_bytes |-> report.total_bytes,
                exceedances |-> report.exceedances, fraction |-> report.fraction,
                variants |-> report.variants, memory_high |-> report.memory_high,
                confirmation_required |-> report.confirmation_required]
  BY <1>1, <1>2
<1> QED BY Zenon, <1>2, <1>3 DEF a, b, c, d, e, f, v, h, i, report, ReportParts

\* a finite set of at most one element
LEMMA AtMostOne ==
    ASSUME NEW S, IsFiniteSet(S), ~(Cardinality(S) > 1), NEW x \in S, NEW y \in S
    PROVE  x = y
<1> SUFFICES ASSUME x # y PROVE FALSE
  OBVIOUS
<1>1. IsFiniteSet({x}) /\ Cardinality({x}) = 1
  BY FS_Singleton
<1>2. IsFiniteSet({x} \cup {y}) /\ Cardinality({x} \cup {y}) = Cardinality({x}) + 1
  BY <1>1, FS_AddElement
<1>3. Cardinality({x} \cup {y}) <= Cardinality(S) /\ Cardinality(S) \in Nat
  <2>1. {x} \cup {y} \subseteq S
    OBVIOUS
  <2> QED BY <2>1, FS_Subset, FS_CardinalityType
<1> QED BY <1>1, <1>2, <1>3

\* an estimate without an error knows how many classes there are
LEMMA ClassesKnown ==
    ASSUME NEW q, Costed(q), NEW sanity, NEW profile, Gauged(sanity, profile),
           ~EstimationError(q, sanity, profile)
    PROVE  /\ \A x, y \in Observed(q, sanity, profile) : x = y
           /\ Observed(q, sanity, profile) \subseteq Nat
           /\ Observed(q, sanity, profile) # {} =>
                /\ Classes(q, sanity, profile) \in Observed(q, sanity, profile)
                /\ Classes(q, sanity, profile) \in Nat
           /\ ~NoPending(q) => Observed(q, sanity, profile) # {}
<1> DEFINE seen == Observed(q, sanity, profile)
<1>1. seen = ((IF q.class_names = Absence THEN {} ELSE {q.class_names})
              \cup (IF NoPending(q) THEN {} ELSE sanity.widths))
              \cup (IF q.pending_items = 0 THEN {} ELSE profile.widths)
  BY DEF Observed
<1>2. seen \subseteq Nat
  BY <1>1 DEF Costed, Gauged
<1>3. IsFiniteSet(seen)
  <2>1. IsFiniteSet(IF q.class_names = Absence THEN {} ELSE {q.class_names})
    BY FS_EmptySet, FS_Singleton
  <2>2. IsFiniteSet(IF NoPending(q) THEN {} ELSE sanity.widths)
    BY FS_EmptySet DEF Gauged
  <2>3. IsFiniteSet(IF q.pending_items = 0 THEN {} ELSE profile.widths)
    BY FS_EmptySet DEF Gauged
  <2>4. \A A, B : IsFiniteSet(A) /\ IsFiniteSet(B) => IsFiniteSet(A \cup B)
    BY FS_Union
  <2> QED BY <1>1, <2>1, <2>2, <2>3, <2>4
<1>4. ~(Cardinality(seen) > 1) /\ (~NoPending(q) => seen # {})
  BY DEF EstimationError
<1> HIDE DEF seen
<1>5. \A x, y \in seen : x = y
  BY <1>3, <1>4, AtMostOne
<1>6. seen # {} => (CHOOSE n \in seen : TRUE) \in seen
  OBVIOUS
<1> QED BY <1>2, <1>4, <1>5, <1>6 DEF seen, Classes

\* what is estimated, for each kind of limit
LEMMA CostsAre ==
    ASSUME NEW q, Costed(q), NEW sanity, NEW profile, Gauged(sanity, profile),
           ~EstimationError(q, sanity, profile)
    PROVE  /\ Remaining(q, sanity, profile) \in Nat
           /\ Unit(q, sanity, profile) \in Nat \ {0}
           /\ DOMAIN Costs(q, sanity, profile) = Kinds
           /\ \A kind \in Kinds : Costs(q, sanity, profile)[kind] \in Nat
           /\ Costs(q, sanity, profile)["pending_items"] = q.pending_items * Unit(q, sanity, profile)
           /\ Costs(q, sanity, profile)["estimated_seconds"] = EstimatedSeconds(q, sanity, profile)[1]
           /\ Costs(q, sanity, profile)["remaining_dump_bytes"]
                = Remaining(q, sanity, profile) * Unit(q, sanity, profile)
<1>1. PICK u \in Nat \ {0} : u = Unit(q, sanity, profile)
  BY SecondsAre DEF Unit
<1>2. PICK m \in Nat : m = q.pending_items
  BY DEF Costed
<1>3. Remaining(q, sanity, profile) \in Nat
  <2>1. CASE NoPending(q)
    BY <2>1 DEF Remaining
  <2>2. CASE ~NoPending(q)
    <3>1. Classes(q, sanity, profile) \in Nat
      BY <2>2, ClassesKnown
    <3>2. q.pending_samples \in Nat /\ q.pending_items \in Nat /\ AssumptionsOK(q)
      BY DEF Costed
    <3>3. q.pending_samples <= q.pending_samples /\ q.pending_items <= q.pending_items
      BY <3>2
    <3>4. DumpBytes(q.pending_samples, q.pending_items, Classes(q, sanity, profile), q) \in Nat
      BY <3>1, <3>2, <3>3, DumpBytesMonotone
    <3> QED BY <2>2, <3>4 DEF Remaining
  <2> QED BY <2>1, <2>2
<1>4. PICK bytes \in Nat : bytes = Remaining(q, sanity, profile)
  BY <1>3
<1>5. PICK s \in Nat : s = EstimatedSeconds(q, sanity, profile)[1]
  BY SecondsAre
<1>6. Costs(q, sanity, profile) =
        [pending_items |-> m * u, estimated_seconds |-> s, remaining_dump_bytes |-> bytes * u]
  BY <1>1, <1>2, <1>4, <1>5 DEF Costs, Estimates, Unit
<1>7. m * u \in Nat /\ bytes * u \in Nat
  OBVIOUS
<1> QED BY <1>1, <1>2, <1>3, <1>4, <1>5, <1>6, <1>7 DEF Kinds

\* w is q with less that is pending
SamePrices(w, q) ==
    /\ w.limits = q.limits /\ w.elapsed = q.elapsed /\ w.class_names = q.class_names
    /\ w.float_bytes = q.float_bytes /\ w.compression_percent = q.compression_percent
    /\ w.clean_overhead = q.clean_overhead /\ w.perturbed_overhead = q.perturbed_overhead
    /\ w.manifest_bytes = q.manifest_bytes
PartOf(w, q) ==
    /\ SamePrices(w, q)
    /\ w.pending_samples <= q.pending_samples /\ w.pending_items <= q.pending_items

\* a part has the prices of the whole
LEMMA SameBytes ==
    ASSUME NEW w, NEW q, SamePrices(w, q), NEW n, NEW m, NEW classes
    PROVE  DumpBytes(n, m, classes, w) = DumpBytes(n, m, classes, q)
BY DEF SamePrices, DumpBytes

\* and as many classes
LEMMA SameClasses ==
    ASSUME NEW w, Costed(w), NEW q, Costed(q), PartOf(w, q),
           NEW sanity, NEW profile, Gauged(sanity, profile),
           ~EstimationError(w, sanity, profile), ~EstimationError(q, sanity, profile),
           ~NoPending(w)
    PROVE  /\ Classes(w, sanity, profile) = Classes(q, sanity, profile)
           /\ ~NoPending(q) /\ Classes(q, sanity, profile) \in Nat
<1>1. w.pending_items > 0 => q.pending_items > 0
  BY DEF Costed, PartOf
<1>2. w.pending_samples > 0 => q.pending_samples > 0
  BY DEF Costed, PartOf
<1>3. ~NoPending(q)
  BY <1>1, <1>2 DEF NoPending, Costed
<1>4. Observed(w, sanity, profile) \subseteq Observed(q, sanity, profile)
  <2>1. w.pending_items # 0 => q.pending_items # 0
    BY <1>1 DEF Costed
  <2>2. w.class_names = q.class_names
    BY DEF PartOf, SamePrices
  <2> QED BY <1>3, <2>1, <2>2 DEF Observed
<1>5. Classes(w, sanity, profile) \in Observed(w, sanity, profile)
  BY ClassesKnown
<1>6. Classes(q, sanity, profile) \in Observed(q, sanity, profile) /\ Classes(q, sanity, profile) \in Nat
  BY <1>3, ClassesKnown
<1>7. \A x, y \in Observed(q, sanity, profile) : x = y
  BY ClassesKnown
<1> QED BY <1>3, <1>4, <1>5, <1>6, <1>7

\* it takes no more seconds
LEMMA PartSeconds ==
    ASSUME NEW w, Costed(w), NEW q, Costed(q), PartOf(w, q),
           NEW sanity, NEW profile, Gauged(sanity, profile)
    PROVE  /\ Unit(w, sanity, profile) = Unit(q, sanity, profile)
           /\ EstimatedSeconds(w, sanity, profile)[1] <= EstimatedSeconds(q, sanity, profile)[1]
           /\ SampleSeconds(w, profile) = SampleSeconds(q, profile)
           /\ ItemSeconds(w, sanity) = ItemSeconds(q, sanity)
<1>1. Unit(w, sanity, profile) = Unit(q, sanity, profile)
  BY SecondsAre DEF Unit
<1>2. SampleSeconds(w, profile) = SampleSeconds(q, profile) /\ ItemSeconds(w, sanity) = ItemSeconds(q, sanity)
  BY DEF SampleSeconds, ItemSeconds, PartOf, SamePrices
<1>3. PICK a \in Nat : a = SampleSeconds(q, profile)
  BY SecondsAre
<1>4. PICK b \in Nat : b = ItemSeconds(q, sanity)
  BY SecondsAre
<1>5. /\ EstimatedSeconds(q, sanity, profile)[1] = Weighed(q.pending_samples, q.pending_items, a, b)
      /\ EstimatedSeconds(w, sanity, profile)[1] = Weighed(w.pending_samples, w.pending_items, a, b)
  BY <1>2, <1>3, <1>4, SecondsAre
<1>6. /\ w.pending_samples \in Nat /\ w.pending_items \in Nat
      /\ q.pending_samples \in Nat /\ q.pending_items \in Nat
      /\ w.pending_samples <= q.pending_samples /\ w.pending_items <= q.pending_items
  BY DEF Costed, PartOf
<1>7. Weighed(w.pending_samples, w.pending_items, a, b) <= Weighed(q.pending_samples, q.pending_items, a, b)
  BY <1>6, WeighedMonotone
<1> QED BY <1>1, <1>2, <1>5, <1>7

\* and no more bytes
LEMMA PartBytes ==
    ASSUME NEW w, Costed(w), NEW q, Costed(q), PartOf(w, q),
           NEW sanity, NEW profile, Gauged(sanity, profile),
           ~EstimationError(w, sanity, profile), ~EstimationError(q, sanity, profile)
    PROVE  Remaining(w, sanity, profile) <= Remaining(q, sanity, profile)
<1>1. CASE NoPending(w)
  <2>1. Remaining(w, sanity, profile) = 0 /\ Remaining(q, sanity, profile) \in Nat
    BY <1>1, CostsAre DEF Remaining
  <2> QED BY <2>1
<1>2. CASE ~NoPending(w)
  <2>1. PICK n \in Nat : n = Classes(q, sanity, profile)
    BY <1>2, SameClasses
  <2>2. Classes(w, sanity, profile) = n /\ ~NoPending(q)
    BY <1>2, <2>1, SameClasses
  <2>3. /\ Remaining(w, sanity, profile) = DumpBytes(w.pending_samples, w.pending_items, n, q)
        /\ Remaining(q, sanity, profile) = DumpBytes(q.pending_samples, q.pending_items, n, q)
    BY <1>2, <2>1, <2>2, SameBytes DEF Remaining, PartOf
  <2>4. /\ w.pending_samples \in Nat /\ w.pending_items \in Nat
        /\ q.pending_samples \in Nat /\ q.pending_items \in Nat /\ AssumptionsOK(q)
        /\ w.pending_samples <= q.pending_samples /\ w.pending_items <= q.pending_items
    BY DEF Costed, PartOf
  <2>5. DumpBytes(w.pending_samples, w.pending_items, n, q)
          <= DumpBytes(q.pending_samples, q.pending_items, n, q)
    BY <2>4, DumpBytesMonotone
  <2> QED BY <2>3, <2>5
<1> QED BY <1>1, <1>2

\* less that is pending costs no more, of any kind
LEMMA PartCosts ==
    ASSUME NEW w, Costed(w), NEW q, Costed(q), PartOf(w, q),
           NEW sanity, NEW profile, Gauged(sanity, profile),
           ~EstimationError(w, sanity, profile), ~EstimationError(q, sanity, profile)
    PROVE  /\ \A kind \in Kinds : Costs(w, sanity, profile)[kind] <= Costs(q, sanity, profile)[kind]
           /\ Exceeded(w, sanity, profile) \subseteq Exceeded(q, sanity, profile)
<1>1. PICK u \in Nat : u = Unit(q, sanity, profile)
  BY CostsAre
<1>2. Unit(w, sanity, profile) = u
  BY <1>1, PartSeconds
<1>3. \A x, y, z \in Nat : x <= y => x * z <= y * z
  OBVIOUS
<1>4. Costs(w, sanity, profile)["pending_items"] <= Costs(q, sanity, profile)["pending_items"]
  <2>1. w.pending_items \in Nat /\ q.pending_items \in Nat /\ w.pending_items <= q.pending_items
    BY DEF Costed, PartOf
  <2>2. w.pending_items * u <= q.pending_items * u
    BY <1>3, <2>1
  <2> QED BY <1>1, <1>2, <2>2, CostsAre
<1>5. Costs(w, sanity, profile)["estimated_seconds"] <= Costs(q, sanity, profile)["estimated_seconds"]
  BY PartSeconds, CostsAre
<1>6. Costs(w, sanity, profile)["remaining_dump_bytes"] <= Costs(q, sanity, profile)["remaining_dump_bytes"]
  <2>1. PICK x \in Nat : x = Remaining(w, sanity, profile)
    BY CostsAre
  <2>2. PICK y \in Nat : y = Remaining(q, sanity, profile)
    BY CostsAre
  <2>3. x <= y
    BY <2>1, <2>2, PartBytes
  <2>4. x * u <= y * u
    BY <1>3, <2>3
  <2> QED BY <1>1, <1>2, <2>1, <2>2, <2>4, CostsAre
<1>7. \A kind \in Kinds : Costs(w, sanity, profile)[kind] <= Costs(q, sanity, profile)[kind]
  BY <1>4, <1>5, <1>6 DEF Kinds
<1>8. ASSUME NEW kind \in Exceeded(w, sanity, profile)
      PROVE  kind \in Exceeded(q, sanity, profile)
  <2>1. /\ kind \in Kinds /\ w.limits[kind] # Absence
        /\ Costs(w, sanity, profile)[kind] > w.limits[kind] * u
    BY <1>2, CostsAre DEF Exceeded, Exceedances
  <2>2. w.limits = q.limits
    BY DEF PartOf, SamePrices
  <2>3. PICK l \in Nat : l = q.limits[kind]
    BY <2>1, <2>2 DEF Costed, LimitsOK, Positive
  <2>4. PICK x \in Nat : x = Costs(w, sanity, profile)[kind]
    BY <2>1, CostsAre
  <2>5. PICK y \in Nat : y = Costs(q, sanity, profile)[kind]
    BY <2>1, CostsAre
  <2>6. PICK z \in Nat : z = l * u
    OBVIOUS
  <2>7. x <= y /\ x > z
    BY <1>7, <2>1, <2>2, <2>3, <2>4, <2>5, <2>6
  <2>8. y > z
    BY <2>7
  <2>9. q.limits[kind] # Absence /\ Costs(q, sanity, profile)[kind] > q.limits[kind] * u
    BY <2>1, <2>2, <2>3, <2>5, <2>6, <2>8
  <2> QED BY <1>1, <2>1, <2>9, CostsAre DEF Exceeded, Exceedances
<1> QED BY <1>7, <1>8

-----------------------------------------------------------------------------
(* The binding limit, and what it allows.                                  *)

\* of at most three things that are compared one comes first
LEMMA FirstOfThree ==
    ASSUME NEW x, NEW y, NEW z, NEW S, S \subseteq {x, y, z}, S # {}, NEW R,
           \A k, o \in S : <<k, o>> \in R \/ <<o, k>> \in R,
           \A k, o, m \in S : <<k, o>> \in R /\ <<o, m>> \in R => <<k, m>> \in R
    PROVE  \E k \in S : \A o \in S : <<k, o>> \in R
<1>1. ASSUME NEW k \in S, NEW o \in S, S \subseteq {k, o}
      PROVE  \E b \in S : \A c \in S : <<b, c>> \in R
  <2>1. <<k, k>> \in R /\ <<o, o>> \in R
    OBVIOUS
  <2>2. \A c \in S : c = k \/ c = o
    BY <1>1
  <2>3. CASE <<k, o>> \in R
    <3>1. \A c \in S : <<k, c>> \in R
      BY <2>1, <2>2, <2>3
    <3> QED BY <3>1
  <2>4. CASE <<o, k>> \in R
    <3>1. \A c \in S : <<o, c>> \in R
      BY <2>1, <2>2, <2>4
    <3> QED BY <3>1
  <2> QED BY <2>3, <2>4
<1>2. ASSUME NEW k \in S, NEW o \in S, NEW m \in S, S \subseteq {k, o, m}
      PROVE  \E b \in S : \A c \in S : <<b, c>> \in R
  <2>1. ASSUME NEW a \in S, NEW d \in S, NEW e \in S, S \subseteq {a, d, e},
               <<a, d>> \in R
        PROVE  \E b \in S : \A c \in S : <<b, c>> \in R
    <3>1. <<a, a>> \in R /\ <<e, e>> \in R
      OBVIOUS
    <3>2. \A c \in S : c = a \/ c = d \/ c = e
      BY <2>1
    <3>3. CASE <<a, e>> \in R
      <4>1. \A c \in S : <<a, c>> \in R
        BY <2>1, <3>1, <3>2, <3>3
      <4> QED BY <4>1
    <3>4. CASE <<e, a>> \in R
      <4>1. <<e, d>> \in R
        BY <2>1, <3>4
      <4>2. \A c \in S : <<e, c>> \in R
        BY <3>1, <3>2, <3>4, <4>1
      <4> QED BY <4>2
    <3> QED BY <3>3, <3>4
  <2>2. CASE <<k, o>> \in R
    BY <1>2, <2>1, <2>2
  <2>3. CASE <<o, k>> \in R
    <3>1. S \subseteq {o, k, m}
      BY <1>2
    <3> QED BY <2>1, <2>3, <3>1
  <2> QED BY <2>2, <2>3
<1>3. PICK k \in S : TRUE
  OBVIOUS
<1>4. \/ \E o \in S : S \subseteq {k, o}
      \/ \E o, m \in S : S \subseteq {k, o, m}
  <2>1. CASE x \in S /\ y \in S /\ z \in S
    <3>1. S \subseteq {k, x, y} \/ S \subseteq {k, x, z} \/ S \subseteq {k, y, z}
      OBVIOUS
    <3> QED BY <2>1, <3>1
  <2>2. CASE x \notin S
    <3>1. S \subseteq {k, y} \/ S \subseteq {k, z}
      BY <2>2
    <3> QED BY <1>3, <2>2, <3>1
  <2>3. CASE y \notin S
    <3>1. S \subseteq {k, x} \/ S \subseteq {k, z}
      BY <2>3
    <3> QED BY <1>3, <2>3, <3>1
  <2>4. CASE z \notin S
    <3>1. S \subseteq {k, x} \/ S \subseteq {k, y}
      BY <2>4
    <3> QED BY <1>3, <2>4, <3>1
  <2> QED BY <2>1, <2>2, <2>3, <2>4
<1>5. CASE \E o \in S : S \subseteq {k, o}
  <2>1. PICK o \in S : S \subseteq {k, o}
    BY <1>5
  <2> QED BY <1>1, <2>1
<1>6. CASE \E o, m \in S : S \subseteq {k, o, m}
  <2>1. PICK o \in S, m \in S : S \subseteq {k, o, m}
    BY <1>6
  <2> DEFINE within(a, d, e) == S \subseteq {a, d, e}
  <2> DEFINE first == \E b \in S : \A c \in S : <<b, c>> \in R
  <2>2. \A a, d, e \in S : within(a, d, e) => first
    BY <1>2
  <2>3. within(k, o, m)
    BY <2>1
  <2> HIDE DEF within, first
  <2>4. first
    BY <2>2, <2>3
  <2> QED BY <2>4 DEF first
<1> QED BY <1>4, <1>5, <1>6

\* what is exceeded costs more than its limit
LEMMA ExceededIs ==
    ASSUME NEW q, Costed(q), NEW sanity, NEW profile, Gauged(sanity, profile),
           ~EstimationError(q, sanity, profile), NEW kind \in Exceeded(q, sanity, profile)
    PROVE  /\ kind \in Kinds /\ q.limits[kind] \in Nat \ {0}
           /\ Costs(q, sanity, profile)[kind] \in Nat \ {0}
           /\ q.limits[kind] * Unit(q, sanity, profile) \in Nat
           /\ q.limits[kind] * Unit(q, sanity, profile) < Costs(q, sanity, profile)[kind]
<1>1. /\ kind \in Kinds /\ q.limits[kind] # Absence
      /\ Costs(q, sanity, profile)[kind] > q.limits[kind] * Unit(q, sanity, profile)
  BY CostsAre DEF Exceeded, Exceedances
<1>2. PICK l \in Nat \ {0} : l = q.limits[kind]
  BY <1>1 DEF Costed, LimitsOK, Positive
<1>3. PICK u \in Nat : u = Unit(q, sanity, profile)
  BY CostsAre
<1>4. PICK c \in Nat : c = Costs(q, sanity, profile)[kind]
  BY <1>1, CostsAre
<1>5. PICK b \in Nat : b = l * u
  OBVIOUS
<1>6. b < c
  BY <1>1, <1>2, <1>3, <1>4, <1>5
<1>7. c # 0
  BY <1>6
<1> QED BY <1>1, <1>2, <1>3, <1>4, <1>5, <1>6, <1>7

\* the binding limit allows no larger a fraction than any other
LEMMA BinderIs ==
    ASSUME NEW q, Costed(q), NEW sanity, NEW profile, Gauged(sanity, profile),
           ~EstimationError(q, sanity, profile), Exceeded(q, sanity, profile) # {}
    PROVE  LET kind == Binder(q, sanity, profile) IN
           /\ kind \in Exceeded(q, sanity, profile)
           /\ \A other \in Exceeded(q, sanity, profile) :
                q.limits[kind] * Costs(q, sanity, profile)[other]
                  <= q.limits[other] * Costs(q, sanity, profile)[kind]
<1> DEFINE S == Exceeded(q, sanity, profile)
<1> DEFINE l(k) == q.limits[k]
<1> DEFINE c(k) == Costs(q, sanity, profile)[k]
<1> DEFINE R == {ko \in S \X S : l(ko[1]) * c(ko[2]) <= l(ko[2]) * c(ko[1])}
<1>1. \A k \in S : k \in Kinds /\ l(k) \in Nat \ {0} /\ c(k) \in Nat \ {0}
  BY ExceededIs
<1>2. S \subseteq {"pending_items", "estimated_seconds", "remaining_dump_bytes"}
  BY <1>1 DEF Kinds
<1>3. \A k, o \in S : <<k, o>> \in R <=> l(k) * c(o) <= l(o) * c(k)
  OBVIOUS
<1> HIDE DEF S, l, c, R
<1>4. ASSUME NEW k \in S, NEW o \in S
      PROVE  <<k, o>> \in R \/ <<o, k>> \in R
  <2>1. PICK x \in Nat : x = l(k) * c(o)
    BY <1>1
  <2>2. PICK y \in Nat : y = l(o) * c(k)
    BY <1>1
  <2>3. x <= y \/ y <= x
    OBVIOUS
  <2> QED BY <1>3, <2>1, <2>2, <2>3
<1>5. ASSUME NEW k \in S, NEW o \in S, NEW m \in S, <<k, o>> \in R, <<o, m>> \in R
      PROVE  <<k, m>> \in R
  <2>1. l(k) * c(o) <= l(o) * c(k) /\ l(o) * c(m) <= l(m) * c(o)
    BY <1>3, <1>5
  <2>2. l(k) \in Nat /\ l(o) \in Nat /\ l(m) \in Nat
    BY <1>1
  <2>3. c(k) \in Nat \ {0} /\ c(o) \in Nat \ {0} /\ c(m) \in Nat \ {0}
    BY <1>1
  <2>4. l(k) * c(m) <= l(m) * c(k)
    BY <2>1, <2>2, <2>3, CrosswiseTransitive
  <2> QED BY <1>3, <2>4
<1>6. \E k \in S : \A o \in S : <<k, o>> \in R
  <2>1. S # {}
    BY DEF S
  <2> QED BY <1>2, <1>4, <1>5, <2>1, FirstOfThree
<1>7. \E k \in S : \A o \in S : l(k) * c(o) <= l(o) * c(k)
  BY <1>3, <1>6
<1>8. Binder(q, sanity, profile) = CHOOSE k \in S : \A o \in S : l(k) * c(o) <= l(o) * c(k)
  BY Zenon DEF Binder, Binding, S, l, c
<1>9. LET k == Binder(q, sanity, profile) IN k \in S /\ \A o \in S : l(k) * c(o) <= l(o) * c(k)
  BY <1>7, <1>8
<1> QED BY <1>9 DEF S, l, c

\* a proportion l * u / e of what exceeds a limit k more than e exceeds l
LEMMA ItemsFit ==
    ASSUME NEW i \in Nat, NEW n \in Nat, NEW l \in Nat, NEW u \in Nat, NEW k \in Nat,
           NEW e \in Nat \ {0}, i * e <= n * (l * u), l * (n * u) <= k * e
    PROVE  i * u <= k * u
<1>1. n * (l * u) = l * (n * u)
  OBVIOUS
<1>2. l * (n * u) \in Nat /\ i * e \in Nat /\ k * e \in Nat
  OBVIOUS
<1> PICK x \in Nat : x = l * (n * u)
  BY <1>2
<1> PICK y \in Nat : y = i * e
  BY <1>2
<1> PICK z \in Nat : z = k * e
  BY <1>2
<1>3. y <= x /\ x <= z
  BY <1>1
<1>4. y <= z
  BY <1>3
<1>5. \A a, b \in Nat, c \in Nat \ {0} : a * c <= b * c => a <= b
  OBVIOUS
<1>6. i <= k
  BY <1>4, <1>5
<1>7. \A a, b, c \in Nat : a <= b => a * c <= b * c
  OBVIOUS
<1> QED BY <1>6, <1>7

\* a cost that shrinks in that proportion no longer exceeds its limit
LEMMA SecondsFit ==
    ASSUME NEW x \in Nat, NEW y \in Nat, NEW l \in Nat, NEW u \in Nat, NEW k \in Nat,
           NEW e \in Nat \ {0}, x * e <= y * (l * u), l * y <= k * e
    PROVE  x <= k * u
<1>1. y * (l * u) = (l * y) * u /\ (k * e) * u = (k * u) * e
  <2>1. \A a, b, c \in Nat : a * (b * c) = (b * a) * c /\ (a * b) * c = (a * c) * b
    OBVIOUS
  <2> QED BY <2>1
<1>2. (l * y) * u <= (k * e) * u
  <2>1. \A a, b, c \in Nat : a <= b => a * c <= b * c
    OBVIOUS
  <2>2. l * y \in Nat /\ k * e \in Nat
    OBVIOUS
  <2> QED BY <2>1, <2>2
<1>3. x * e \in Nat /\ (l * y) * u \in Nat /\ (k * u) * e \in Nat
  OBVIOUS
<1> PICK a \in Nat : a = x * e
  BY <1>3
<1> PICK b \in Nat : b = (l * y) * u
  BY <1>3
<1> PICK c \in Nat : c = (k * u) * e
  BY <1>3
<1>4. a <= b /\ b <= c
  BY <1>1, <1>2
<1>5. a <= c
  BY <1>4
<1>6. \A i, j \in Nat, m \in Nat \ {0} : i * m <= j * m => i <= j
  OBVIOUS
<1>7. k * u \in Nat
  OBVIOUS
<1> QED BY <1>5, <1>6, <1>7

\* nor do the bytes, which are rounded up after compression
LEMMA BytesFit ==
    ASSUME NEW x \in Nat, NEW y \in Nat, NEW bytes \in Nat, NEW l \in Nat, NEW u \in Nat,
           NEW k \in Nat, NEW e \in Nat \ {0},
           x * e <= y * (l * u), y <= 100 * bytes, l * (bytes * u) <= k * e
    PROVE  x <= 100 * k
<1>1. y * (l * u) <= (100 * bytes) * (l * u)
  <2>1. \A a, b, c \in Nat : a <= b => a * c <= b * c
    OBVIOUS
  <2>2. l * u \in Nat /\ 100 * bytes \in Nat
    OBVIOUS
  <2> QED BY <2>1, <2>2
<1>2. (100 * bytes) * (l * u) = 100 * (l * (bytes * u))
  <2>1. \A a, b, c, d \in Nat : (a * b) * (c * d) = a * (c * (b * d))
    OBVIOUS
  <2> QED BY <2>1
<1>3. (100 * k) * e = 100 * (k * e)
  OBVIOUS
<1>4. /\ x * e \in Nat /\ y * (l * u) \in Nat /\ (100 * bytes) * (l * u) \in Nat
      /\ l * (bytes * u) \in Nat /\ k * e \in Nat
  OBVIOUS
<1> PICK a \in Nat : a = x * e
  BY <1>4
<1> PICK b \in Nat : b = y * (l * u)
  BY <1>4
<1> PICK c \in Nat : c = l * (bytes * u)
  BY <1>4
<1> PICK d \in Nat : d = k * e
  BY <1>4
<1>5. a <= b /\ b <= 100 * c /\ c <= d
  BY <1>1, <1>2
<1>6. a <= 100 * d
  BY <1>5
<1>7. x * e <= (100 * k) * e
  BY <1>3, <1>6
<1>8. \A i, j \in Nat, m \in Nat \ {0} : i * m <= j * m => i <= j
  OBVIOUS
<1>9. 100 * k \in Nat
  OBVIOUS
<1> QED BY <1>7, <1>8, <1>9

\* w is the proportion of q that the limit of kind allows
Allowed(q, kind, sanity, profile) == q.limits[kind] * Unit(q, sanity, profile)
Kept(n, q, kind, sanity, profile) ==
    (n * Allowed(q, kind, sanity, profile)) \div Costs(q, sanity, profile)[kind]
Reduced(w, q, kind, sanity, profile) ==
    /\ SamePrices(w, q)
    /\ w.pending_samples = Kept(q.pending_samples, q, kind, sanity, profile)
    /\ w.pending_items = Kept(q.pending_items, q, kind, sanity, profile)

\* what the binding limit keeps of a number of things
LEMMA KeptIs ==
    ASSUME NEW q, Costed(q), NEW sanity, NEW profile, Gauged(sanity, profile),
           ~EstimationError(q, sanity, profile), NEW kind \in Exceeded(q, sanity, profile),
           NEW n \in Nat
    PROVE  LET kept == Kept(n, q, kind, sanity, profile) IN
           /\ kept \in Nat /\ kept <= n
           /\ kept * Costs(q, sanity, profile)[kind] <= n * Allowed(q, kind, sanity, profile)
<1> PICK l \in Nat : l = Allowed(q, kind, sanity, profile)
  BY ExceededIs DEF Allowed
<1> PICK e \in Nat \ {0} : e = Costs(q, sanity, profile)[kind]
  BY ExceededIs
<1>1. l < e
  BY ExceededIs DEF Allowed
<1>2. Kept(n, q, kind, sanity, profile) = (n * l) \div e
  BY DEF Kept
<1> QED BY <1>1, <1>2, Proportion

\* what it keeps of the samples and items is a part of the work
LEMMA ReducedIs ==
    ASSUME NEW q, Costed(q), NEW sanity, NEW profile, Gauged(sanity, profile),
           ~EstimationError(q, sanity, profile), NEW kind \in Exceeded(q, sanity, profile),
           NEW w, Reduced(w, q, kind, sanity, profile)
    PROVE  /\ Costed(w) /\ PartOf(w, q)
           /\ w.pending_samples * Costs(q, sanity, profile)[kind]
                <= q.pending_samples * Allowed(q, kind, sanity, profile)
           /\ w.pending_items * Costs(q, sanity, profile)[kind]
                <= q.pending_items * Allowed(q, kind, sanity, profile)
<1>1. q.pending_samples \in Nat /\ q.pending_items \in Nat
  BY DEF Costed
<1>2. /\ w.pending_samples \in Nat /\ w.pending_samples <= q.pending_samples
      /\ w.pending_samples * Costs(q, sanity, profile)[kind]
           <= q.pending_samples * Allowed(q, kind, sanity, profile)
  BY <1>1, KeptIs DEF Reduced
<1>3. /\ w.pending_items \in Nat /\ w.pending_items <= q.pending_items
      /\ w.pending_items * Costs(q, sanity, profile)[kind]
           <= q.pending_items * Allowed(q, kind, sanity, profile)
  BY <1>1, KeptIs DEF Reduced
<1>4. Costed(w)
  BY <1>2, <1>3 DEF Reduced, SamePrices, Costed, AssumptionsOK
<1>5. PartOf(w, q)
  BY <1>2, <1>3 DEF Reduced, PartOf
<1> QED BY <1>2, <1>3, <1>4, <1>5

\* the three costs of what the binding limit allows
LEMMA ReducedFits ==
    ASSUME NEW q, Costed(q), NEW sanity, NEW profile, Gauged(sanity, profile),
           ~EstimationError(q, sanity, profile), Exceeded(q, sanity, profile) # {},
           NEW w, Reduced(w, q, Binder(q, sanity, profile), sanity, profile),
           ~EstimationError(w, sanity, profile)
    PROVE  Exceeded(w, sanity, profile) = {}
<1> SUFFICES ASSUME NEW other \in Exceeded(w, sanity, profile) PROVE FALSE
  OBVIOUS
<1> PICK kind : kind = Binder(q, sanity, profile)
  OBVIOUS
<1>1. /\ kind \in Exceeded(q, sanity, profile)
      /\ \A o \in Exceeded(q, sanity, profile) :
           q.limits[kind] * Costs(q, sanity, profile)[o] <= q.limits[o] * Costs(q, sanity, profile)[kind]
  BY BinderIs
<1>2. Reduced(w, q, kind, sanity, profile)
  OBVIOUS
<1>3. /\ Costed(w) /\ PartOf(w, q)
      /\ w.pending_samples * Costs(q, sanity, profile)[kind]
           <= q.pending_samples * Allowed(q, kind, sanity, profile)
      /\ w.pending_items * Costs(q, sanity, profile)[kind]
           <= q.pending_items * Allowed(q, kind, sanity, profile)
  BY <1>1, <1>2, ReducedIs
<1>4. other \in Exceeded(q, sanity, profile)
  BY <1>3, PartCosts
<1> PICK u \in Nat : u = Unit(q, sanity, profile)
  BY CostsAre
<1> PICK l \in Nat : l = q.limits[kind]
  BY <1>1, ExceededIs
<1> PICK e \in Nat \ {0} : e = Costs(q, sanity, profile)[kind]
  BY <1>1, ExceededIs
<1> PICK k \in Nat : k = q.limits[other]
  BY <1>4, ExceededIs
<1> PICK c \in Nat : c = Costs(q, sanity, profile)[other]
  BY <1>4, ExceededIs
<1> PICK d \in Nat : d = Costs(w, sanity, profile)[other]
  BY <1>3, ExceededIs
<1>5. l * c <= k * e
  BY <1>1, <1>4
<1>6. Unit(w, sanity, profile) = u /\ w.limits[other] = k
  BY <1>3, PartSeconds DEF PartOf, SamePrices
<1>7. d > k * u
  BY <1>3, <1>6, ExceededIs
<1> PICK n \in Nat : n = q.pending_samples
  BY DEF Costed
<1> PICK m \in Nat : m = q.pending_items
  BY DEF Costed
<1> PICK i \in Nat : i = w.pending_samples
  BY <1>3 DEF Costed
<1> PICK j \in Nat : j = w.pending_items
  BY <1>3 DEF Costed
<1>8. i * e <= n * (l * u) /\ j * e <= m * (l * u)
  BY <1>3 DEF Allowed
<1>9. l * u \in Nat
  OBVIOUS
<1>10. d <= k * u
  <2>1. CASE other = "pending_items"
    <3>1. c = m * u /\ d = j * u
      BY <1>3, <1>6, <2>1, CostsAre
    <3>2. l * (m * u) <= k * e
      BY <1>5, <3>1
    <3>3. j * u <= k * u
      BY <1>8, <3>2, ItemsFit
    <3> QED BY <3>1, <3>3
  <2>2. CASE other = "estimated_seconds"
    <3>1. c = EstimatedSeconds(q, sanity, profile)[1] /\ d = EstimatedSeconds(w, sanity, profile)[1]
      BY <1>3, <2>2, CostsAre
    <3> PICK a \in Nat : a = SampleSeconds(q, profile)
      BY SecondsAre
    <3> PICK b \in Nat : b = ItemSeconds(q, sanity)
      BY SecondsAre
    <3>2. SampleSeconds(w, profile) = a /\ ItemSeconds(w, sanity) = b
      BY <1>3, PartSeconds
    <3>3. c = Weighed(n, m, a, b) /\ d = Weighed(i, j, a, b)
      BY <1>3, <3>1, <3>2, SecondsAre
    <3>4. Weighed(i, j, a, b) * e <= Weighed(n, m, a, b) * (l * u)
      BY <1>8, <1>9, WeighedPart
    <3>5. d * e <= c * (l * u)
      BY <3>3, <3>4
    <3> QED BY <1>5, <3>5, SecondsFit
  <2>3. CASE other = "remaining_dump_bytes"
    <3> PICK x \in Nat : x = Remaining(w, sanity, profile)
      BY <1>3, CostsAre
    <3> PICK y \in Nat : y = Remaining(q, sanity, profile)
      BY CostsAre
    <3>1. c = y * u /\ d = x * u
      BY <1>3, <1>6, <2>3, CostsAre
    <3>2. x <= k
      <4>1. CASE NoPending(w)
        <5>1. x = 0
          BY <4>1 DEF Remaining
        <5> QED BY <5>1
      <4>2. CASE ~NoPending(w)
        <5>1. PICK classes \in Nat : classes = Classes(q, sanity, profile)
          BY <1>3, <4>2, SameClasses
        <5>2. Classes(w, sanity, profile) = classes /\ ~NoPending(q)
          BY <1>3, <4>2, <5>1, SameClasses
        <5>3. x = DumpBytes(i, j, classes, q) /\ y = DumpBytes(n, m, classes, q)
          BY <1>3, <4>2, <5>1, <5>2, SameBytes DEF Remaining, PartOf
        <5>4. AssumptionsOK(q)
          BY DEF Costed
        <5> PICK a \in Nat : a = SampleBytes(q, classes)
          BY <5>4, DumpBytesIs
        <5> PICK b \in Nat : b = ItemBytes(q, classes)
          BY <5>4, DumpBytesIs
        <5> PICK v \in Nat : v = Weighed(i, j, a, b)
          BY WeighedIs
        <5> PICK z \in Nat : z = Weighed(n, m, a, b)
          BY WeighedIs
        <5>5. x = Ceiling(v, 100) /\ y = Ceiling(z, 100)
          BY <5>3, <5>4, DumpBytesIs
        <5>6. v * e <= z * (l * u)
          BY <1>8, <1>9, WeighedPart
        <5>7. z <= 100 * y
          <6>1. 100 \in Nat \ {0}
            OBVIOUS
          <6> QED BY <5>5, <6>1, CeilingIs
        <5>8. l * (y * u) <= k * e
          BY <1>5, <3>1
        <5>9. v <= 100 * k
          BY <5>6, <5>7, <5>8, BytesFit
        <5> QED
          <6>1. 100 \in Nat \ {0}
            OBVIOUS
          <6>2. \A r \in Nat : v <= 100 * r => Ceiling(v, 100) <= r
            BY <6>1, CeilingIs
          <6> QED BY <5>5, <5>9, <6>2
      <4> QED BY <4>1, <4>2
    <3>3. \A a, b, z \in Nat : a <= b => a * z <= b * z
      OBVIOUS
    <3> QED BY <3>1, <3>2, <3>3
  <2>4. other \in Kinds
    BY <1>4, ExceededIs
  <2> QED BY <2>1, <2>2, <2>3, <2>4 DEF Kinds
<1>11. k * u \in Nat
  OBVIOUS
<1> QED BY <1>7, <1>10, <1>11

-----------------------------------------------------------------------------
(* The measurements at the end.                                            *)

\* terms that are at most b have a sum that is at most b for each
LEMMA SumBounded ==
    ASSUME NEW S, IsFiniteSet(S), NEW b \in Nat, NEW f, \A x \in S : f[x] \in Nat /\ f[x] <= b
    PROVE  SumFunctionOnSet(f, S) <= b * Cardinality(S)
<1>1. PICK g : Sums(f, g, S) /\ SumFunctionOnSet(f, S) = g[S]
  BY FoldOnSetIsSum
<1> DEFINE d == [x \in S |-> b - f[x]]
<1>2. \A x \in S : d[x] = b - f[x] /\ d[x] \in Nat /\ f[x] + d[x] = b
  OBVIOUS
<1> HIDE DEF d
<1>3. PICK e : Sums(d, e, S)
  BY SumExists
<1>4. g[S] \in Nat /\ e[S] \in Nat /\ g[S] + e[S] = b * Cardinality(S)
  BY <1>1, <1>2, <1>3, SumsAddUp
<1>5. \A i, j, k : i \in Nat /\ j \in Nat /\ i + j = k => i <= k
  OBVIOUS
<1> QED BY <1>1, <1>4, <1>5

\* the largest of finitely many numbers
LEMMA MaxIs ==
    ASSUME NEW S, IsFiniteSet(S), S \subseteq Nat, S # {}
    PROVE  Max(S) \in S /\ \A x \in S : x <= Max(S)
<1> DEFINE f == [x \in S |-> x]
<1> DEFINE bounds == {b \in Nat : \A x \in S : x <= b}
<1>1. \A x \in S : f[x] = x /\ f[x] \in Nat
  OBVIOUS
<1> HIDE DEF f
<1>2. SumFunctionOnSet(f, S) \in bounds
  BY <1>1, SumOfNats
<1>3. PICK b \in bounds : \A c \in bounds : b <= c
  <2>1. bounds \subseteq Nat /\ bounds # {}
    BY <1>2
  <2> HIDE DEF bounds
  <2> QED BY <2>1, NatLeast
<1>4. b \in Nat /\ \A x \in S : x <= b
  OBVIOUS
<1>5. b \in S
  <2> SUFFICES ASSUME b \notin S PROVE FALSE
    OBVIOUS
  <2>1. \A x \in S : x \in Nat /\ x < b
    BY <1>4
  <2>2. b - 1 \in Nat /\ \A x \in S : x <= b - 1
    <3>1. \A x \in S : x <= b - 1
      BY <1>4, <2>1
    <3>2. PICK x \in S : TRUE
      OBVIOUS
    <3>3. x \in Nat /\ x < b
      BY <2>1
    <3> QED BY <1>4, <3>1, <3>3
  <2>3. b - 1 \in bounds
    BY <2>2
  <2> HIDE DEF bounds
  <2>4. b <= b - 1
    BY <1>3, <2>3
  <2> QED BY <1>4, <2>4
<1>6. \E x \in S : \A y \in S : x >= y
  BY <1>4, <1>5
<1>7. Max(S) \in S /\ \A y \in S : Max(S) >= y
  BY <1>6 DEF Max
<1> QED BY <1>7

\* the larger of 1 and a number
LEMMA LargerOf ==
    ASSUME NEW n \in Nat
    PROVE  Max({1, n}) \in Nat \ {0} /\ Max({1, n}) \in {1, n} /\ 1 <= Max({1, n}) /\ n <= Max({1, n})
<1>1. IsFiniteSet({1, n})
  <2>1. IsFiniteSet({1}) /\ IsFiniteSet({1} \cup {n})
    BY FS_Singleton, FS_AddElement
  <2>2. {1, n} = {1} \cup {n}
    OBVIOUS
  <2> QED BY <2>1, <2>2
<1> PICK m : m = Max({1, n})
  OBVIOUS
<1>2. m \in {1, n} /\ \A x \in {1, n} : x <= m
  <2>1. {1, n} \subseteq Nat /\ {1, n} # {}
    OBVIOUS
  <2> QED BY <1>1, <2>1, MaxIs
<1>3. m \in Nat /\ 1 <= m /\ n <= m
  BY <1>2
<1> QED BY <1>2, <1>3

\* the items of a chunk that were prepared, and their bytes
LEMMA PreparedOfChunk ==
    ASSUME NEW later \in BOOLEAN, NEW c \in Elements(Chunks)
    PROVE  LET S == PreparedItems(c, later) IN
           /\ S \subseteq Perturbed /\ IsFiniteSet(S)
           /\ Cardinality(S) \in Nat /\ Cardinality(S) <= Len(c) /\ Len(c) \in Nat
           /\ \A w \in S : Bytes[w] \in Nat
           /\ ChunkBytes(S) \in Nat
<1> DEFINE S == PreparedItems(c, later)
<1>1. S \subseteq Elements(c)
  BY DEF PreparedItems
<1>2. Elements(c) \subseteq Perturbed
  BY DEF Perturbed
<1>3. c \in Seq(Perturbed)
  BY PlanTypes DEF Elements
<1>4. Len(c) \in Nat /\ IsFiniteSet(1..Len(c)) /\ Cardinality(1..Len(c)) = Len(c)
  <2>1. Len(c) \in Nat
    BY <1>3, LenProperties
  <2>2. \A n \in Nat : IsFiniteSet(1..n) /\ Cardinality(1..n) = IF 1 > n THEN 0 ELSE n - 1 + 1
    BY FS_Interval
  <2> QED BY <2>1, <2>2
<1> DEFINE f == [k \in 1..Len(c) |-> c[k]]
<1>5. f \in Surjection(1..Len(c), Elements(c))
  BY DEF Surjection, Elements
<1> HIDE DEF f
<1>6. IsFiniteSet(Elements(c)) /\ Cardinality(Elements(c)) <= Len(c)
  BY <1>4, <1>5, FS_Surjection
<1> HIDE DEF S
<1>7. IsFiniteSet(S) /\ Cardinality(S) <= Cardinality(Elements(c)) /\ Cardinality(S) \in Nat
      /\ Cardinality(Elements(c)) \in Nat
  BY <1>1, <1>6, FS_Subset, FS_CardinalityType
<1>8. Cardinality(S) <= Len(c)
  BY <1>4, <1>6, <1>7
<1>9. \A w \in S : Bytes[w] \in Nat
  BY <1>1, <1>2, EstimateAssumption
<1>10. ChunkBytes(S) \in Nat
  BY <1>7, <1>9, SumOfNats DEF ChunkBytes
<1> QED BY <1>1, <1>2, <1>4, <1>7, <1>8, <1>9, <1>10 DEF S

\* what the profile measures: the largest chunk is no larger than the largest
\* item, for each item that a chunk may have
LEMMA ProfileIs ==
    ASSUME NEW later \in BOOLEAN, NEW variants \in Nat,
           \A c \in Elements(Chunks) : Len(c) <= variants
    PROVE  LET profile == Profile(later) IN
           /\ profile.max_chunk \in Nat /\ profile.max_item \in Nat
           /\ profile.max_chunk <= profile.max_item * variants
<1> DEFINE prepared == {PreparedItems(c, later) : c \in Elements(Chunks)}
<1> DEFINE chunks == {ChunkBytes(S) : S \in prepared}
<1> DEFINE items == {0} \cup {Bytes[w] : w \in UNION prepared}
<1>0. IsFiniteSet(Elements(Chunks)) /\ Elements(Chunks) # {}
  <2>1. Len(Chunks) \in Nat
    BY PlanTypes, LenProperties
  <2>2. IsFiniteSet(1..Len(Chunks))
    BY <2>1, FS_Interval
  <2> DEFINE f == [k \in 1..Len(Chunks) |-> Chunks[k]]
  <2>3. {f[k] : k \in 1..Len(Chunks)} = Elements(Chunks) /\ DOMAIN f = 1..Len(Chunks)
    BY DEF Elements
  <2> HIDE DEF f
  <2>4. IsFiniteSet(Elements(Chunks))
    BY <2>2, <2>3, ImageIsFinite
  <2>5. Elements(Chunks) # {}
    BY EstimateAssumption DEF Perturbed
  <2> QED BY <2>4, <2>5
<1>1. IsFiniteSet(prepared) /\ prepared # {}
  <2> DEFINE C == Elements(Chunks)
  <2> DEFINE f == [c \in C |-> PreparedItems(c, later)]
  <2>1. {f[c] : c \in C} = prepared /\ DOMAIN f = C
    OBVIOUS
  <2> HIDE DEF f
  <2>2. IsFiniteSet(C) /\ C # {}
    BY <1>0
  <2> HIDE DEF C
  <2>3. IsFiniteSet({f[c] : c \in C})
    BY <2>1, <2>2, ImageIsFinite
  <2> QED BY <2>1, <2>2, <2>3
<1>2. IsFiniteSet(chunks) /\ chunks # {}
  <2> DEFINE f == [S \in prepared |-> ChunkBytes(S)]
  <2>1. {f[S] : S \in prepared} = chunks /\ DOMAIN f = prepared
    OBVIOUS
  <2> HIDE DEF f, prepared
  <2>2. IsFiniteSet({f[S] : S \in prepared})
    BY <1>1, <2>1, ImageIsFinite
  <2> QED BY <1>1, <2>1, <2>2
<1>3. chunks \subseteq Nat
  BY PreparedOfChunk
<1>4. UNION prepared \subseteq Perturbed
  BY PreparedOfChunk
<1>5. IsFiniteSet(items) /\ items \subseteq Nat /\ items # {}
  <2> DEFINE U == UNION prepared
  <2>1. IsFiniteSet(U) /\ \A w \in U : Bytes[w] \in Nat
    <3> HIDE DEF prepared
    <3> QED BY <1>4, WorkIsFinite, FS_Subset, EstimateAssumption
  <2> DEFINE f == [w \in U |-> Bytes[w]]
  <2> HIDE DEF U
  <2>2. {f[w] : w \in U} = {Bytes[w] : w \in U} /\ DOMAIN f = U
    OBVIOUS
  <2> HIDE DEF f
  <2>3. IsFiniteSet({Bytes[w] : w \in U})
    <3>1. IsFiniteSet({f[w] : w \in U})
      BY <2>1, <2>2, ImageIsFinite
    <3> QED BY <2>2, <3>1
  <2>4. IsFiniteSet({0})
    BY FS_Singleton
  <2>5. IsFiniteSet({0} \cup {Bytes[w] : w \in U})
    BY <2>3, <2>4, FS_Union
  <2> QED BY <2>1, <2>5 DEF U
<1>6. Profile(later).max_chunk = Max(chunks) /\ Profile(later).max_item = Max(items)
  BY DEF Profile
<1>7. PICK most \in Nat : most = Max(items) /\ \A x \in items : x <= most
  <2> HIDE DEF items
  <2> QED BY <1>5, MaxIs
<1>8. Max(chunks) \in chunks
  <2> HIDE DEF chunks
  <2> QED BY <1>2, <1>3, MaxIs
<1>9. PICK c \in Elements(Chunks) : Max(chunks) = ChunkBytes(PreparedItems(c, later))
  BY <1>8
<1> DEFINE S == PreparedItems(c, later)
<1>10. IsFiniteSet(S) /\ Cardinality(S) \in Nat /\ Cardinality(S) <= variants
  BY PreparedOfChunk
<1>11. \A w \in S : Bytes[w] \in Nat /\ Bytes[w] <= most
  <2>1. \A w \in S : Bytes[w] \in items
    OBVIOUS
  <2> HIDE DEF items, S
  <2> QED BY <1>5, <1>7, <2>1
<1> HIDE DEF S
<1>12. ChunkBytes(S) <= most * Cardinality(S)
  BY <1>10, <1>11, SumBounded DEF ChunkBytes
<1>13. ChunkBytes(S) \in Nat
  BY PreparedOfChunk DEF S
<1>14. ChunkBytes(S) <= most * variants
  <2> PICK n \in Nat : n = Cardinality(S)
    BY <1>10
  <2>1. \A a, b, z \in Nat : a <= b => z * a <= z * b
    OBVIOUS
  <2>2. most * n <= most * variants
    BY <1>10, <2>1
  <2> PICK x \in Nat : x = most * n
    OBVIOUS
  <2> PICK y \in Nat : y = most * variants
    OBVIOUS
  <2> PICK z \in Nat : z = ChunkBytes(S)
    BY <1>13
  <2>3. z <= x /\ x <= y
    BY <1>12, <2>2
  <2>4. z <= y
    BY <2>3
  <2> QED BY <2>4
<1> QED BY <1>6, <1>7, <1>9, <1>13, <1>14 DEF S

\* work of either phase is finite, and there is some
LEMMA WorkCounted ==
    ASSUME NEW W \in {Clean, Perturbed}, NEW V, V \subseteq W
    PROVE  /\ IsFiniteSet(V) /\ Cardinality(V) \in Nat
           /\ Cardinality(W) \in Nat \ {0}
<1>1. IsFiniteSet(W) /\ W # {}
  BY WorkIsFinite, EstimateAssumption
<1>2. IsFiniteSet(V)
  BY <1>1, FS_Subset
<1>3. Cardinality(W) \in Nat /\ Cardinality(W) # 0
  BY <1>1, FS_EmptySet, FS_CardinalityType
<1> QED BY <1>2, <1>3, FS_CardinalityType

\* the widths of some of the outputs
LEMMA WidthsOf ==
    ASSUME NEW W \in {Clean, Perturbed}, NEW V, V \subseteq W
    PROVE  {Width[w] : w \in V} \subseteq Nat /\ IsFiniteSet({Width[w] : w \in V})
<1>1. IsFiniteSet(V) /\ V \subseteq Work
  BY WorkCounted DEF Work
<1>2. \A w \in V : Width[w] \in Nat
  BY <1>1, EstimateAssumption
<1> DEFINE f == [w \in V |-> Width[w]]
<1>3. {f[w] : w \in V} = {Width[w] : w \in V} /\ DOMAIN f = V
  OBVIOUS
<1> HIDE DEF f
<1>4. IsFiniteSet({f[w] : w \in V})
  BY <1>1, <1>3, ImageIsFinite
<1> QED BY <1>2, <1>3, <1>4

\* what the sanity pass measures is a number for each field
LEMMA SanityIs ==
    ASSUME NEW p
    PROVE  /\ Sanity(p) \in SanityResults
           /\ Positive(Sanity(p).terminal)
           /\ Sanity(p).widths \subseteq Nat /\ IsFiniteSet(Sanity(p).widths)
<1> DEFINE valid == {s \in Answered(Clean) : Verdict[s] # "invalid_logits"}
<1> DEFINE given(v) == {s \in valid : Verdict[s] \in v}
<1> DEFINE result == Sanity(p)
<1>1. Answered(Clean) \subseteq Clean /\ valid \subseteq Clean /\ Answered(Clean) \ valid \subseteq Clean
      /\ \A v : given(v) \subseteq Clean
  BY DEF Answered
<1>2. /\ Cardinality(Clean) \in Nat \ {0}
      /\ Cardinality(valid) \in Nat /\ Cardinality(Answered(Clean) \ valid) \in Nat
      /\ \A v : Cardinality(given(v)) \in Nat
  BY <1>1, WorkCounted
<1>3. {Width[s] : s \in valid} \subseteq Nat /\ IsFiniteSet({Width[s] : s \in valid})
  BY <1>1, WidthsOf
<1>4. StatusCounts(Clean) \in [Statuses -> Nat]
  <2>1. \A s : {w \in Clean : record[w] = s} \subseteq Clean
    OBVIOUS
  <2>2. \A s : Cardinality({w \in Clean : record[w] = s}) \in Nat
    BY <2>1, WorkCounted
  <2> QED BY <2>2 DEF StatusCounts
<1> DEFINE w == {Width[s] : s \in valid}
<1> DEFINE ok == IF p.minimum_accuracy = Absence THEN "unchecked"
                 ELSE IF Cardinality(given({"correct", "wrong"})) > 0
                         /\ 100 * Cardinality(given({"correct"}))
                              >= p.minimum_accuracy * Cardinality(given({"correct", "wrong"}))
                 THEN "yes" ELSE "no"
<1>5. result =
        [terminal |-> Cardinality(Clean), widths |-> w,
         status_counts |-> StatusCounts(Clean), successful |-> Cardinality(valid),
         labeled |-> Cardinality(given({"correct", "wrong"})),
         correct |-> Cardinality(given({"correct"})),
         unlabeled |-> Cardinality(given({"unlabeled"})),
         invalid_label |-> Cardinality(given({"invalid_label"})),
         invalid_logits |-> Cardinality(Answered(Clean) \ valid), passed |-> ok]
  BY Zenon DEF Sanity
<1>6. ok \in Outcomes
  BY DEF Outcomes
<1>7. w \subseteq Nat /\ IsFiniteSet(w)
  BY <1>3
<1> HIDE DEF valid, given, w, ok, result
<1>8. result \in SanityResults
  BY <1>2, <1>4, <1>5, <1>6, <1>7 DEF SanityResults
<1>9. result.terminal = Cardinality(Clean) /\ result.widths = w
  BY <1>5
<1> QED BY <1>2, <1>7, <1>8, <1>9 DEF result, Positive

\* so is what the profiling pass measures
LEMMA ProfileTypes ==
    ASSUME NEW p \in Situations, NEW later \in BOOLEAN
    PROVE  /\ Profile(later) \in ProfileResults
           /\ Positive(Profile(later).terminal)
           /\ Profile(later).widths \subseteq Nat /\ IsFiniteSet(Profile(later).widths)
           /\ Profile(later).max_chunk <= Profile(later).max_item * p.variants
<1>1. p.variants \in Nat /\ \A c \in Elements(Chunks) : Len(c) <= p.variants
  BY EstimateAssumption DEF SituationOK, Positive
<1>2. /\ Profile(later).max_chunk \in Nat /\ Profile(later).max_item \in Nat
      /\ Profile(later).max_chunk <= Profile(later).max_item * p.variants
  BY <1>1, ProfileIs
<1>3. Answered(Perturbed) \subseteq Perturbed
  BY DEF Answered
<1>4. Cardinality(Perturbed) \in Nat \ {0} /\ Cardinality(Answered(Perturbed)) \in Nat
  BY <1>3, WorkCounted
<1> DEFINE w == {Width[x] : x \in Answered(Perturbed)}
<1>5. w \subseteq Nat /\ IsFiniteSet(w)
  BY <1>3, WidthsOf
<1> DEFINE result == Profile(later)
<1>6. /\ result = [terminal |-> result.terminal, successful |-> result.successful,
                   widths |-> result.widths, max_chunk |-> result.max_chunk,
                   max_item |-> result.max_item]
      /\ result.terminal = Cardinality(Perturbed) /\ result.widths = w
      /\ result.successful = Cardinality(Answered(Perturbed))
  BY DEF Profile
<1>7. result.max_chunk \in Nat /\ result.max_item \in Nat
  BY <1>2
<1> HIDE DEF w, result
<1>8. result \in ProfileResults
  BY <1>4, <1>5, <1>6, <1>7 DEF ProfileResults
<1>9. Positive(result.terminal) /\ result.widths \subseteq Nat /\ IsFiniteSet(result.widths)
  BY <1>4, <1>5, <1>6 DEF Positive
<1> QED BY <1>2, <1>8, <1>9 DEF result

\* what is known of every situation and its measurements
LEMMA SituationIs ==
    ASSUME NEW p \in Situations, NEW later \in BOOLEAN
    PROVE  /\ Costed(p) /\ Gauged(Sanity(p), Profile(later))
           /\ DOMAIN p = Fields /\ p.variants \in Nat \ {0} /\ p.budget \in Nat \ {0}
           /\ p.total_samples \in Nat /\ p.total_items \in Nat /\ p.manifest_bytes \in Nat
           /\ p.pending_samples <= p.total_samples /\ p.pending_items <= p.total_items
           /\ AreaOK(p.area) /\ p.area.max_regions \in Nat \ {0}
<1>1. SituationOK(p)
  BY EstimateAssumption
<1>2. Costed(p)
  BY <1>1 DEF SituationOK, OptionsOK, Costed
<1>3. Gauged(Sanity(p), Profile(later))
  BY SanityIs, ProfileTypes DEF Gauged
<1> QED BY <1>1, <1>2, <1>3 DEF SituationOK, OptionsOK, Positive, AssumptionsOK

\* the advice about chunks: it is not larger than the budget allows, unless it
\* is a single item, and it is given whenever there is a smaller chunk
LEMMA ChunkAdvice ==
    ASSUME NEW q, q.variants \in Nat \ {0}, q.budget \in Nat \ {0},
           NEW profile, profile.max_chunk \in Nat, profile.max_item \in Nat,
           profile.max_chunk <= profile.max_item * q.variants
    PROVE  LET advised == RecommendedVariants(q, profile) IN
           /\ advised # Absence =>
                /\ advised \in 1..(q.variants - 1)
                /\ advised * profile.max_item <= q.budget \/ advised = 1
           /\ profile.max_chunk > q.budget /\ q.variants > 1 => advised # Absence
<1> PICK v \in Nat \ {0} : v = q.variants
  OBVIOUS
<1> PICK budget \in Nat \ {0} : budget = q.budget
  OBVIOUS
<1> PICK chunk \in Nat : chunk = profile.max_chunk
  OBVIOUS
<1> PICK item \in Nat : item = profile.max_item
  OBVIOUS
<1>0. chunk <= item * v
  OBVIOUS
<1>1. CASE chunk <= budget
  <2>1. RecommendedVariants(q, profile) = Absence
    BY <1>1 DEF RecommendedVariants
  <2> QED BY <1>1, <2>1
<1>2. CASE chunk > budget /\ item = 0
  <2>1. item * v = 0
    BY <1>2
  <2> QED BY <1>0, <1>2, <2>1
<1>3. CASE chunk > budget /\ item # 0
  <2>1. PICK room : room = budget \div item
    OBVIOUS
  <2>2. room \in Nat /\ item * room \in Nat /\ item * room <= budget /\ budget < item * room + item
    <3>1. item \in Nat \ {0} /\ budget \in Int
      BY <1>3
    <3>2. /\ budget % item \in 0..item - 1 /\ room \in Int
          /\ item * room \in Int /\ budget = item * room + (budget % item)
      BY <2>1, <3>1, DivMod
    <3>3. room \in Nat
      BY <2>1, <3>1
    <3>4. item * room \in Nat
      BY <3>3
    <3> QED BY <3>1, <3>2, <3>3, <3>4
  <2>3. PICK capacity : capacity = Max({1, room})
    OBVIOUS
  <2>4. capacity \in Nat /\ capacity \in {1, room} /\ 1 <= capacity
    BY <2>2, <2>3, LargerOf
  <2>5. RecommendedVariants(q, profile) = IF capacity < v THEN capacity ELSE Absence
    <3>1. ~(profile.max_chunk <= q.budget \/ profile.max_item = 0)
      BY <1>3
    <3> QED BY <2>1, <2>3, <3>1 DEF RecommendedVariants
  <2>6. capacity * item <= budget \/ capacity = 1
    <3>1. room * item = item * room
      BY <2>2
    <3> QED BY <2>2, <2>4, <3>1
  <2>7. room < v
    <3> SUFFICES ASSUME v <= room PROVE FALSE
      BY <2>2
    <3>1. \A a, b, c \in Nat : a <= b => c * a <= c * b
      OBVIOUS
    <3>2. item * v <= item * room
      BY <2>2, <3>1
    <3> PICK x \in Nat : x = item * v
      OBVIOUS
    <3> PICK y \in Nat : y = item * room
      BY <2>2
    <3>3. chunk <= x /\ x <= y /\ y <= budget
      BY <1>0, <2>2, <3>2
    <3>4. chunk <= budget
      BY <3>3
    <3> QED BY <1>3, <3>4
  <2>8. v > 1 => capacity < v
    BY <2>4, <2>7
  <2>9. Absence \notin Nat
    BY EstimateAssumption
  <2>10. RecommendedVariants(q, profile) # Absence =>
           capacity < v /\ RecommendedVariants(q, profile) = capacity
    BY <2>5
  <2>11. capacity < v => capacity \in 1..(v - 1)
    BY <2>4
  <2>12. v > 1 => RecommendedVariants(q, profile) # Absence
    BY <2>4, <2>5, <2>8, <2>9
  <2> QED BY <2>6, <2>10, <2>11, <2>12
<1> QED BY <1>1, <1>2, <1>3

-----------------------------------------------------------------------------
(* The estimate is sound.                                                  *)

\* the report of a measurement
LEMMA ReportTypes ==
    ASSUME NEW p \in Situations, NEW later \in BOOLEAN, NEW area,
           calls.clean \in Nat, calls.perturbed \in Nat,
           ~EstimationError(p, Sanity(p), Profile(later))
    PROVE  Report(p, Sanity(p), Profile(later), area) \in EstimateReports
<1> PICK sanity : sanity = Sanity(p)
  OBVIOUS
<1> PICK profile : profile = Profile(later)
  OBVIOUS
<1> PICK report : report = Report(p, sanity, profile, area)
  OBVIOUS
<1>0. ReportParts(report, p, sanity, profile, area)
  BY ReportIs
<1>1. Costed(p) /\ Gauged(sanity, profile) /\ ~EstimationError(p, sanity, profile)
  BY SituationIs
<1>2. report.inference_calls \in Nat
  <2>1. p.pending_samples \in Nat /\ p.pending_items \in Nat
    BY <1>1 DEF Costed
  <2>2. ASSUME NEW n \in Nat, NEW m \in Nat, NEW t \in Nat \ {0}
        PROVE  Extrapolated(n, m, t) \in Nat
    <3> PICK x \in Nat : x = n * m
      OBVIOUS
    <3>1. Ceiling(n * m, t) \in Nat
      BY CeilingIs
    <3> QED BY <3>1 DEF Extrapolated
  <2>3. /\ Extrapolated(calls.clean, p.pending_samples, sanity.terminal) \in Nat
        /\ Extrapolated(calls.perturbed, p.pending_items, profile.terminal) \in Nat
    BY <1>1, <2>1, <2>2 DEF Gauged, Positive
  <2> QED BY <2>3, <1>0 DEF ReportParts, CallsOf
<1>3. report.seconds \in Nat \X (Nat \ {0})
  <2>1. PICK seconds : seconds = EstimatedSeconds(p, sanity, profile)
    OBVIOUS
  <2>2. seconds = <<seconds[1], seconds[2]>> /\ seconds[1] \in Nat /\ seconds[2] \in Nat \ {0}
    BY <1>1, <2>1, SecondsAre
  <2>3. report.seconds = seconds
    BY <2>1, <1>0 DEF ReportParts
  <2> QED BY <2>2, <2>3
<1>4. report.remaining_bytes \in Nat
  BY <1>1, CostsAre, <1>0 DEF ReportParts
<1>5. report.total_bytes \in Nat \cup {Absence}
  <2>1. CASE Observed(p, sanity, profile) = {}
    BY <2>1, <1>0 DEF ReportParts
  <2>2. CASE Observed(p, sanity, profile) # {}
    <3>1. Classes(p, sanity, profile) \in Nat
      BY <1>1, <2>2, ClassesKnown
    <3>2. AssumptionsOK(p) /\ p.total_samples \in Nat /\ p.total_items \in Nat /\ p.manifest_bytes \in Nat
      BY <1>1, SituationIs DEF Costed
    <3>3. p.total_samples <= p.total_samples /\ p.total_items <= p.total_items
      BY <3>2
    <3>4. DumpBytes(p.total_samples, p.total_items, Classes(p, sanity, profile), p) \in Nat
      BY <3>1, <3>2, <3>3, DumpBytesMonotone
    <3>5. report.total_bytes = p.manifest_bytes
             + DumpBytes(p.total_samples, p.total_items, Classes(p, sanity, profile), p)
      BY <2>2, <1>0 DEF ReportParts
    <3> QED BY <3>2, <3>4, <3>5
  <2> QED BY <2>1, <2>2
<1>6. report.exceedances \subseteq Kinds
  <2>1. Exceeded(p, sanity, profile) \subseteq Kinds
    BY <1>1, ExceededIs
  <2> QED BY <2>1, <1>0 DEF ReportParts
<1>7. report.fraction \in (Nat \X (Nat \ {0})) \cup {Absence}
  <2>1. CASE Exceeded(p, sanity, profile) = {}
    BY <2>1, <1>0 DEF ReportParts
  <2>2. CASE Exceeded(p, sanity, profile) # {}
    <3>1. PICK kind : kind = Binder(p, sanity, profile)
      OBVIOUS
    <3>2. kind \in Exceeded(p, sanity, profile)
      BY <1>1, <2>2, <3>1, BinderIs
    <3>3. /\ p.limits[kind] * Unit(p, sanity, profile) \in Nat
          /\ Costs(p, sanity, profile)[kind] \in Nat \ {0}
      BY <1>1, <3>2, ExceededIs
    <3>4. report.fraction = <<p.limits[kind] * Unit(p, sanity, profile),
                              Costs(p, sanity, profile)[kind]>>
      BY <2>2, <3>1, <1>0 DEF ReportParts
    <3> QED BY <3>3, <3>4
  <2> QED BY <2>1, <2>2
<1>8. report.variants \in (Nat \ {0}) \cup {Absence}
  <2>1. Advised(p, profile) \in (Nat \ {0}) \cup {Absence}
    <3>1. p.variants \in Nat \ {0} /\ p.budget \in Nat \ {0}
      BY SituationIs
    <3>2. /\ profile.max_chunk \in Nat /\ profile.max_item \in Nat
          /\ profile.max_chunk <= profile.max_item * p.variants
      BY ProfileTypes DEF ProfileResults
    <3>3. RecommendedVariants(p, profile) # Absence =>
             RecommendedVariants(p, profile) \in 1..(p.variants - 1)
      BY <3>1, <3>2, ChunkAdvice
    <3>4. \A n, v : v \in Nat /\ n \in 1..(v - 1) => n \in Nat \ {0}
      OBVIOUS
    <3>5. RecommendedVariants(p, profile) # Absence => RecommendedVariants(p, profile) \in Nat \ {0}
      BY <3>1, <3>3, <3>4
    <3> QED BY <3>5 DEF Advised
  <2> QED BY <2>1, <1>0 DEF ReportParts
<1>9. report.memory_high \in BOOLEAN
  <2>1. report.memory_high = (p.pending_items > 0 /\ profile.max_chunk > p.budget)
    BY <1>0 DEF ReportParts
  <2> QED BY <2>1
<1>10. report.confirmation_required \in BOOLEAN
  <2>1. report.confirmation_required =
          (\/ Exceeded(p, sanity, profile) # {}
           \/ (~NoPending(p) /\ "no" \in {sanity.passed, area.passed}))
    BY <1>0 DEF ReportParts
  <2> QED BY <2>1
<1>11. report = [inference_calls |-> report.inference_calls, seconds |-> report.seconds,
                 remaining_bytes |-> report.remaining_bytes, total_bytes |-> report.total_bytes,
                 exceedances |-> report.exceedances, fraction |-> report.fraction,
                 variants |-> report.variants, memory_high |-> report.memory_high,
                 confirmation_required |-> report.confirmation_required]
  BY <1>0 DEF ReportParts
<1> QED BY <1>2, <1>3, <1>4, <1>5, <1>6, <1>7, <1>8, <1>9, <1>10, <1>11 DEF EstimateReports

\* the advice of a report is enough if it is taken
LEMMA AdviceIsEnough ==
    ASSUME NEW p \in Situations, NEW later \in BOOLEAN, NEW area,
           ~EstimationError(p, Sanity(p), Profile(later))
    PROVE  AdviceFits(p, Sanity(p), Profile(later), Report(p, Sanity(p), Profile(later), area))
<1> PICK sanity : sanity = Sanity(p)
  OBVIOUS
<1> PICK profile : profile = Profile(later)
  OBVIOUS
<1> PICK report : report = Report(p, sanity, profile, area)
  OBVIOUS
<1>0. ReportParts(report, p, sanity, profile, area)
  BY ReportIs
<1>1. Costed(p) /\ Gauged(sanity, profile) /\ ~EstimationError(p, sanity, profile)
  BY SituationIs
<1> DEFINE kept(n) == (n * report.fraction[1]) \div report.fraction[2]
<1> DEFINE part == [p EXCEPT !.pending_samples = kept(@), !.pending_items = kept(@)]
<1>2. ASSUME report.fraction # Absence
      PROVE  /\ kept(1) = 0
             /\ \/ NoPending(part) \/ EstimationError(part, sanity, profile)
                \/ Report(part, sanity, profile, [passed |-> "yes"]).exceedances = {}
  <2>1. Exceeded(p, sanity, profile) # {}
    BY <1>2, <1>0 DEF ReportParts
  <2>2. PICK kind : kind = Binder(p, sanity, profile)
    OBVIOUS
  <2>3. kind \in Exceeded(p, sanity, profile)
    BY <1>1, <2>1, <2>2, BinderIs
  <2>4. report.fraction = <<p.limits[kind] * Unit(p, sanity, profile),
                            Costs(p, sanity, profile)[kind]>>
    BY <2>1, <2>2, <1>0 DEF ReportParts
  <2>5. report.fraction[1] = Allowed(p, kind, sanity, profile)
        /\ report.fraction[2] = Costs(p, sanity, profile)[kind]
    BY <2>4 DEF Allowed
  <2>6. \A n : kept(n) = Kept(n, p, kind, sanity, profile)
    BY <2>5 DEF Kept
  <2>7. kept(1) = 0
    <3> PICK l \in Nat : l = Allowed(p, kind, sanity, profile)
      BY <1>1, <2>3, ExceededIs DEF Allowed
    <3> PICK e \in Nat \ {0} : e = Costs(p, sanity, profile)[kind]
      BY <1>1, <2>3, ExceededIs
    <3>1. l < e
      BY <1>1, <2>3, ExceededIs DEF Allowed
    <3>2. kept(1) = (1 * l) \div e
      BY <2>5
    <3>3. (1 * l) \div e = 0
      BY <3>1
    <3> QED BY <3>2, <3>3
  <2>8. DOMAIN p = Fields
    BY SituationIs
  <2>9. /\ part.pending_samples = kept(p.pending_samples)
        /\ part.pending_items = kept(p.pending_items)
        /\ SamePrices(part, p)
    <3> HIDE DEF kept
    <3> QED BY <2>8 DEF Fields, SamePrices
  <2> HIDE DEF part, kept
  <2>10. Reduced(part, p, kind, sanity, profile)
    BY <2>6, <2>9 DEF Reduced
  <2>11. ~EstimationError(part, sanity, profile) => Exceeded(part, sanity, profile) = {}
    BY <1>1, <2>1, <2>2, <2>10, ReducedFits
  <2>12. Report(part, sanity, profile, [passed |-> "yes"]).exceedances = Exceeded(part, sanity, profile)
    BY ReportIs DEF ReportParts
  <2> QED BY <2>7, <2>11, <2>12
<1>3. /\ p.variants \in Nat \ {0} /\ p.budget \in Nat \ {0}
      /\ profile.max_chunk \in Nat /\ profile.max_item \in Nat
      /\ profile.max_chunk <= profile.max_item * p.variants
  BY SituationIs, ProfileTypes DEF ProfileResults
<1>4. report.variants = Advised(p, profile)
  BY <1>0 DEF ReportParts
<1>5. report.variants # Absence =>
         /\ report.variants \in 1..(p.variants - 1)
         /\ report.variants * profile.max_item <= p.budget \/ report.variants = 1
  BY <1>3, <1>4, ChunkAdvice DEF Advised
<1>6. report.memory_high /\ p.variants > 1 => report.variants # Absence
  <2>1. report.memory_high = (p.pending_items > 0 /\ profile.max_chunk > p.budget)
    BY <1>0 DEF ReportParts
  <2> QED BY <1>3, <1>4, <2>1, ChunkAdvice DEF Advised
<1> HIDE DEF kept, part
<1>7. AdviceFits(p, sanity, profile, report)
  BY Zenon, <1>2, <1>5, <1>6 DEF AdviceFits, kept, part
<1> QED BY <1>7

\* calls are extrapolated in the order of the work
LEMMA ExtrapolatedMonotone ==
    ASSUME NEW n \in Nat, NEW i \in Nat, NEW m \in Nat, i <= m, NEW t \in Nat \ {0}
    PROVE  /\ Extrapolated(n, i, t) \in Nat /\ Extrapolated(n, m, t) \in Nat
           /\ Extrapolated(n, i, t) <= Extrapolated(n, m, t)
           /\ Extrapolated(n, 0, t) = 0
<1> PICK x \in Nat : x = n * i
  OBVIOUS
<1> PICK y \in Nat : y = n * m
  OBVIOUS
<1>1. x <= y
  <2>1. \A a, b, c \in Nat : a <= b => c * a <= c * b
    OBVIOUS
  <2> QED BY <2>1
<1>2. Ceiling(x, t) \in Nat /\ Ceiling(y, t) \in Nat /\ Ceiling(x, t) <= Ceiling(y, t)
  BY <1>1, CeilingIs, CeilingMonotone
<1>3. m = 0 => i = 0
  OBVIOUS
<1> QED BY <1>2, <1>3 DEF Extrapolated

\* nothing is left to pay for what is done
LEMMA DoneCostsNothing ==
    ASSUME NEW p \in Situations, NEW later \in BOOLEAN, NEW area,
           calls.clean \in Nat, calls.perturbed \in Nat,
           ~EstimationError(p, Sanity(p), Profile(later)), NoPending(p)
    PROVE  LET report == Report(p, Sanity(p), Profile(later), area) IN
           /\ report.inference_calls = 0 /\ report.remaining_bytes = 0
           /\ report.seconds[1] = 0 /\ ~report.confirmation_required
<1> PICK sanity : sanity = Sanity(p)
  OBVIOUS
<1> PICK profile : profile = Profile(later)
  OBVIOUS
<1> PICK report : report = Report(p, sanity, profile, area)
  OBVIOUS
<1>0. ReportParts(report, p, sanity, profile, area)
  BY ReportIs
<1>1. Costed(p) /\ Gauged(sanity, profile) /\ ~EstimationError(p, sanity, profile)
  BY SituationIs
<1>2. p.pending_samples = 0 /\ p.pending_items = 0 /\ 0 \in Nat /\ 0 <= 0
  BY DEF NoPending
<1>3. report.inference_calls = 0
  <2>1. sanity.terminal \in Nat \ {0} /\ profile.terminal \in Nat \ {0}
    BY <1>1 DEF Gauged, Positive
  <2>2. Extrapolated(calls.clean, 0, sanity.terminal) = 0
        /\ Extrapolated(calls.perturbed, 0, profile.terminal) = 0
    BY <1>2, <2>1, ExtrapolatedMonotone
  <2> QED BY <1>0, <1>2, <2>2 DEF ReportParts, CallsOf
<1>4. Remaining(p, sanity, profile) = 0
  BY DEF Remaining
<1>5. EstimatedSeconds(p, sanity, profile)[1] = 0
  <2> PICK a \in Nat : a = SampleSeconds(p, profile)
    BY <1>1, SecondsAre
  <2> PICK b \in Nat : b = ItemSeconds(p, sanity)
    BY <1>1, SecondsAre
  <2>1. EstimatedSeconds(p, sanity, profile)[1] = Weighed(0, 0, a, b)
    BY <1>1, <1>2, SecondsAre
  <2>2. 0 * a + 0 * b = 0
    OBVIOUS
  <2> QED BY <2>1, <2>2 DEF Weighed
<1>6. Exceeded(p, sanity, profile) = {}
  <2> SUFFICES ASSUME NEW kind \in Exceeded(p, sanity, profile) PROVE FALSE
    OBVIOUS
  <2> PICK u \in Nat : u = Unit(p, sanity, profile)
    BY <1>1, CostsAre
  <2>1. 0 * u = 0
    OBVIOUS
  <2>2. \A k \in Kinds : Costs(p, sanity, profile)[k] = 0
    BY <1>1, <1>2, <1>4, <1>5, <2>1, CostsAre DEF Kinds
  <2>3. kind \in Kinds /\ Costs(p, sanity, profile)[kind] # 0
    BY <1>1, ExceededIs
  <2> QED BY <2>2, <2>3
<1>7. report.remaining_bytes = 0 /\ report.seconds[1] = 0
  BY <1>0, <1>4, <1>5 DEF ReportParts
<1>8. ~report.confirmation_required
  BY <1>0, <1>6 DEF ReportParts
<1> QED BY <1>3, <1>7, <1>8

\* what is pending takes no more bytes than the whole
LEMMA WholeIsLarger ==
    ASSUME NEW p \in Situations, NEW later \in BOOLEAN, NEW area,
           ~EstimationError(p, Sanity(p), Profile(later))
    PROVE  LET report == Report(p, Sanity(p), Profile(later), area) IN
           report.total_bytes # Absence => report.remaining_bytes <= report.total_bytes
<1> PICK sanity : sanity = Sanity(p)
  OBVIOUS
<1> PICK profile : profile = Profile(later)
  OBVIOUS
<1> PICK report : report = Report(p, sanity, profile, area)
  OBVIOUS
<1>0. ReportParts(report, p, sanity, profile, area)
  BY ReportIs
<1>1. Costed(p) /\ Gauged(sanity, profile) /\ ~EstimationError(p, sanity, profile)
  BY SituationIs
<1> SUFFICES ASSUME report.total_bytes # Absence
             PROVE  report.remaining_bytes <= report.total_bytes
  OBVIOUS
<1>2. Observed(p, sanity, profile) # {}
  BY <1>0 DEF ReportParts
<1> PICK classes \in Nat : classes = Classes(p, sanity, profile)
  BY <1>1, <1>2, ClassesKnown
<1>3. /\ AssumptionsOK(p) /\ p.total_samples \in Nat /\ p.total_items \in Nat
      /\ p.manifest_bytes \in Nat /\ p.pending_samples \in Nat /\ p.pending_items \in Nat
      /\ p.pending_samples <= p.total_samples /\ p.pending_items <= p.total_items
  BY <1>1, SituationIs DEF Costed
<1> PICK x : x = DumpBytes(p.pending_samples, p.pending_items, classes, p)
  OBVIOUS
<1> PICK y : y = DumpBytes(p.total_samples, p.total_items, classes, p)
  OBVIOUS
<1>4. x \in Nat /\ y \in Nat /\ x <= y
  BY <1>3, DumpBytesMonotone
<1>5. report.total_bytes = p.manifest_bytes + y
  BY <1>0, <1>2 DEF ReportParts
<1>6. report.remaining_bytes = 0 \/ report.remaining_bytes = x
  BY <1>0 DEF ReportParts, Remaining
<1>7. 0 <= p.manifest_bytes + y /\ x <= p.manifest_bytes + y
  BY <1>3, <1>4
<1> QED BY <1>5, <1>6, <1>7

\* one item less costs no more
LEMMA OneItemLess ==
    ASSUME NEW p \in Situations, NEW later \in BOOLEAN, NEW area,
           calls.clean \in Nat, calls.perturbed \in Nat,
           ~EstimationError(p, Sanity(p), Profile(later)), p.pending_items > 1
    PROVE  LET report == Report(p, Sanity(p), Profile(later), area)
               less == Report([p EXCEPT !.pending_items = @ - 1], Sanity(p), Profile(later),
                              [passed |-> "yes"]) IN
           /\ less.inference_calls <= report.inference_calls
           /\ less.seconds[1] <= report.seconds[1] /\ less.remaining_bytes <= report.remaining_bytes
           /\ less.confirmation_required => report.confirmation_required
<1> PICK sanity : sanity = Sanity(p)
  OBVIOUS
<1> PICK profile : profile = Profile(later)
  OBVIOUS
<1> PICK report : report = Report(p, sanity, profile, area)
  OBVIOUS
<1> PICK w : w = [p EXCEPT !.pending_items = @ - 1]
  OBVIOUS
<1> PICK less : less = Report(w, sanity, profile, [passed |-> "yes"])
  OBVIOUS
<1>0. /\ ReportParts(report, p, sanity, profile, area)
      /\ ReportParts(less, w, sanity, profile, [passed |-> "yes"])
  BY ReportIs
<1>1. Costed(p) /\ Gauged(sanity, profile) /\ ~EstimationError(p, sanity, profile)
  BY SituationIs
<1>2. p.pending_samples \in Nat /\ p.pending_items \in Nat
  BY <1>1 DEF Costed
<1>3. /\ w.pending_samples = p.pending_samples /\ w.pending_items = p.pending_items - 1
      /\ SamePrices(w, p)
  <2>1. DOMAIN p = Fields
    BY SituationIs
  <2> QED BY <2>1 DEF Fields, SamePrices
<1>4. /\ w.pending_samples \in Nat /\ w.pending_items \in Nat /\ w.pending_items > 0
      /\ w.pending_samples <= p.pending_samples /\ w.pending_items <= p.pending_items
  BY <1>2, <1>3
<1>5. Costed(w) /\ PartOf(w, p)
  BY <1>1, <1>3, <1>4 DEF SamePrices, Costed, AssumptionsOK, PartOf
<1>6. ~NoPending(w) /\ ~NoPending(p)
  BY <1>2, <1>4 DEF NoPending
<1>7. Observed(w, sanity, profile) = Observed(p, sanity, profile)
  <2>1. w.pending_items # 0 /\ p.pending_items # 0 /\ w.class_names = p.class_names
    BY <1>2, <1>3, <1>4 DEF SamePrices
  <2> QED BY <1>6, <2>1 DEF Observed
<1>8. ~EstimationError(w, sanity, profile)
  <2>1. w.pending_items > 0 /\ p.pending_items > 0
    BY <1>2, <1>4
  <2> QED BY <1>1, <1>6, <1>7, <2>1 DEF EstimationError
<1>9. less.inference_calls <= report.inference_calls
  <2>1. sanity.terminal \in Nat \ {0} /\ profile.terminal \in Nat \ {0}
    BY <1>1 DEF Gauged, Positive
  <2> PICK a \in Nat : a = Extrapolated(calls.clean, p.pending_samples, sanity.terminal)
    BY <1>2, <2>1, ExtrapolatedMonotone
  <2>2. /\ Extrapolated(calls.perturbed, w.pending_items, profile.terminal) \in Nat
        /\ Extrapolated(calls.perturbed, p.pending_items, profile.terminal) \in Nat
        /\ Extrapolated(calls.perturbed, w.pending_items, profile.terminal)
             <= Extrapolated(calls.perturbed, p.pending_items, profile.terminal)
    BY <1>2, <1>4, <2>1, ExtrapolatedMonotone
  <2> PICK b \in Nat : b = Extrapolated(calls.perturbed, w.pending_items, profile.terminal)
    BY <2>2
  <2> PICK c \in Nat : c = Extrapolated(calls.perturbed, p.pending_items, profile.terminal)
    BY <2>2
  <2>3. less.inference_calls = a + b /\ report.inference_calls = a + c
    BY <1>0, <1>3 DEF ReportParts, CallsOf
  <2>4. b <= c
    BY <2>2
  <2>5. a + b <= a + c
    BY <2>4
  <2> QED BY <2>3, <2>5
<1>10. less.seconds[1] <= report.seconds[1]
  BY <1>0, <1>1, <1>5, PartSeconds DEF ReportParts
<1>11. less.remaining_bytes <= report.remaining_bytes
  BY <1>0, <1>1, <1>5, <1>8, PartBytes DEF ReportParts
<1>12. less.confirmation_required => report.confirmation_required
  <2>1. Exceeded(w, sanity, profile) # {} => Exceeded(p, sanity, profile) # {}
    BY <1>1, <1>5, <1>8, PartCosts
  <2>2. less.confirmation_required =
          (\/ Exceeded(w, sanity, profile) # {}
           \/ (~NoPending(w) /\ "no" \in {sanity.passed, "yes"}))
    BY <1>0 DEF ReportParts
  <2>3. report.confirmation_required =
          (\/ Exceeded(p, sanity, profile) # {}
           \/ (~NoPending(p) /\ "no" \in {sanity.passed, area.passed}))
    BY <1>0 DEF ReportParts
  <2>4. "no" \in {sanity.passed, "yes"} => "no" \in {sanity.passed, area.passed}
    OBVIOUS
  <2> QED BY <1>6, <2>1, <2>2, <2>3, <2>4
<1> QED BY <1>9, <1>10, <1>11, <1>12

\* less work costs no more, and none costs nothing
LEMMA LessIsCheaper ==
    ASSUME NEW p \in Situations, NEW later \in BOOLEAN, NEW area,
           calls.clean \in Nat, calls.perturbed \in Nat,
           ~EstimationError(p, Sanity(p), Profile(later))
    PROVE  LessCostsNoMore(p, Sanity(p), Profile(later), Report(p, Sanity(p), Profile(later), area))
BY Zenon, DoneCostsNothing, WholeIsLarger, OneItemLess DEF LessCostsNoMore

\* the counts and the calls are sound, and so is what is concluded from them
LEMMA SoundAtEnd ==
    ASSUME IInv, CountInv
    PROVE  EstimateIsSound
<1>1. OutcomesAreCounted /\ CallsAreBounded
  BY CountedAtEnd, BoundAtEnd
<1>2. SelectionsAreSpread /\ PassedAreasAreKept
  BY Selections, AreasKept
<1>3. ASSUME Measured, NEW p \in Situations, NEW later \in BOOLEAN,
             ~EstimationError(p, Sanity(p), Profile(later))
      PROVE  LET sanity == Sanity(p)
                 profile == Profile(later)
                 area == AreaSanity(p.area)
                 report == Report(p, sanity, profile, area) IN
             /\ sanity \in SanityResults /\ profile \in ProfileResults
             /\ area \in AreaResults /\ report \in EstimateReports
             /\ AdviceFits(p, sanity, profile, report)
             /\ LessCostsNoMore(p, sanity, profile, report)
  <2>1. calls.clean \in Nat /\ calls.perturbed \in Nat
    <3>1. Counting
      BY <1>3 DEF Measured, Counting
    <3> QED BY <3>1 DEF CountInv, CallsInv, CallsOK
  <2>2. AreaSanity(p.area) \in AreaResults
    BY SituationIs, AreaTypes
  <2>3. Sanity(p) \in SanityResults /\ Profile(later) \in ProfileResults
    BY SanityIs, ProfileTypes
  <2>4. Report(p, Sanity(p), Profile(later), AreaSanity(p.area)) \in EstimateReports
    BY <1>3, <2>1, ReportTypes
  <2>5. AdviceFits(p, Sanity(p), Profile(later), Report(p, Sanity(p), Profile(later), AreaSanity(p.area)))
    BY <1>3, AdviceIsEnough
  <2>6. LessCostsNoMore(p, Sanity(p), Profile(later), Report(p, Sanity(p), Profile(later), AreaSanity(p.area)))
    BY <1>3, <2>1, LessIsCheaper
  <2> QED BY Zenon, <2>2, <2>3, <2>4, <2>5, <2>6
<1> QED BY Zenon, <1>1, <1>2, <1>3 DEF EstimateIsSound

\* The cost estimate of core/estimate is sound whenever its measurements end
\* (estimator.py, report.py, areas.py): selections are spread, areas that pass
\* are kept, every outcome and call is counted, the report has the types of its
\* fields, what is advised fits the limits and memory, and less work is never
\* estimated to cost more.
THEOREM EstimateSound == MeasureSpec => []EstimateIsSound
<1>1. MeasureInit => IInv /\ CountInv
  BY InitStep, MeasureStart DEF MeasureInit
<1>2. IInv /\ CountInv /\ [MeasureNext]_measuring => (IInv /\ CountInv)'
  <2>1. IInv /\ [MeasureNext]_measuring => IInv'
    BY MeasuredSteps, NextStep
  <2>2. IInv /\ CountInv /\ [MeasureNext]_measuring => CountInv'
    BY MeasureStep
  <2> QED BY <2>1, <2>2
<1>3. IInv /\ CountInv => EstimateIsSound
  BY SoundAtEnd
<1> QED BY <1>1, <1>2, <1>3, PTL DEF MeasureSpec

=============================================================================
