---------------------------- MODULE Prepare_proofs ----------------------------
(***************************************************************************)
(* What workers prepare is what was planned: theorems about Prepare for    *)
(* any configuration, files, cache size, number of workers and schedule.   *)
(***************************************************************************)
EXTENDS Prepare, SequenceLemmas

-----------------------------------------------------------------------------
(* Types.                                                                  *)

IsJob(j) ==
    j \in [chunk : Nat, items : {j.items}, digest : Contents \cup {None},
           prepared : Seq(Range(j.prepared)), failed : Seq(Range(j.failed))]
CacheEntry == [digest : Contents, content : Contents]
Over(f, D) == f = [x \in D |-> f[x]]
Typed ==
    /\ config \in Shape(config)
    /\ files \in [DOMAIN files -> Contents]
    /\ cache \in [AllProcesses -> Seq(CacheEntry)]
    /\ Over(job, AllProcesses) /\ \A p \in AllProcesses : job[p] # None => IsJob(job[p])
    /\ taken \in [AllProcesses -> Nat]
    /\ Over(results, DOMAIN results)
    /\ raced \subseteq AllProcesses

\* what is left of a job when an item of it has failed, or was prepared
Failing(j, id) ==
    [chunk |-> j.chunk, items |-> j.items, digest |-> None, prepared |-> j.prepared,
     failed |-> Append(j.failed, id)]
Adding(j, e) ==
    [chunk |-> j.chunk, items |-> j.items, digest |-> None,
     prepared |-> Append(j.prepared, e), failed |-> j.failed]
UsedMask(item, mask) ==
    IF item.invert THEN Inverted(Frames[item.sample], mask) ELSE mask

\* e is what item becomes under mask
EntryOf(e, item, mask) ==
    /\ e.item = item /\ e.mask = UsedMask(item, mask) /\ e.area = IntendedArea(e.mask)
    /\ \E candidate \in Candidates(Frames[item.sample], item.op, item.value) :
          e.pixels = Composite(Frames[item.sample], e.mask, candidate)

\* a sequence with one more member is a sequence
LEMMA AppendRange ==
    ASSUME NEW s, s \in Seq(Range(s)), NEW x
    PROVE  Append(s, x) \in Seq(Range(Append(s, x)))
<1> DEFINE A == Range(s) \cup {x}
<1>1. s \in Seq(A) /\ x \in A
  <2>1. Range(s) \subseteq A
    OBVIOUS
  <2> HIDE DEF A
  <2>2. s \in Seq(A)
    BY <2>1, SeqMonotonic
  <2> QED BY <2>2 DEF A
<1> HIDE DEF A
<1> DEFINE t == Append(s, x)
<1>2. t \in Seq(A) /\ Range(t) = Members(t)
  BY <1>1, AppendProperties, RangeIsMembers
<1>3. t \in Seq(Members(t))
  <2>1. \A i \in 1..Len(t) : t[i] \in Members(t)
    BY DEF Members
  <2> HIDE DEF t
  <2>2. t = [i \in 1..Len(t) |-> t[i]] /\ Len(t) \in Nat
    BY <1>2, LenProperties
  <2>3. t \in [1..Len(t) -> Members(t)]
    BY <2>1, <2>2
  <2> QED BY <2>2, <2>3, SeqDef
<1> QED BY <1>2, <1>3

\* an attempt at an item that is not possible fails, another adds one entry
LEMMA OutcomeIs ==
    ASSUME NEW item, NEW mask, NEW j, IsJob(j), NEW o \in Outcomes(item, mask, j)
    PROVE  \/ ~Possible(item, mask) /\ o = Failing(j, item.item_id)
           \/ /\ Possible(item, mask)
              /\ \E e : EntryOf(e, item, mask) /\ o = Adding(j, e)
<1>0. j \in [chunk : Nat, items : {j.items}, digest : Contents \cup {None},
             prepared : Seq(Range(j.prepared)), failed : Seq(Range(j.failed))]
  BY DEF IsJob
<1>1. CASE ~Possible(item, mask)
  <2>1. o = [[j EXCEPT !.failed = Append(@, item.item_id)] EXCEPT !.digest = None]
    BY <1>1 DEF Outcomes, Fails
  <2>2. o = Failing(j, item.item_id)
    BY <1>0, <2>1 DEF Failing
  <2> QED BY <1>1, <2>2
<1>2. CASE Possible(item, mask)
  <2> DEFINE used == UsedMask(item, mask)
  <2> DEFINE made(c) == [item |-> item, mask |-> used, area |-> AreaOf(item, mask, used),
                         pixels |-> Composite(Frames[item.sample], used, c)]
  <2>1. o \in Prepares(item, mask, j)
    BY <1>2 DEF Outcomes
  <2>2. PICK c \in Candidates(Frames[item.sample], item.op, item.value) :
          o = [j EXCEPT !.digest = None, !.prepared = Append(@, made(c))]
    BY <2>1 DEF Prepares, UsedMask
  <2> DEFINE e == made(c)
  <2>3. EntryOf(e, item, mask)
    BY DEF EntryOf, AreaOf
  <2> HIDE DEF e
  <2>4. o = Adding(j, e)
    BY <1>0, <2>2 DEF Adding, e
  <2> QED BY <1>2, <2>3, <2>4
<1> QED BY <1>1, <1>2

\* a job with one more failure or entry is a job
LEMMA JobStays ==
    ASSUME NEW j, IsJob(j), NEW x
    PROVE  IsJob(Failing(j, x)) /\ IsJob(Adding(j, x))
<1>0. j \in [chunk : Nat, items : {j.items}, digest : Contents \cup {None},
             prepared : Seq(Range(j.prepared)), failed : Seq(Range(j.failed))]
  BY DEF IsJob
<1>1. /\ Append(j.failed, x) \in Seq(Range(Append(j.failed, x)))
      /\ Append(j.prepared, x) \in Seq(Range(Append(j.prepared, x)))
  BY <1>0, AppendRange
<1> QED BY <1>0, <1>1 DEF IsJob, Failing, Adding

\* a set of integers with a bound has a largest member
LEMMA MaxIsIn ==
    ASSUME NEW S, S \subseteq Int, S # {}, \E b \in Int : \A x \in S : x <= b
    PROVE  Max(S) \in S /\ \A y \in S : y <= Max(S)
<1>0. PICK b \in Int : \A x \in S : x <= b
  OBVIOUS
<1> DEFINE T == {b - x : x \in S}
<1>1. PICK t \in T : \A y \in T : t <= y
  <2>1. \A x \in S : b - x \in Nat
    BY <1>0
  <2>2. T \subseteq Nat /\ T # {}
    BY <2>1
  <2> HIDE DEF T
  <2> QED BY <2>2, NatLeast
<1>2. PICK x \in S : t = b - x
  OBVIOUS
<1>3. \A y \in S : x >= y
  <2> TAKE y \in S
  <2>1. b - x <= b - y
    BY <1>1, <1>2
  <2> QED BY <2>1
<1> QED BY <1>3 DEF Max

\* a set of natural numbers has a smallest member
LEMMA MinIsIn ==
    ASSUME NEW S, S \subseteq Nat, S # {}
    PROVE  Min(S) \in S /\ \A y \in S : Min(S) <= y
<1>1. PICK x \in S : \A y \in S : x <= y
  BY NatLeast
<1> QED BY <1>1 DEF Min

\* an entry replaces the one of its digest, or the oldest
LEMMA RefreshedIs ==
    ASSUME NEW A, NEW p, cache[p] \in Seq(A), NEW entry \in A, CacheSize \in Nat \ {0}
    PROVE  /\ Refreshed(p, entry) \in Seq(A)
           /\ Members(Refreshed(p, entry)) \subseteq Members(cache[p]) \cup {entry}
           /\ Len(cache[p]) <= CacheSize => Len(Refreshed(p, entry)) <= CacheSize
<1> DEFINE c == cache[p]
<1> DEFINE at == {i \in DOMAIN c : c[i].digest = entry.digest}
<1> DEFINE rest == IF at = {} THEN c ELSE RemoveAt(c, Max(at))
<1>1. c \in Seq(A) /\ DOMAIN c = 1..Len(c) /\ Len(c) \in Nat
  BY LenProperties
<1> HIDE DEF c
<1>2. rest \in Seq(A) /\ Members(rest) \subseteq Members(c) /\ Len(rest) <= Len(c)
  <2>1. CASE at = {}
    BY <1>1, <2>1
  <2>2. CASE at # {}
    <3> DEFINE m == Max(at)
    <3>1. m \in 1..Len(c)
      <4>1. at \subseteq 1..Len(c)
        BY <1>1
      <4>2. at \subseteq Int /\ \E b \in Int : \A x \in at : x <= b
        <5>1. Len(c) \in Int /\ \A x \in at : x <= Len(c)
          BY <1>1, <4>1
        <5> QED BY <1>1, <4>1, <5>1
      <4> HIDE DEF at
      <4>3. Max(at) \in at
        BY <1>1, <2>2, <4>2, MaxIsIn
      <4> QED BY <4>1, <4>3
    <3> HIDE DEF m
    <3> DEFINE a == SubSeq(c, 1, m - 1)
    <3> DEFINE b == SubSeq(c, m + 1, Len(c))
    <3>2. /\ a \in Seq(A) /\ Len(a) = m - 1
          /\ Members(a) \subseteq Members(c)
      <4> DEFINE z == 0
      <4> DEFINE y == m - 1
      <4>1. z \in 0..Len(c) /\ y \in z..Len(c) /\ z + 1 = 1
        BY <1>1, <3>1
      <4> HIDE DEF z, y
      <4>2. /\ SubSeq(c, z + 1, y) \in Seq(A) /\ Len(SubSeq(c, z + 1, y)) = y - z
            /\ Members(SubSeq(c, z + 1, y)) = {c[k] : k \in z + 1..y}
        BY <1>1, <4>1, Piece
      <4>3. a = SubSeq(c, z + 1, y)
        BY DEF z, y
      <4>4. y - z = m - 1 /\ z + 1..y \subseteq 1..Len(c)
        BY <1>1, <3>1 DEF z, y
      <4>5. {c[k] : k \in z + 1..y} \subseteq Members(c)
        BY <4>4 DEF Members
      <4> HIDE DEF a
      <4> QED BY <4>2, <4>3, <4>4, <4>5
    <3>3. /\ b \in Seq(A) /\ Len(b) = Len(c) - m
          /\ Members(b) \subseteq Members(c)
      <4> DEFINE y == Len(c)
      <4>1. m \in 0..Len(c) /\ y \in m..Len(c)
        BY <1>1, <3>1
      <4> HIDE DEF y, b
      <4>6. c \in Seq(A)
        BY <1>1
      <4>5. /\ SubSeq(c, m + 1, y) \in Seq(A) /\ Len(SubSeq(c, m + 1, y)) = y - m
            /\ Members(SubSeq(c, m + 1, y)) = {c[k] : k \in m + 1..y}
        BY <4>1, <4>6, Piece
      <4>2. /\ b \in Seq(A) /\ Len(b) = Len(c) - m
            /\ Members(b) = {c[k] : k \in m + 1..Len(c)}
        BY <4>5 DEF b, y
      <4>3. m + 1..Len(c) \subseteq 1..Len(c)
        BY <3>1
      <4>4. {c[k] : k \in m + 1..Len(c)} \subseteq Members(c)
        BY <4>3 DEF Members
      <4> HIDE DEF b
      <4> QED BY <4>2, <4>4
    <3>4. rest = a \o b
      BY <2>2 DEF RemoveAt, m
    <3> HIDE DEF a, b, rest
    <3>5. rest \in Seq(A) /\ Len(rest) = Len(a) + Len(b)
      BY <3>2, <3>3, <3>4, ConcatProperties
    <3>6. Members(rest) = Members(a) \cup Members(b)
      BY <3>2, <3>3, <3>4, MembersOfConcat
    <3> QED BY <1>1, <3>1, <3>2, <3>3, <3>5, <3>6
  <2> QED BY <2>1, <2>2
<1> DEFINE kept == IF Len(rest) < CacheSize THEN rest ELSE Tail(rest)
<1>3. Refreshed(p, entry) = Append(kept, entry)
  BY DEF Refreshed, c
<1> HIDE DEF at, rest
<1>4. /\ kept \in Seq(A) /\ Members(kept) \subseteq Members(rest)
      /\ Len(rest) <= CacheSize => Len(kept) < CacheSize
  <2>1. CASE Len(rest) < CacheSize
    BY <1>2, <2>1
  <2>2. CASE ~(Len(rest) < CacheSize)
    <3>1. rest # <<>> /\ Len(rest) \in Nat
      BY <1>2, <2>2, LenProperties, EmptySeq
    <3>2. /\ Tail(rest) \in Seq(A) /\ Len(Tail(rest)) = Len(rest) - 1
          /\ Members(rest) = {rest[1]} \cup Members(Tail(rest))
      BY <1>2, <3>1, HeadAndTail
    <3> QED BY <2>2, <3>1, <3>2
  <2> QED BY <2>1, <2>2
<1> HIDE DEF kept
<1>5. /\ Append(kept, entry) \in Seq(A) /\ Len(Append(kept, entry)) = Len(kept) + 1
      /\ Members(Append(kept, entry)) = Members(kept) \cup {entry}
  BY <1>4, AppendProperties, MembersOfAppend
<1>6. Len(c) <= CacheSize => Len(kept) + 1 <= CacheSize
  BY <1>1, <1>2, <1>4, LenProperties
<1> QED BY <1>2, <1>3, <1>4, <1>5, <1>6 DEF c

-----------------------------------------------------------------------------
(* Types are kept.                                                         *)

RegionsResolved(c, fs) == [i \in DOMAIN c.regions |-> ResolvedRegion(c.regions[i], fs)]
ValuesResolved(c, readable) ==
    [i \in DOMAIN c.perturbations |->
       ResolvedPerturbation(c.perturbations[i], Stats(c, readable))]

\* resolving keeps the shape, and everything but regions, values and statistics
LEMMA ResolvedShape ==
    ASSUME NEW c, c \in Shape(c), NEW fs, NEW readable
    PROVE  /\ Resolved(c, fs, readable) \in Shape(Resolved(c, fs, readable))
           /\ Resolved(c, fs, readable).listed = c.listed
           /\ Resolved(c, fs, readable).controls = c.controls
           /\ Resolved(c, fs, readable).variants_per_chunk = c.variants_per_chunk
           /\ Resolved(c, fs, readable).num_workers = c.num_workers
           /\ Resolved(c, fs, readable).fail_fast = c.fail_fast
           /\ Resolved(c, fs, readable).regions = RegionsResolved(c, fs)
           /\ Resolved(c, fs, readable).perturbations = ValuesResolved(c, readable)
<1> DEFINE r == Resolved(c, fs, readable)
<1> DEFINE regions == RegionsResolved(c, fs)
<1> DEFINE perturbations == ValuesResolved(c, readable)
<1>1. c \in [listed : Seq(Int), regions : Seq(Range(c.regions)),
             perturbations : Seq(Range(c.perturbations)), controls : Seq(Range(c.controls)),
             dataset_stats : {c.dataset_stats}, variants_per_chunk : Nat \ {0},
             num_workers : 0..MaxWorkers, fail_fast : BOOLEAN]
  BY DEF Shape
<1>2. regions \in Seq(Range(regions))
  <2>1. DOMAIN c.regions = 1..Len(c.regions) /\ Len(c.regions) \in Nat
    BY <1>1, LenProperties
  <2>2. regions = [i \in 1..Len(c.regions) |-> regions[i]]
    BY <2>1 DEF RegionsResolved
  <2> HIDE DEF regions
  <2> QED BY <2>1, <2>2, FunctionIsSequence
<1>3. perturbations \in Seq(Range(perturbations))
  <2>1. DOMAIN c.perturbations = 1..Len(c.perturbations) /\ Len(c.perturbations) \in Nat
    BY <1>1, LenProperties
  <2>2. perturbations = [i \in 1..Len(c.perturbations) |-> perturbations[i]]
    BY <2>1 DEF ValuesResolved
  <2> HIDE DEF perturbations
  <2> QED BY <2>1, <2>2, FunctionIsSequence
<1>4. r = [[[c EXCEPT !.regions = regions] EXCEPT !.perturbations = perturbations]
             EXCEPT !.dataset_stats = Stats(c, readable)]
  BY <1>1 DEF Resolved, RegionsResolved, ValuesResolved
<1> HIDE DEF r, regions, perturbations
<1>5. r = [listed |-> c.listed, regions |-> regions, perturbations |-> perturbations,
           controls |-> c.controls, dataset_stats |-> Stats(c, readable),
           variants_per_chunk |-> c.variants_per_chunk, num_workers |-> c.num_workers,
           fail_fast |-> c.fail_fast]
  BY <1>1, <1>4
<1>6. /\ r.listed = c.listed /\ r.controls = c.controls
      /\ r.variants_per_chunk = c.variants_per_chunk
      /\ r.num_workers = c.num_workers /\ r.fail_fast = c.fail_fast
      /\ r.regions = regions /\ r.perturbations = perturbations
      /\ r.dataset_stats = Stats(c, readable)
  BY <1>5
<1>7. r \in Shape(r)
  BY <1>1, <1>2, <1>3, <1>5, <1>6 DEF Shape
<1> QED BY <1>6, <1>7 DEF r, regions, perturbations

\* types hold in the beginning
LEMMA InitTyped == Init => Typed
<1> SUFFICES ASSUME Init PROVE Typed
  OBVIOUS
<1> USE ConfigsAssumption DEF Init
<1>1. config \in Shape(config)
  OBVIOUS
<1>2. files \in [DOMAIN files -> Contents]
  OBVIOUS
<1>3. cache \in [AllProcesses -> Seq(CacheEntry)] /\ taken \in [AllProcesses -> Nat]
  OBVIOUS
<1>4. Over(job, AllProcesses) /\ \A p \in AllProcesses : job[p] # None => IsJob(job[p])
  BY DEF Over
<1>5. Over(results, DOMAIN results)
  BY DEF Over
<1> QED BY <1>1, <1>2, <1>3, <1>4, <1>5 DEF Typed

\* which numbers the processes have, with workers and without
LEMMA ProcessesAreKnown ==
    ASSUME Typed, NEW p \in Processes
    PROVE  /\ p \in AllProcesses /\ config.num_workers \in Nat
           /\ p \in Nat /\ (p = Main => config.num_workers = 0)
           /\ (p # Main => p \in 1..config.num_workers)
<1>1. config.num_workers \in 0..MaxWorkers
  BY DEF Typed, Shape
<1> QED BY <1>1, BoundsAssumption DEF Processes, AllProcesses, Main

\* p goes on with its own job, or has none any more
Working(p) ==
    /\ job[p] # None /\ IsJob(job'[p])
    /\ job' = [job EXCEPT ![p] = job'[p]]

\* the item p works on fails, or is prepared under the mask it was given
Attempt(p, item, mask) ==
    \/ ~Possible(item, mask) /\ job'[p] = Failing(job[p], item.item_id)
    \/ /\ Possible(item, mask)
       /\ \E e : EntryOf(e, item, mask) /\ job'[p] = Adding(job[p], e)

\* an attempt at an item changes the job of one process
LEMMA AttemptIs ==
    ASSUME Typed, NEW p \in Processes, job[p] # None, NEW mask,
           \E outcome \in Outcomes(Doing(p), mask, job[p]) : job' = [job EXCEPT ![p] = outcome]
    PROVE  Working(p) /\ Attempt(p, Doing(p), mask)
<1>1. p \in AllProcesses /\ Over(job, AllProcesses) /\ IsJob(job[p])
  BY ProcessesAreKnown DEF Typed
<1>2. PICK o \in Outcomes(Doing(p), mask, job[p]) : job' = [job EXCEPT ![p] = o]
  OBVIOUS
<1>3. job'[p] = o
  BY <1>1, <1>2 DEF Over
<1>4. \/ ~Possible(Doing(p), mask) /\ o = Failing(job[p], Doing(p).item_id)
      \/ /\ Possible(Doing(p), mask)
         /\ \E e : EntryOf(e, Doing(p), mask) /\ o = Adding(job[p], e)
  BY <1>1, OutcomeIs
<1>5. IsJob(o)
  BY <1>1, <1>4, JobStays
<1> QED BY <1>2, <1>3, <1>4, <1>5 DEF Working, Attempt

\* what p checks: the digest of the file, which is that of the plan
Checked(p) ==
    LET recipe == Recipe(Doing(p)) IN
    /\ recipe.ref \in DOMAIN files /\ files[recipe.ref] = recipe.ref_hash
    /\ job'[p] = [chunk |-> job[p].chunk, items |-> job[p].items, digest |-> recipe.ref_hash,
                  prepared |-> job[p].prepared, failed |-> job[p].failed]

\* a check of a digest notes it in the job, or fails the item
LEMMA CheckIs ==
    ASSUME Typed, NEW p \in Processes, CheckDigest(p)
    PROVE  Working(p) /\ (Checked(p) \/ job'[p] = Failing(job[p], Doing(p).item_id))
<1> DEFINE recipe == Recipe(Doing(p))
<1>1. p \in AllProcesses /\ Over(job, AllProcesses) /\ job[p] # None /\ IsJob(job[p])
      /\ files \in [DOMAIN files -> Contents]
  BY ProcessesAreKnown DEF Typed, CheckDigest, HasWork
<1>2. job' = [job EXCEPT ![p] =
                IF recipe.ref \in DOMAIN files /\ files[recipe.ref] = recipe.ref_hash
                THEN [job[p] EXCEPT !.digest = recipe.ref_hash] ELSE Fails(Doing(p), job[p])]
  BY <1>1 DEF CheckDigest, Over
<1>0. job[p] \in [chunk : Nat, items : {job[p].items}, digest : Contents \cup {None},
                  prepared : Seq(Range(job[p].prepared)), failed : Seq(Range(job[p].failed))]
  BY <1>1 DEF IsJob
<1>3. CASE recipe.ref \in DOMAIN files /\ files[recipe.ref] = recipe.ref_hash
  <2>1. job'[p] = [job[p] EXCEPT !.digest = recipe.ref_hash]
        /\ job' = [job EXCEPT ![p] = job'[p]]
    BY <1>1, <1>2, <1>3 DEF Over
  <2>2. recipe.ref_hash \in Contents
    BY <1>1, <1>3
  <2>3. Checked(p)
    BY <1>0, <1>3, <2>1 DEF Checked
  <2>4. IsJob(job'[p])
    <3> DEFINE j == job'[p]
    <3>1. j = [chunk |-> job[p].chunk, items |-> job[p].items, digest |-> recipe.ref_hash,
               prepared |-> job[p].prepared, failed |-> job[p].failed]
      BY <2>3 DEF Checked
    <3> HIDE DEF j
    <3>2. IsJob(j)
      BY <1>0, <2>2, <3>1 DEF IsJob
    <3> QED BY <3>2 DEF j
  <2> QED BY <1>1, <2>1, <2>3, <2>4 DEF Working
<1>4. CASE ~(recipe.ref \in DOMAIN files /\ files[recipe.ref] = recipe.ref_hash)
  <2>1. job'[p] = [job[p] EXCEPT !.failed = Append(@, Doing(p).item_id), !.digest = None]
        /\ job' = [job EXCEPT ![p] = job'[p]]
    BY <1>1, <1>2, <1>4 DEF Over, Fails
  <2>2. job'[p] = Failing(job[p], Doing(p).item_id)
    BY <1>0, <2>1 DEF Failing
  <2>3. IsJob(job'[p])
    BY <1>1, <2>2, JobStays
  <2> QED BY <1>1, <2>1, <2>2, <2>3 DEF Working
<1> QED BY <1>3, <1>4

\* work on a job keeps the types
LEMMA WorkingTyped ==
    ASSUME Typed, NEW p \in Processes, Working(p),
           UNCHANGED <<config, files, taken, results, raced>>,
           cache' \in [AllProcesses -> Seq(CacheEntry)]
    PROVE  Typed'
<1>1. Over(job', AllProcesses)
  BY DEF Typed, Working, Over
<1>2. ASSUME NEW q \in AllProcesses, job'[q] # None PROVE IsJob(job'[q])
  <2>1. CASE q = p
    BY <2>1 DEF Working
  <2>2. CASE q # p
    <3>1. job'[q] = job[q]
      BY <2>2 DEF Typed, Working, Over
    <3> QED BY <1>2, <3>1 DEF Typed
  <2> QED BY <2>1, <2>2
<1>3. /\ config' \in Shape(config') /\ files' \in [DOMAIN files' -> Contents]
      /\ taken' \in [AllProcesses -> Nat] /\ raced' \subseteq AllProcesses
      /\ Over(results', DOMAIN results')
  BY DEF Typed
<1> QED BY <1>1, <1>2, <1>3 DEF Typed

\* a new entry of the cache holds the digest p has checked
LEMMA DecodedIs ==
    ASSUME Typed, NEW p \in Processes, HasWork(p), job[p].digest # None
    PROVE  LET content == Decoded(p, Recipe(Doing(p)), job[p].digest)
               entry == [digest |-> job[p].digest, content |-> content] IN
           /\ content # Undecodable =>
                /\ entry \in CacheEntry
                /\ Refreshed(p, entry) \in Seq(CacheEntry)
                /\ Members(Refreshed(p, entry)) \subseteq Members(cache[p]) \cup {entry}
                /\ Len(cache[p]) <= CacheSize => Len(Refreshed(p, entry)) <= CacheSize
           /\ \/ \E i \in 1..Len(cache[p]) : cache[p][i].digest = job[p].digest
                                             /\ content = cache[p][i].content
              \/ Recipe(Doing(p)).ref \in DOMAIN files /\ content = files[Recipe(Doing(p)).ref]
              \/ Recipe(Doing(p)).ref \notin DOMAIN files /\ content = Undecodable
<1> DEFINE recipe == Recipe(Doing(p))
<1> DEFINE content == Decoded(p, recipe, job[p].digest)
<1> DEFINE entry == [digest |-> job[p].digest, content |-> content]
<1>1. /\ p \in AllProcesses /\ IsJob(job[p]) /\ cache[p] \in Seq(CacheEntry)
      /\ files \in [DOMAIN files -> Contents]
  BY ProcessesAreKnown DEF Typed, HasWork
<1>2. job[p].digest \in Contents
  BY <1>1 DEF IsJob
<1>3. \/ \E i \in 1..Len(cache[p]) : cache[p][i].digest = job[p].digest
                                     /\ content = cache[p][i].content
      \/ recipe.ref \in DOMAIN files /\ content = files[recipe.ref]
      \/ recipe.ref \notin DOMAIN files /\ content = Undecodable
  <2>1. CASE Cached(p, job[p].digest) # {}
    <3> DEFINE e == CHOOSE e \in Cached(p, job[p].digest) : TRUE
    <3>1. e \in Cached(p, job[p].digest) /\ content = e.content
      BY <2>1 DEF Decoded
    <3> HIDE DEF e
    <3>2. e \in Members(cache[p]) /\ e.digest = job[p].digest
      BY <1>1, <3>1, RangeIsMembers DEF Cached
    <3> HIDE DEF content
    <3> QED BY <3>1, <3>2 DEF Members
  <2>2. CASE Cached(p, job[p].digest) = {}
    BY <2>2 DEF Decoded
  <2> QED BY <2>1, <2>2
<1> HIDE DEF content
<1>4. content # Undecodable => content \in Contents
  <2>1. ASSUME NEW i \in 1..Len(cache[p]) PROVE cache[p][i].content \in Contents
    <3>1. cache[p][i] \in CacheEntry
      BY <1>1, ElementOfSeq
    <3> QED BY <3>1 DEF CacheEntry
  <2> QED BY <1>1, <1>3, <2>1
<1>5. content # Undecodable => entry \in CacheEntry
  BY <1>2, <1>4 DEF CacheEntry
<1> HIDE DEF entry
<1>6. content # Undecodable =>
        /\ Refreshed(p, entry) \in Seq(CacheEntry)
        /\ Members(Refreshed(p, entry)) \subseteq Members(cache[p]) \cup {entry}
        /\ Len(cache[p]) <= CacheSize => Len(Refreshed(p, entry)) <= CacheSize
  BY <1>1, <1>5, BoundsAssumption, RefreshedIs
<1> QED BY <1>3, <1>5, <1>6 DEF content, entry

\* decoding a mask attempts the item with it and refreshes the cache
LEMMA DecodeIs ==
    ASSUME Typed, NEW p \in Processes, DecodeMask(p)
    PROVE  LET content == Decoded(p, Recipe(Doing(p)), job[p].digest) IN
           /\ Working(p)
           /\ \E mask \in ItemMasks(Doing(p), ExplicitMask(Frames[Doing(p).sample], content)) :
                 Attempt(p, Doing(p), mask)
           /\ cache' \in [AllProcesses -> Seq(CacheEntry)]
           /\ \/ cache' = cache
              \/ LET entry == [digest |-> job[p].digest, content |-> content] IN
                 /\ cache' = [cache EXCEPT ![p] = Refreshed(p, entry)]
                 /\ Members(Refreshed(p, entry)) \subseteq Members(cache[p]) \cup {entry}
                 /\ Len(cache[p]) <= CacheSize => Len(Refreshed(p, entry)) <= CacheSize
<1> DEFINE content == Decoded(p, Recipe(Doing(p)), job[p].digest)
<1> DEFINE entry == [digest |-> job[p].digest, content |-> content]
<1> DEFINE masks == ItemMasks(Doing(p), ExplicitMask(Frames[Doing(p).sample], content))
<1>1. /\ HasWork(p) /\ job[p].digest # None /\ job[p] # None
      /\ \E mask \in masks :
            \E outcome \in Outcomes(Doing(p), mask, job[p]) : job' = [job EXCEPT ![p] = outcome]
      /\ cache' = IF content = Undecodable THEN cache
                  ELSE [cache EXCEPT ![p] = Refreshed(p, entry)]
  BY DEF DecodeMask, HasWork
<1>2. content # Undecodable =>
        /\ Refreshed(p, entry) \in Seq(CacheEntry)
        /\ Members(Refreshed(p, entry)) \subseteq Members(cache[p]) \cup {entry}
        /\ Len(cache[p]) <= CacheSize => Len(Refreshed(p, entry)) <= CacheSize
  BY <1>1, DecodedIs
<1> HIDE DEF masks
<1>3. Working(p) /\ \E mask \in masks : Attempt(p, Doing(p), mask)
  <2>1. PICK mask \in masks :
          \E outcome \in Outcomes(Doing(p), mask, job[p]) : job' = [job EXCEPT ![p] = outcome]
    BY <1>1
  <2>2. Working(p) /\ Attempt(p, Doing(p), mask)
    BY <1>1, <2>1, AttemptIs
  <2> QED BY <2>2
<1> HIDE DEF content, entry
<1>4. cache' \in [AllProcesses -> Seq(CacheEntry)]
  BY <1>1, <1>2 DEF Typed
<1> QED BY <1>1, <1>2, <1>3, <1>4 DEF content, entry, masks

\* the mask of a region that needs no file
Generated(shape, recipe) ==
    IF recipe.kind = "grid" THEN GridMask(shape, recipe.params)
    ELSE SkeletonMask(shape, recipe.params)

\* preparing an item attempts it with a generated mask
LEMMA PrepareIs ==
    ASSUME Typed, NEW p \in Processes, PrepareItem(p)
    PROVE  /\ HasWork(p) /\ Working(p) /\ Recipe(Doing(p)).kind # "explicit"
           /\ \E mask \in ItemMasks(Doing(p), Generated(Frames[Doing(p).sample], Recipe(Doing(p)))) :
                 Attempt(p, Doing(p), mask)
<1> DEFINE recipe == Recipe(Doing(p))
<1> DEFINE target == Generated(Frames[Doing(p).sample], recipe)
<1>1. /\ HasWork(p) /\ job[p] # None /\ recipe.kind # "explicit"
      /\ \E mask \in ItemMasks(Doing(p), target) :
            \E outcome \in Outcomes(Doing(p), mask, job[p]) : job' = [job EXCEPT ![p] = outcome]
  BY DEF PrepareItem, HasWork, Generated
<1> HIDE DEF target
<1>3. PICK mask \in ItemMasks(Doing(p), target) :
        \E outcome \in Outcomes(Doing(p), mask, job[p]) : job' = [job EXCEPT ![p] = outcome]
  BY <1>1
<1>4. Working(p) /\ Attempt(p, Doing(p), mask)
  BY <1>1, <1>3, AttemptIs
<1> QED BY <1>1, <1>3, <1>4 DEF target

-----------------------------------------------------------------------------
(* Quotients and remainders.                                               *)

\* quotient and remainder are unique
LEMMA OneQuotient ==
    ASSUME NEW n \in Nat \ {0}, NEW q \in Int, NEW t \in Int,
           NEW r \in 0..n - 1, NEW s \in 0..n - 1, n * q + r = n * t + s
    PROVE  q = t /\ r = s
<1>1. ~(q < t)
  <2> SUFFICES ASSUME q < t PROVE FALSE
    OBVIOUS
  <2>1. n * (q + 1) <= n * t /\ n * (q + 1) = n * q + n
    OBVIOUS
  <2>2. n * q \in Int /\ n * t \in Int
    OBVIOUS
  <2> QED BY <2>1, <2>2
<1>2. ~(t < q)
  <2> SUFFICES ASSUME t < q PROVE FALSE
    OBVIOUS
  <2>1. n * (t + 1) <= n * q /\ n * (t + 1) = n * t + n
    OBVIOUS
  <2>2. n * q \in Int /\ n * t \in Int
    OBVIOUS
  <2> QED BY <2>1, <2>2
<1>3. q = t /\ n * q \in Int
  BY <1>1, <1>2
<1> QED BY <1>3

\* what was multiplied and added is divided out again
LEMMA QuotientIs ==
    ASSUME NEW n \in Nat \ {0}, NEW q \in Int, NEW r \in 0..n - 1
    PROVE  (n * q + r) \div n = q /\ (n * q + r) % n = r
<1> DEFINE a == n * q + r
<1>1. a \in Int
  <2>1. n * q \in Int
    OBVIOUS
  <2> QED BY <2>1
<1> HIDE DEF a
<1>2. a % n \in 0..n - 1 /\ a \div n \in Int /\ a = n * (a \div n) + (a % n)
  BY <1>1, DivMod
<1>3. n * (a \div n) + (a % n) = n * q + r
  BY <1>2 DEF a
<1> DEFINE x == a \div n
<1> DEFINE y == a % n
<1> HIDE DEF x, y
<1>4. x \in Int /\ y \in 0..n - 1 /\ n * x + y = n * q + r
  BY <1>2, <1>3 DEF x, y
<1>5. x = q /\ y = r
  BY <1>4, OneQuotient
<1> QED BY <1>5 DEF x, y, a

-----------------------------------------------------------------------------
(* A chunk belongs to one process.                                         *)

\* the chunk a process takes next is its own (round robin)
LEMMA ChunkOfProcess ==
    ASSUME Typed, NEW p \in Processes
    PROVE  NextChunk(p) \in Nat \ {0} /\ ProcessOf(NextChunk(p)) = p
<1>1. /\ p \in AllProcesses /\ p \in Nat /\ config.num_workers \in Nat
      /\ (p = Main => config.num_workers = 0) /\ (p # Main => p \in 1..config.num_workers)
  BY ProcessesAreKnown
<1>2. taken[p] \in Nat
  BY <1>1 DEF Typed
<1>3. CASE p = Main
  BY <1>1, <1>2, <1>3 DEF NextChunk, ProcessOf
<1>4. CASE p # Main
  <2> DEFINE n == config.num_workers
  <2> DEFINE t == taken[p]
  <2>1. n \in Nat \ {0} /\ t \in Nat /\ p - 1 \in 0..n - 1
    BY <1>1, <1>2, <1>4
  <2>2. NextChunk(p) = t * n + p
    BY <1>4 DEF NextChunk
  <2>3. ProcessOf(NextChunk(p)) = ((NextChunk(p) - 1) % n) + 1
    BY <2>1 DEF ProcessOf
  <2> HIDE DEF n, t
  <2>4. t * n \in Nat /\ t * n = n * t
    BY <2>1
  <2>5. (n * t + (p - 1)) % n = p - 1
    <3> DEFINE r == p - 1
    <3>1. r \in 0..n - 1 /\ t \in Int /\ n \in Nat \ {0}
      BY <2>1
    <3> HIDE DEF r
    <3>2. (n * t + r) % n = r
      BY <3>1, QuotientIs
    <3> QED BY <3>2 DEF r
  <2>6. NextChunk(p) - 1 = n * t + (p - 1)
    BY <1>1, <2>2, <2>4
  <2>7. ProcessOf(NextChunk(p)) = (p - 1) + 1
    BY <2>3, <2>5, <2>6
  <2>8. NextChunk(p) \in Nat \ {0}
    BY <1>1, <1>4, <2>2, <2>4 DEF Main
  <2> QED BY <1>1, <2>7, <2>8
<1> QED BY <1>3, <1>4

\* p begins a chunk: it is found divergent, taken on, or fails as a whole
NewJob(k, own) ==
    [chunk |-> k, items |-> own, digest |-> None, prepared |-> <<>>, failed |-> <<>>]
Returned(p, k, result) ==
    /\ results' = [i \in DOMAIN results \cup {k} |-> IF i = k THEN result ELSE results[i]]
    /\ job' = [job EXCEPT ![p] = None]
LoadFailed(own) == [status |-> "load_failed", prepared |-> <<>>, failed |-> IdsOf(own)]

\* taking a chunk: it diverges, is begun, or comes back as not loaded
LEMMA TakeIs ==
    ASSUME Typed, NEW p \in Processes, Take(p)
    PROVE  LET k == NextChunk(p)
               own == Materialized(p, plan[k]) IN
           /\ phase = "planned" /\ k \in 1..Len(plan) /\ ProcessOf(k) = p /\ job[p] = None
           /\ taken' \in [AllProcesses -> Nat]
           /\ last' = [last EXCEPT ![p] = <<plan[k].sample, SampleItemsOf(p, plan[k].sample)>>]
           /\ \/ /\ IdsOf(own) # plan[k].item_ids /\ phase' = "divergent"
                 /\ UNCHANGED <<job, results>>
              \/ /\ IdsOf(own) = plan[k].item_ids /\ UNCHANGED phase
                 /\ \/ job' = [job EXCEPT ![p] = NewJob(k, own)] /\ UNCHANGED results
                    \/ Returned(p, k, LoadFailed(own))
           /\ UNCHANGED <<config, items, files, plan, cache, accepted, replaced, raced>>
<1> DEFINE k == NextChunk(p)
<1>1. k \in Nat \ {0} /\ ProcessOf(k) = p /\ p \in AllProcesses
  BY ChunkOfProcess, ProcessesAreKnown
<1>2. k <= Len(plan) /\ taken' = [taken EXCEPT ![p] = @ + 1]
  BY DEF Take
<1>3. taken' \in [AllProcesses -> Nat]
  BY <1>1, <1>2 DEF Typed
<1>4. k \in 1..Len(plan)
  BY <1>1, <1>2
<1> QED BY <1>1, <1>3, <1>4 DEF Take, Remember, Return, NewJob, Returned, LoadFailed

\* a result is added, and the job of the process is over
LEMMA ReturnTyped ==
    ASSUME Typed, NEW p \in Processes, NEW k, NEW result, Returned(p, k, result)
    PROVE  /\ Over(results', DOMAIN results') /\ DOMAIN results' = DOMAIN results \cup {k}
           /\ results'[k] = result /\ \A i \in DOMAIN results : i # k => results'[i] = results[i]
           /\ Over(job', AllProcesses) /\ job'[p] = None
           /\ \A q \in AllProcesses : q # p => job'[q] = job[q]
<1>1. p \in AllProcesses /\ Over(job, AllProcesses)
  BY ProcessesAreKnown DEF Typed
<1>2. /\ job' = [job EXCEPT ![p] = None]
      /\ results' = [i \in DOMAIN results \cup {k} |-> IF i = k THEN result ELSE results[i]]
  BY DEF Returned
<1>3. Over(job', AllProcesses) /\ job'[p] = None
      /\ \A q \in AllProcesses : q # p => job'[q] = job[q]
  BY <1>1, <1>2 DEF Over
<1>4. DOMAIN results' = DOMAIN results \cup {k} /\ Over(results', DOMAIN results')
  BY <1>2 DEF Over
<1>5. results'[k] = result /\ \A i \in DOMAIN results : i # k => results'[i] = results[i]
  BY <1>2
<1> QED BY <1>3, <1>4, <1>5

\* taking a chunk keeps the types
LEMMA TakeTyped ==
    ASSUME Typed, NEW p \in Processes, Take(p)
    PROVE  Typed'
<1> DEFINE k == NextChunk(p)
<1> DEFINE own == Materialized(p, plan[k])
<1>1. /\ taken' \in [AllProcesses -> Nat]
      /\ \/ UNCHANGED <<job, results>>
         \/ job' = [job EXCEPT ![p] = NewJob(k, own)] /\ UNCHANGED results
         \/ Returned(p, k, LoadFailed(own))
      /\ UNCHANGED <<config, files, cache, raced>>
  BY TakeIs
<1>2. k \in Nat /\ p \in AllProcesses
  BY ChunkOfProcess, ProcessesAreKnown
<1> HIDE DEF k, own
<1>3. /\ config' \in Shape(config') /\ files' \in [DOMAIN files' -> Contents]
      /\ cache' \in [AllProcesses -> Seq(CacheEntry)] /\ raced' \subseteq AllProcesses
  BY <1>1 DEF Typed
<1>4. CASE UNCHANGED <<job, results>>
  BY <1>1, <1>3, <1>4 DEF Typed
<1>5. CASE job' = [job EXCEPT ![p] = NewJob(k, own)] /\ UNCHANGED results
  <2>1. IsJob(NewJob(k, own))
    <3>1. <<>> \in Seq(Range(<<>>))
      OBVIOUS
    <3> QED BY <1>2, <3>1 DEF IsJob, NewJob
  <2>2. Over(job', AllProcesses) /\ job'[p] = NewJob(k, own)
        /\ \A q \in AllProcesses : q # p => job'[q] = job[q]
    BY <1>2, <1>5 DEF Typed, Over
  <2>3. \A q \in AllProcesses : job'[q] # None => IsJob(job'[q])
    BY <2>1, <2>2 DEF Typed
  <2>4. Over(results', DOMAIN results')
    BY <1>5 DEF Typed
  <2> QED BY <1>1, <1>3, <2>2, <2>3, <2>4 DEF Typed
<1>6. CASE Returned(p, k, LoadFailed(own))
  <2>1. /\ Over(results', DOMAIN results') /\ Over(job', AllProcesses) /\ job'[p] = None
        /\ \A q \in AllProcesses : q # p => job'[q] = job[q]
    BY <1>6, ReturnTyped
  <2>2. \A q \in AllProcesses : job'[q] # None => IsJob(job'[q])
    BY <2>1 DEF Typed
  <2> QED BY <1>1, <1>3, <2>1, <2>2 DEF Typed
<1> QED BY <1>1, <1>4, <1>5, <1>6

Done(j) == [status |-> "prepared", prepared |-> j.prepared, failed |-> j.failed]

\* finishing returns what the job has gathered
LEMMA FinishIs ==
    ASSUME Typed, NEW p \in Processes, Finish(p)
    PROVE  /\ p \in AllProcesses /\ job[p] # None /\ IsJob(job[p]) /\ ~HasWork(p)
           /\ Returned(p, job[p].chunk, Done(job[p]))
           /\ UNCHANGED <<config, items, files, phase, plan, last, cache, taken, accepted,
                          replaced, raced>>
BY ProcessesAreKnown DEF Finish, Return, Returned, Done, Typed

\* finishing keeps the types
LEMMA FinishTyped ==
    ASSUME Typed, NEW p \in Processes, Finish(p)
    PROVE  Typed'
<1>1. /\ Over(results', DOMAIN results') /\ Over(job', AllProcesses) /\ job'[p] = None
      /\ \A q \in AllProcesses : q # p => job'[q] = job[q]
  BY FinishIs, ReturnTyped
<1>2. \A q \in AllProcesses : job'[q] # None => IsJob(job'[q])
  BY <1>1 DEF Typed
<1>3. /\ config' \in Shape(config') /\ files' \in [DOMAIN files' -> Contents]
      /\ cache' \in [AllProcesses -> Seq(CacheEntry)] /\ raced' \subseteq AllProcesses
      /\ taken' \in [AllProcesses -> Nat]
  BY DEF Typed, Finish
<1> QED BY <1>1, <1>2, <1>3 DEF Typed

\* steps of the main process and of the environment keep the types
LEMMA OthersTyped ==
    ASSUME Typed,
           \/ ResolveConfig \/ EnumeratePlan \/ Accept \/ UNCHANGED vars
           \/ \E f \in DOMAIN files, c \in Contents : ReplaceFile(f, c)
    PROVE  Typed'
<1>1. CASE ResolveConfig
  <2>1. /\ config' = config \/ \E readable : config' = Resolved(config, files, readable)
        /\ UNCHANGED <<files, cache, job, taken, results, raced>>
    BY <1>1, Zenon DEF ResolveConfig, unprepared
  <2>2. config' \in Shape(config')
    <3>1. CASE config' = config
      BY <3>1 DEF Typed
    <3>2. ASSUME NEW readable, config' = Resolved(config, files, readable)
          PROVE  config' \in Shape(config')
      BY <3>2, ResolvedShape DEF Typed
    <3> QED BY <2>1, <3>1, <3>2
  <2> QED BY <2>1, <2>2 DEF Typed
<1>2. CASE EnumeratePlan
  BY <1>2 DEF EnumeratePlan, unprepared, Typed
<1>3. CASE Accept
  BY <1>3 DEF Accept, Typed
<1>4. CASE UNCHANGED vars
  BY <1>4 DEF vars, Typed
<1>5. ASSUME NEW f \in DOMAIN files, NEW c \in Contents, ReplaceFile(f, c)
      PROVE  Typed'
  <2>1. /\ files' = [files EXCEPT ![f] = c]
        /\ raced' = raced \cup {p \in AllProcesses : job[p] # None /\ job[p].digest # None
                                  /\ Recipe(Doing(p)).ref = f}
        /\ UNCHANGED <<config, cache, job, taken, results>>
    BY <1>5 DEF ReplaceFile
  <2>2. files' \in [DOMAIN files' -> Contents] /\ raced' \subseteq AllProcesses
    BY <2>1 DEF Typed
  <2> QED BY <2>1, <2>2 DEF Typed
<1> QED BY <1>1, <1>2, <1>3, <1>4, <1>5

\* steps of a worker keep the types
LEMMA WorkTyped ==
    ASSUME Typed, NEW p \in Processes, Works(p)
    PROVE  Typed'
<1>1. CASE Take(p)
  BY <1>1, TakeTyped
<1>2. CASE PrepareItem(p)
  <2>1. Working(p)
    BY <1>2, PrepareIs
  <2> QED BY <1>2, <2>1, WorkingTyped DEF PrepareItem, Typed
<1>3. CASE CheckDigest(p)
  <2>1. Working(p)
    BY <1>3, CheckIs
  <2> QED BY <1>3, <2>1, WorkingTyped DEF CheckDigest, Typed
<1>4. CASE DecodeMask(p)
  <2>1. Working(p) /\ cache' \in [AllProcesses -> Seq(CacheEntry)]
    BY <1>4, DecodeIs
  <2> QED BY <1>4, <2>1, WorkingTyped DEF DecodeMask
<1>5. CASE Finish(p)
  BY <1>5, FinishTyped
<1> QED BY <1>1, <1>2, <1>3, <1>4, <1>5 DEF Works

\* every step keeps the types
LEMMA NextTyped == Typed /\ [Next]_vars => Typed'
<1> SUFFICES ASSUME Typed, [Next]_vars PROVE Typed'
  OBVIOUS
<1>1. CASE \E p \in Processes : Works(p)
  BY <1>1, WorkTyped
<1>2. CASE ~\E p \in Processes : Works(p)
  BY <1>2, OthersTyped DEF Next, Step
<1> QED BY <1>1, <1>2

-----------------------------------------------------------------------------
(* Masks are what they claim.                                              *)

\* an entry of a file's region has the pixels of the file the plan names
Genuine(e) ==
    e.item.region.kind = "explicit" =>
        LET pixels == Bitmap[e.item.region.ref_hash].pixels IN
        e.mask.at[1] = IF e.item.invert THEN Pixels(Frames[e.item.sample]) \ pixels
                       ELSE pixels

\* A checked digest is that of the plan, and the file still has it.
Holds(p) ==
    LET recipe == Recipe(Doing(p)) IN
    /\ job[p].digest = recipe.ref_hash
    /\ recipe.ref \in DOMAIN files /\ files[recipe.ref] = recipe.ref_hash
Caches == \A p \in AllProcesses \ raced :
    \A i \in 1..Len(cache[p]) : cache[p][i].content = cache[p][i].digest
Jobs ==
    /\ \A p \in AllProcesses : job[p] # None => ProcessOf(job[p].chunk) = p
    /\ \A p \in AllProcesses \ raced : job[p] # None =>
          /\ \A e \in Range(job[p].prepared) : Genuine(e)
          /\ job[p].digest # None => Holds(p)
Outputs == \A k \in DOMAIN results : ProcessOf(k) \notin raced =>
    \A e \in Range(results[k].prepared) : Genuine(e)
MasksInv == Caches /\ Jobs /\ Outputs

\* nothing is cached or prepared in the beginning
LEMMA InitMasks == Init => MasksInv
<1> SUFFICES ASSUME Init PROVE MasksInv
  OBVIOUS
<1>1. Caches
  BY DEF Init, Caches
<1>2. Jobs /\ Outputs
  BY DEF Init, Jobs, Outputs
<1> QED BY <1>1, <1>2 DEF MasksInv

\* the range of a sequence with one more member
LEMMA AppendRangeIs ==
    ASSUME NEW s, s \in Seq(Range(s)), NEW x
    PROVE  Range(Append(s, x)) = Range(s) \cup {x}
<1> DEFINE A == Range(s) \cup {x}
<1>1. Range(s) \subseteq A /\ x \in A
  OBVIOUS
<1> HIDE DEF A
<1>2. s \in Seq(A)
  BY <1>1, SeqMonotonic
<1>3. Append(s, x) \in Seq(A)
  BY <1>1, <1>2, AppendProperties
<1>4. Members(Append(s, x)) = Members(s) \cup {x}
  BY <1>1, <1>2, MembersOfAppend
<1> QED BY <1>2, <1>3, <1>4, RangeIsMembers

\* If the mask of a file's item has the file's pixels, so has what becomes of it.
LEMMA AttemptGenuine ==
    ASSUME NEW item, NEW mask, NEW e, EntryOf(e, item, mask), FitsSample(Frames[item.sample], mask),
           item.region.kind = "explicit" =>
              mask \in {Failed, Whole(Bitmap[item.region.ref_hash].pixels)}
    PROVE  Genuine(e)
<1> SUFFICES ASSUME e.item.region.kind = "explicit" PROVE Genuine(e)
  BY DEF Genuine
<1> DEFINE pixels == Bitmap[item.region.ref_hash].pixels
<1> DEFINE frame == Pixels(Frames[item.sample])
<1>1. e.item = item /\ e.mask = UsedMask(item, mask)
  BY DEF EntryOf
<1>2. mask = Whole(pixels)
  BY <1>1 DEF FitsSample, IsMask
<1> HIDE DEF pixels
<1>3. mask = [per_frame |-> FALSE, at |-> <<pixels>>] /\ mask.at = <<pixels>>
  BY <1>2 DEF Whole
<1>4. CASE item.invert
  <2>1. e.mask = [mask EXCEPT !.at = [i \in DOMAIN mask.at |-> frame \ mask.at[i]]]
    BY <1>1, <1>4 DEF UsedMask, Inverted
  <2> HIDE DEF frame
  <2>2. e.mask.at = [i \in DOMAIN <<pixels>> |-> frame \ <<pixels>>[i]]
    BY <1>3, <2>1
  <2>3. e.mask.at[1] = frame \ pixels
    BY <2>2
  <2> QED BY <1>1, <1>4, <2>3 DEF Genuine, pixels, frame
<1>5. CASE ~item.invert
  <2>1. e.mask.at[1] = pixels
    BY <1>1, <1>3, <1>5 DEF UsedMask
  <2> QED BY <1>1, <1>5, <2>1 DEF Genuine, pixels
<1> QED BY <1>4, <1>5

\* a step of p on its own job, which has no checked digest afterwards or holds it
LEMMA WorkingMasks ==
    ASSUME Typed, MasksInv, NEW p \in Processes, Working(p),
           UNCHANGED <<config, files, results, raced>>,
           job'[p].chunk = job[p].chunk,
           p \notin raced => /\ \A e \in Range(job'[p].prepared) : Genuine(e)
                             /\ job'[p].digest # None => Holds(p)',
           p \notin raced => \A i \in 1..Len(cache'[p]) : cache'[p][i].content = cache'[p][i].digest,
           \A q \in AllProcesses : q # p => cache'[q] = cache[q]
    PROVE  MasksInv'
<1>0. p \in AllProcesses /\ Over(job, AllProcesses)
  BY ProcessesAreKnown DEF Typed
<1>1. \A q \in AllProcesses : q # p => job'[q] = job[q]
  BY <1>0 DEF Working, Over
<1>2. Caches'
  <2> SUFFICES ASSUME NEW q \in AllProcesses \ raced
               PROVE  \A i \in 1..Len(cache'[q]) : cache'[q][i].content = cache'[q][i].digest
    BY DEF Caches
  <2> QED BY DEF MasksInv, Caches
<1>3. config' = config
  OBVIOUS
<1>4. \A q \in AllProcesses : job'[q] # None => ProcessOf(job[q].chunk)' = q
  <2> TAKE q \in AllProcesses
  <2>1. CASE q = p
    BY <1>0, <1>3, <2>1 DEF Working, MasksInv, Jobs, ProcessOf
  <2>2. CASE q # p
    BY <1>1, <1>3, <2>2 DEF MasksInv, Jobs, ProcessOf
  <2> QED BY <2>1, <2>2
<1>5. ASSUME NEW q \in AllProcesses \ raced', job'[q] # None
      PROVE  /\ \A e \in Range(job'[q].prepared) : Genuine(e)
             /\ job'[q].digest # None => Holds(q)'
  <2>1. CASE q = p
    BY <1>5, <2>1
  <2>2. CASE q # p
    <3>1. job'[q] = job[q] /\ q \in AllProcesses \ raced /\ job[q] # None
      BY <1>1, <1>5, <2>2
    <3>2. Holds(q)' <=> Holds(q)
      BY <3>1 DEF Holds, Doing
    <3> QED BY <3>1, <3>2 DEF MasksInv, Jobs
  <2> QED BY <2>1, <2>2
<1>6. Outputs'
  BY <1>3 DEF MasksInv, Outputs, ProcessOf
<1> QED BY <1>2, <1>4, <1>5, <1>6 DEF MasksInv, Jobs, Genuine

\* an attempt with the mask of the right file adds a genuine entry
LEMMA AttemptMasks ==
    ASSUME Typed, MasksInv, NEW p \in Processes, Working(p), NEW mask, Attempt(p, Doing(p), mask),
           (p \notin raced /\ Doing(p).region.kind = "explicit") =>
              mask \in {Failed, Whole(Bitmap[Doing(p).region.ref_hash].pixels)}
    PROVE  /\ job'[p].chunk = job[p].chunk
           /\ p \notin raced => /\ \A e \in Range(job'[p].prepared) : Genuine(e)
                                /\ job'[p].digest # None => Holds(p)'
<1> DEFINE item == Doing(p)
<1>1. p \in AllProcesses /\ IsJob(job[p]) /\ job[p] # None
  BY ProcessesAreKnown DEF Typed, Working
<1>2. p \notin raced => \A e \in Range(job[p].prepared) : Genuine(e)
  BY <1>1 DEF MasksInv, Jobs
<1> HIDE DEF item
<1>3. CASE job'[p] = Failing(job[p], item.item_id)
  BY <1>2, <1>3 DEF Failing
<1>4. ASSUME Possible(item, mask), NEW e, EntryOf(e, item, mask),
             job'[p] = Adding(job[p], e)
      PROVE  /\ job'[p].chunk = job[p].chunk
             /\ p \notin raced => /\ \A d \in Range(job'[p].prepared) : Genuine(d)
                                  /\ job'[p].digest # None => Holds(p)'
  <2>1. p \notin raced => Genuine(e)
    BY <1>4, AttemptGenuine DEF item, Possible
  <2>2. Range(Append(job[p].prepared, e)) = Range(job[p].prepared) \cup {e}
    <3>1. job[p].prepared \in Seq(Range(job[p].prepared))
      BY <1>1 DEF IsJob
    <3> QED BY <3>1, AppendRangeIs
  <2>3. /\ job'[p].chunk = job[p].chunk /\ job'[p].digest = None
        /\ job'[p].prepared = Append(job[p].prepared, e)
    BY <1>4 DEF Adding
  <2> QED BY <1>2, <2>1, <2>2, <2>3
<1> QED BY <1>3, <1>4 DEF Attempt, item

\* preparing without a file keeps masks what they claim
LEMMA PrepareMasks ==
    ASSUME Typed, MasksInv, NEW p \in Processes, PrepareItem(p)
    PROVE  MasksInv'
<1>1. PICK mask :
        Working(p) /\ Recipe(Doing(p)).kind # "explicit" /\ Attempt(p, Doing(p), mask)
  BY PrepareIs
<1>2. Doing(p).region.kind # "explicit"
  BY <1>1 DEF Recipe
<1>3. /\ job'[p].chunk = job[p].chunk
      /\ p \notin raced => /\ \A e \in Range(job'[p].prepared) : Genuine(e)
                           /\ job'[p].digest # None => Holds(p)'
  BY <1>1, <1>2, AttemptMasks
<1>4. UNCHANGED <<config, files, results, raced, cache>>
  BY DEF PrepareItem
<1>5. p \notin raced => \A i \in 1..Len(cache'[p]) : cache'[p][i].content = cache'[p][i].digest
  BY <1>4, ProcessesAreKnown DEF MasksInv, Caches
<1> QED BY <1>1, <1>3, <1>4, <1>5, WorkingMasks

\* checking a digest keeps masks what they claim
LEMMA CheckMasks ==
    ASSUME Typed, MasksInv, NEW p \in Processes, CheckDigest(p)
    PROVE  MasksInv'
<1>1. Working(p) /\ (Checked(p) \/ job'[p] = Failing(job[p], Doing(p).item_id))
  BY CheckIs
<1>2. UNCHANGED <<config, files, results, raced, cache>>
  BY DEF CheckDigest
<1>0. p \in AllProcesses /\ (p \notin raced => \A e \in Range(job[p].prepared) : Genuine(e))
  BY <1>1, ProcessesAreKnown DEF MasksInv, Jobs, Working
<1>3. CASE Checked(p)
  <2>1. /\ job'[p].chunk = job[p].chunk /\ job'[p].items = job[p].items
        /\ job'[p].prepared = job[p].prepared /\ job'[p].failed = job[p].failed
        /\ job'[p].digest = Recipe(Doing(p)).ref_hash
    BY <1>3 DEF Checked
  <2>2. Doing(p)' = Doing(p)
    BY <2>1 DEF Doing
  <2>3. Holds(p)'
    BY <1>2, <1>3, <2>1, <2>2 DEF Holds, Checked, Recipe
  <2>4. p \notin raced => \A i \in 1..Len(cache'[p]) : cache'[p][i].content = cache'[p][i].digest
    BY <1>0, <1>2 DEF MasksInv, Caches
  <2> QED BY <1>0, <1>1, <1>2, <2>1, <2>3, <2>4, WorkingMasks
<1>4. CASE job'[p] = Failing(job[p], Doing(p).item_id)
  <2>1. /\ job'[p].chunk = job[p].chunk /\ job'[p].digest = None
        /\ job'[p].prepared = job[p].prepared
    BY <1>4 DEF Failing
  <2>2. p \notin raced => \A i \in 1..Len(cache'[p]) : cache'[p][i].content = cache'[p][i].digest
    BY <1>0, <1>2 DEF MasksInv, Caches
  <2> QED BY <1>0, <1>1, <1>2, <2>1, <2>2, WorkingMasks
<1> QED BY <1>1, <1>3, <1>4

\* what p decodes for a digest that holds is what the plan names
LEMMA DecodeMasks ==
    ASSUME Typed, MasksInv, NEW p \in Processes, DecodeMask(p)
    PROVE  MasksInv'
<1> DEFINE content == Decoded(p, Recipe(Doing(p)), job[p].digest)
<1> DEFINE entry == [digest |-> job[p].digest, content |-> content]
<1>1. /\ Working(p)
      /\ \E mask \in ItemMasks(Doing(p), ExplicitMask(Frames[Doing(p).sample], content)) :
            Attempt(p, Doing(p), mask)
      /\ \/ cache' = cache
         \/ /\ cache' = [cache EXCEPT ![p] = Refreshed(p, entry)]
            /\ Members(Refreshed(p, entry)) \subseteq Members(cache[p]) \cup {entry}
  BY DecodeIs
<1>2. /\ UNCHANGED <<config, files, results, raced>> /\ HasWork(p) /\ job[p].digest # None
      /\ job[p] # None
  BY DEF DecodeMask, HasWork
<1>0. p \in AllProcesses /\ cache \in [AllProcesses -> Seq(CacheEntry)]
  BY ProcessesAreKnown DEF Typed
<1>3. \/ \E i \in 1..Len(cache[p]) : cache[p][i].digest = job[p].digest
                                     /\ content = cache[p][i].content
      \/ Recipe(Doing(p)).ref \in DOMAIN files /\ content = files[Recipe(Doing(p)).ref]
      \/ Recipe(Doing(p)).ref \notin DOMAIN files /\ content = Undecodable
  BY <1>2, DecodedIs
<1> HIDE DEF content
<1>4. p \notin raced => content = job[p].digest /\ job[p].digest = Recipe(Doing(p)).ref_hash
  BY <1>0, <1>2, <1>3 DEF MasksInv, Caches, Jobs, Holds
<1>5. PICK mask \in ItemMasks(Doing(p), ExplicitMask(Frames[Doing(p).sample], content)) :
        Attempt(p, Doing(p), mask)
  BY <1>1
<1>6. (p \notin raced /\ Doing(p).region.kind = "explicit") =>
         mask \in {Failed, Whole(Bitmap[Doing(p).region.ref_hash].pixels)}
  <2> SUFFICES ASSUME p \notin raced, Doing(p).region.kind = "explicit"
               PROVE  mask \in {Failed, Whole(Bitmap[Doing(p).region.ref_hash].pixels)}
    OBVIOUS
  <2>1. content = Doing(p).region.ref_hash
    BY <1>4 DEF Recipe
  <2>2. mask = ExplicitMask(Frames[Doing(p).sample], content)
    BY <1>5 DEF ItemMasks
  <2> QED BY <2>1, <2>2 DEF ExplicitMask
<1>7. /\ job'[p].chunk = job[p].chunk
      /\ p \notin raced => /\ \A e \in Range(job'[p].prepared) : Genuine(e)
                           /\ job'[p].digest # None => Holds(p)'
  BY <1>1, <1>5, <1>6, AttemptMasks
<1>8. \A q \in AllProcesses : q # p => cache'[q] = cache[q]
  BY <1>0, <1>1
<1>9. ASSUME p \notin raced, NEW i \in 1..Len(cache'[p])
      PROVE  cache'[p][i].content = cache'[p][i].digest
  <2>1. \A e \in Members(cache[p]) : e.content = e.digest
    BY <1>0, <1>9 DEF Members, MasksInv, Caches
  <2>2. cache'[p][i] \in Members(cache'[p])
    BY DEF Members
  <2>3. entry.content = entry.digest
    BY <1>4, <1>9
  <2> HIDE DEF entry
  <2>4. Members(cache'[p]) \subseteq Members(cache[p]) \cup {entry}
    BY <1>0, <1>1
  <2> QED BY <2>1, <2>2, <2>3, <2>4
<1> QED BY <1>1, <1>2, <1>7, <1>8, <1>9, WorkingMasks

\* returning genuine entries keeps masks what they claim
LEMMA ReturnMasks ==
    ASSUME Typed, MasksInv, NEW p \in Processes, NEW k, NEW result, Returned(p, k, result),
           UNCHANGED <<config, files, cache, raced>>,
           ProcessOf(k) = p, p \notin raced => \A e \in Range(result.prepared) : Genuine(e)
    PROVE  MasksInv'
<1>1. /\ DOMAIN results' = DOMAIN results \cup {k}
      /\ results'[k] = result /\ \A i \in DOMAIN results : i # k => results'[i] = results[i]
      /\ job'[p] = None /\ \A q \in AllProcesses : q # p => job'[q] = job[q]
  <2>1. /\ DOMAIN results' = DOMAIN results \cup {k} /\ results'[k] = result
        /\ job'[p] = None
    <3>1. job'[p] = None
      BY ReturnTyped
    <3> QED BY <3>1 DEF Returned
  <2>2. \A i \in DOMAIN results : i # k => results'[i] = results[i]
    BY ReturnTyped, ZenonT(30)
  <2>3. \A q \in AllProcesses : q # p => job'[q] = job[q]
    BY ReturnTyped
  <2> QED BY <2>1, <2>2, <2>3
<1>2. Caches'
  BY DEF MasksInv, Caches
<1>3. \A q \in AllProcesses : job'[q] # None => job'[q] = job[q]
  BY <1>1
<1>4. Jobs'
  <2>1. \A q \in AllProcesses : job'[q] # None => ProcessOf(job[q].chunk)' = q
    BY <1>3 DEF MasksInv, Jobs, ProcessOf
  <2>2. ASSUME NEW q \in AllProcesses \ raced, job'[q] # None
        PROVE  /\ \A e \in Range(job'[q].prepared) : Genuine(e)
               /\ job'[q].digest # None => Holds(q)'
    <3>1. job'[q] = job[q] /\ job[q] # None
      BY <1>3, <2>2
    <3>2. Holds(q)' <=> Holds(q)
      BY <3>1 DEF Holds, Doing
    <3> QED BY <3>1, <3>2 DEF MasksInv, Jobs
  <2> QED BY <1>3, <2>1, <2>2 DEF Jobs, ProcessOf, Genuine
<1>5. ASSUME NEW i \in DOMAIN results', ProcessOf(i)' \notin raced', NEW e \in Range(results'[i].prepared)
      PROVE  Genuine(e)
  <2>1. ProcessOf(i) \notin raced
    BY <1>5 DEF ProcessOf
  <2>2. CASE i = k
    BY <1>1, <1>5, <2>1, <2>2
  <2>3. CASE i # k
    BY <1>1, <1>5, <2>1, <2>3 DEF MasksInv, Outputs
  <2> QED BY <2>2, <2>3
<1>6. Outputs'
  BY <1>5 DEF Outputs, Genuine
<1> QED BY <1>2, <1>4, <1>6 DEF MasksInv

\* taking a chunk keeps masks what they claim
LEMMA TakeMasks ==
    ASSUME Typed, MasksInv, NEW p \in Processes, Take(p)
    PROVE  MasksInv'
<1> DEFINE k == NextChunk(p)
<1> DEFINE own == Materialized(p, plan[k])
<1>1. /\ ProcessOf(k) = p
      /\ \/ UNCHANGED <<job, results>>
         \/ job' = [job EXCEPT ![p] = NewJob(k, own)] /\ UNCHANGED results
         \/ Returned(p, k, LoadFailed(own))
      /\ UNCHANGED <<config, files, cache, raced>>
  BY TakeIs
<1>0. p \in AllProcesses /\ Over(job, AllProcesses)
  BY ProcessesAreKnown DEF Typed
<1> HIDE DEF k, own
<1>2. CASE UNCHANGED <<job, results>>
  BY <1>1, <1>2 DEF MasksInv, Caches, Jobs, Outputs, ProcessOf, Genuine, Holds, Doing
<1>3. CASE job' = [job EXCEPT ![p] = NewJob(k, own)] /\ UNCHANGED results
  <2>1. job'[p] = NewJob(k, own) /\ \A q \in AllProcesses : q # p => job'[q] = job[q]
    BY <1>0, <1>3 DEF Over
  <2>2. /\ job'[p].chunk = k /\ job'[p].digest = None /\ job'[p].prepared = <<>>
    BY <2>1 DEF NewJob
  <2>3. Caches' /\ Outputs'
    BY <1>1, <1>3 DEF MasksInv, Caches, Outputs, ProcessOf, Genuine
  <2>4. ASSUME NEW q \in AllProcesses, job'[q] # None
        PROVE  /\ ProcessOf(job[q].chunk)' = q
               /\ q \notin raced => /\ \A e \in Range(job'[q].prepared) : Genuine(e)
                                    /\ job'[q].digest # None => Holds(q)'
    <3>1. CASE q = p
      BY <1>1, <2>2, <3>1 DEF ProcessOf, Range
    <3>2. CASE q # p
      <4>1. job'[q] = job[q]
        BY <2>1, <3>2
      <4>2. Holds(q)' <=> Holds(q)
        BY <1>1, <4>1 DEF Holds, Doing
      <4> QED BY <1>1, <2>4, <4>1, <4>2 DEF MasksInv, Jobs, ProcessOf
    <3> QED BY <3>1, <3>2
  <2>5. Jobs'
    BY <1>1, <2>4 DEF Jobs, Genuine
  <2> QED BY <2>3, <2>5 DEF MasksInv
<1>4. CASE Returned(p, k, LoadFailed(own))
  <2>1. \A e \in Range(LoadFailed(own).prepared) : Genuine(e)
    BY DEF LoadFailed, Range
  <2> QED BY <1>1, <1>4, <2>1, ReturnMasks
<1> QED BY <1>1, <1>2, <1>3, <1>4

\* finishing a chunk keeps masks what they claim
LEMMA FinishMasks ==
    ASSUME Typed, MasksInv, NEW p \in Processes, Finish(p)
    PROVE  MasksInv'
<1>1. /\ p \in AllProcesses /\ job[p] # None
      /\ Returned(p, job[p].chunk, Done(job[p]))
      /\ UNCHANGED <<config, files, cache, raced>>
  BY FinishIs
<1>2. Done(job[p]).prepared = job[p].prepared
  BY DEF Done
<1>3. /\ ProcessOf(job[p].chunk) = p
      /\ p \notin raced => \A e \in Range(Done(job[p]).prepared) : Genuine(e)
  BY <1>1, <1>2 DEF MasksInv, Jobs
<1> DEFINE k == job[p].chunk
<1> DEFINE result == Done(job[p])
<1> HIDE DEF k, result
<1>4. /\ Returned(p, k, result) /\ ProcessOf(k) = p
      /\ p \notin raced => \A e \in Range(result.prepared) : Genuine(e)
  BY <1>1, <1>3 DEF k, result
<1> QED BY <1>1, <1>4, ReturnMasks

\* a process whose checked file is replaced has raced, and is spoken of no more
LEMMA ReplaceMasks ==
    ASSUME Typed, MasksInv, NEW f \in DOMAIN files, NEW c \in Contents, ReplaceFile(f, c)
    PROVE  MasksInv'
<1>1. /\ files' = [files EXCEPT ![f] = c]
      /\ raced' = raced \cup {p \in AllProcesses : job[p] # None /\ job[p].digest # None
                                /\ Recipe(Doing(p)).ref = f}
      /\ UNCHANGED <<config, cache, job, results>>
  BY DEF ReplaceFile
<1>2. raced \subseteq raced' /\ DOMAIN files' = DOMAIN files
  BY <1>1 DEF Typed
<1>3. Caches' /\ Outputs'
  BY <1>1, <1>2 DEF MasksInv, Caches, Outputs, ProcessOf, Genuine
<1>4. ASSUME NEW q \in AllProcesses \ raced', job[q] # None, job[q].digest # None PROVE Holds(q)'
  <2>1. Holds(q) /\ Recipe(Doing(q)).ref # f
    BY <1>1, <1>2, <1>4 DEF MasksInv, Jobs
  <2>2. Doing(q)' = Doing(q) /\ job'[q] = job[q]
    BY <1>1 DEF Doing
  <2>3. files'[Recipe(Doing(q)).ref] = files[Recipe(Doing(q)).ref]
    BY <1>1, <2>1 DEF Typed, Holds
  <2> QED BY <1>2, <2>1, <2>2, <2>3 DEF Holds, Recipe
<1>5. Jobs'
  BY <1>1, <1>2, <1>4 DEF MasksInv, Jobs, ProcessOf, Genuine
<1> QED BY <1>3, <1>5 DEF MasksInv

\* a step that leaves files, caches, jobs and results keeps masks what they claim
LEMMA SameMasks ==
    ASSUME MasksInv, config'.num_workers = config.num_workers,
           UNCHANGED <<files, cache, job, results, raced>>
    PROVE  MasksInv'
BY DEF MasksInv, Caches, Jobs, Outputs, ProcessOf, Genuine, Holds, Doing

\* steps of the main process keep masks what they claim, and so does a
\* replaced file: those who had checked it are in raced
LEMMA OthersMasks ==
    ASSUME Typed, MasksInv,
           \/ ResolveConfig \/ EnumeratePlan \/ Accept \/ UNCHANGED vars
           \/ \E f \in DOMAIN files, c \in Contents : ReplaceFile(f, c)
    PROVE  MasksInv'
<1>1. CASE ResolveConfig
  <2>1. /\ config' = config \/ \E readable : config' = Resolved(config, files, readable)
        /\ UNCHANGED <<files, cache, job, results, raced>>
    BY <1>1, Zenon DEF ResolveConfig, unprepared
  <2>2. config'.num_workers = config.num_workers
    <3>1. ASSUME NEW readable, config' = Resolved(config, files, readable)
          PROVE  config'.num_workers = config.num_workers
      <4>1. config \in Shape(config)
        BY DEF Typed
      <4>2. Resolved(config, files, readable).num_workers = config.num_workers
        BY <4>1, ResolvedShape
      <4> QED BY <3>1, <4>2
    <3> QED BY <2>1, <3>1
  <2> QED BY <2>1, <2>2, SameMasks
<1>2. CASE EnumeratePlan
  BY <1>2, SameMasks DEF EnumeratePlan, unprepared
<1>3. CASE Accept
  BY <1>3, SameMasks DEF Accept
<1>4. CASE UNCHANGED vars
  BY <1>4, SameMasks DEF vars
<1> QED BY <1>1, <1>2, <1>3, <1>4, ReplaceMasks

\* every step keeps masks what they claim
LEMMA NextMasks == Typed /\ MasksInv /\ [Next]_vars => MasksInv'
<1> SUFFICES ASSUME Typed, MasksInv, [Next]_vars PROVE MasksInv'
  OBVIOUS
<1>1. ASSUME NEW p \in Processes, Works(p) PROVE MasksInv'
  BY <1>1, TakeMasks, PrepareMasks, CheckMasks, DecodeMasks, FinishMasks DEF Works
<1>2. CASE ~\E p \in Processes : Works(p)
  BY <1>2, OthersMasks DEF Next, Step
<1> QED BY <1>1, <1>2

\* the invariant says of every mask what the property says
LEMMA MasksInvSuffices == Typed /\ MasksInv => MasksAreWhatTheyClaim
<1> SUFFICES ASSUME Typed, MasksInv PROVE MasksAreWhatTheyClaim
  OBVIOUS
<1>1. ASSUME NEW p \in AllProcesses \ raced, NEW e \in Range(cache[p])
      PROVE  e.content = e.digest
  <2>1. cache[p] \in Seq(CacheEntry)
    BY DEF Typed
  <2>2. e \in Members(cache[p])
    BY <2>1, RangeIsMembers
  <2> QED BY <2>2 DEF Members, MasksInv, Caches
<1>2. ASSUME NEW k \in DOMAIN results, ProcessOf(k) \notin raced, NEW e \in Entries[k]
      PROVE  Genuine(e)
  BY <1>2 DEF Entries, MasksInv, Outputs
<1> QED BY <1>1, <1>2 DEF MasksAreWhatTheyClaim, Genuine

\* A mask taken from a file is the one whose digest the plan carries, for any
\* files, cache size and number of workers, and however often files are
\* replaced: except where a file was replaced between the check of its digest
\* and its decoding (region/mask_generators.py:204-231).
THEOREM MasksClaimSafe == Spec => []MasksAreWhatTheyClaim
<1>1. Init => Typed /\ MasksInv
  BY InitTyped, InitMasks
<1>2. (Typed /\ MasksInv) /\ [Next]_vars => (Typed /\ MasksInv)'
  BY NextTyped, NextMasks
<1>3. Typed /\ MasksInv => MasksAreWhatTheyClaim
  BY MasksInvSuffices
<1> QED BY <1>1, <1>2, <1>3, PTL DEF Spec

-----------------------------------------------------------------------------
(* Items and chunks are sequences.                                         *)

\* Distinct counts what Once compares
LEMMA DistinctIsOnce ==
    ASSUME NEW s, IsSeq(s)
    PROVE  Distinct(s) <=> Once(s)
<1>1. /\ Len(s) \in Nat /\ DOMAIN s = 1..Len(s) /\ s = [i \in 1..Len(s) |-> s[i]]
      /\ Range(s) = Members(s)
  BY SequenceIs
<1>2. s \in [1..Len(s) -> Members(s)]
  <2>1. \A i \in 1..Len(s) : s[i] \in Members(s)
    BY DEF Members
  <2> QED BY <1>1, <2>1
<1>3. s \in Surjection(1..Len(s), Members(s))
  BY <1>2 DEF Surjection, Members
<1>4. IsFiniteSet(1..Len(s)) /\ Cardinality(1..Len(s)) = Len(s)
  BY <1>1, FS_Interval
<1>5. Cardinality(Members(s)) = Len(s) <=> s \in Injection(1..Len(s), Members(s))
  BY <1>3, <1>4, FS_Surjection
<1>6. s \in Injection(1..Len(s), Members(s)) <=> Once(s)
  <2>1. s \in Injection(1..Len(s), Members(s)) <=> IsInjective(s)
    BY <1>2 DEF Injection
  <2>2. IsInjective(s) <=> Once(s)
    BY <1>1 DEF IsInjective, Once
  <2> QED BY <2>1, <2>2
<1> QED BY <1>1, <1>5, <1>6 DEF Distinct

\* the identities of items
LEMMA IdsAre ==
    ASSUME NEW s, IsSeq(s)
    PROVE  /\ IsSeq(IdsOf(s)) /\ Len(IdsOf(s)) = Len(s)
           /\ \A i \in 1..Len(s) : IdsOf(s)[i] = s[i].item_id
<1>1. Len(s) \in Nat /\ DOMAIN s = 1..Len(s)
  BY SequenceIs
<1>2. IdsOf(s) = [i \in 1..Len(s) |-> s[i].item_id]
  BY <1>1 DEF IdsOf
<1>3. IdsOf(s) = [i \in 1..Len(s) |-> IdsOf(s)[i]]
  BY <1>2
<1>4. IsSeq(IdsOf(s)) /\ Len(IdsOf(s)) = Len(s)
  BY <1>1, <1>3, MadeSequence
<1> QED BY <1>2, <1>4

\* what is cut out of items that are there once is there once
LEMMA SliceIs ==
    ASSUME NEW s, IsSeq(s), NEW ordinal \in Nat \ {0}, NEW size \in Nat \ {0}
    PROVE  /\ IsSeq(Slice(s, ordinal, size))
           /\ Once(IdsOf(s)) => Once(IdsOf(Slice(s, ordinal, size)))
<1> DEFINE first == (ordinal - 1) * size + 1
<1> DEFINE end == IF ordinal * size < Len(s) THEN ordinal * size ELSE Len(s)
<1> DEFINE t == Slice(s, ordinal, size)
<1>1. first \in Nat \ {0} /\ end \in Nat /\ end <= Len(s) /\ Len(s) \in Nat
      /\ t = SubSeq(s, first, end)
  BY SequenceIs DEF Slice
<1> HIDE DEF first, end
<1>2. \A i \in first..end : s[i] \in Members(s)
  BY <1>1 DEF Members
<1>3. /\ t \in Seq(Members(s))
      /\ Len(t) = IF first <= end THEN end - first + 1 ELSE 0
      /\ \A i \in 1..end - first + 1 : t[i] = s[first + i - 1]
  <2>1. first \in Int /\ end \in Int
    BY <1>1
  <2> HIDE DEF t
  <2> QED BY <1>1, <1>2, <2>1, SubSeqProperties
<1> HIDE DEF t
<1>4. IsSeq(t)
  BY <1>3, SequenceOf
<1>5. ASSUME Once(IdsOf(s)), NEW i \in 1..Len(t), NEW j \in 1..Len(t), IdsOf(t)[i] = IdsOf(t)[j]
      PROVE  i = j
  <2> DEFINE a == first + i - 1
  <2> DEFINE b == first + j - 1
  <2>1. a \in 1..Len(s) /\ b \in 1..Len(s) /\ t[i] = s[a] /\ t[j] = s[b]
    <3>1. first <= end /\ i \in 1..end - first + 1 /\ j \in 1..end - first + 1
      BY <1>1, <1>3
    <3>2. t[i] = s[a] /\ t[j] = s[b]
      BY <1>3, <3>1
    <3>3. a \in 1..Len(s) /\ b \in 1..Len(s)
      BY <1>1, <3>1
    <3> QED BY <3>2, <3>3
  <2>2. IdsOf(t)[i] = t[i].item_id /\ IdsOf(t)[j] = t[j].item_id
    BY <1>4, IdsAre
  <2> HIDE DEF a, b
  <2>3. IdsOf(s)[a] = IdsOf(s)[b] /\ Len(IdsOf(s)) = Len(s)
    BY <1>5, <2>1, <2>2, IdsAre
  <2>4. a = b
    BY <1>5, <2>1, <2>3 DEF Once
  <2> QED BY <1>1, <2>4 DEF a, b
<1>6. Len(IdsOf(t)) = Len(t)
  BY <1>4, IdsAre
<1>7. Once(IdsOf(s)) => Once(IdsOf(t))
  BY <1>5, <1>6 DEF Once
<1> QED BY <1>4, <1>7 DEF t

\* what a configuration that resolves has
Expandable(c) ==
    /\ IsSeq(c.regions) /\ IsSeq(c.perturbations) /\ IsSeq(c.controls)
    /\ \A f \in DOMAIN c.regions :
          /\ c.regions[f].kind \in Families
          /\ c.regions[f].kind = "grid" => c.regions[f].params.rows * c.regions[f].params.cols \in Nat
    /\ \A p \in DOMAIN c.perturbations : IsSeq(c.perturbations[p].salts)
    /\ \A k \in DOMAIN c.controls :
          /\ c.controls[k].n_samples \in Nat
          /\ \E f \in DOMAIN c.regions : c.regions[f].region_id = c.controls[k].match_area_of

\* resolving a family changes only the digest of its file
LEMMA RegionKept ==
    ASSUME NEW r, r \in FamilyShape(r), NEW fs
    PROVE  /\ ResolvedRegion(r, fs).region_id = r.region_id
           /\ ResolvedRegion(r, fs).kind = r.kind /\ ResolvedRegion(r, fs).params = r.params
           /\ ResolvedRegion(r, fs).ref = r.ref
<1>1. r \in [region_id : {r.region_id}, kind : {r.kind}, params : {r.params}, ref : {r.ref},
             ref_hash : {r.ref_hash}]
  BY DEF FamilyShape
<1>2. CASE r.ref = None
  BY <1>2 DEF ResolvedRegion
<1>3. CASE r.ref # None
  <2>1. ResolvedRegion(r, fs) = [r EXCEPT !.ref_hash = fs[r.ref]]
    BY <1>3 DEF ResolvedRegion
  <2> QED BY <1>1, <2>1
<1> QED BY <1>2, <1>3

\* a configuration that resolves can be expanded
LEMMA ResolvedExpands ==
    ASSUME NEW c \in Configs, NEW fs, NEW readable, Resolves(c, fs, readable)
    PROVE  Expandable(Resolved(c, fs, readable))
<1> DEFINE r == Resolved(c, fs, readable)
<1>0. c \in Shape(c)
  BY ConfigsAssumption
<1>1. /\ c.regions \in Seq(Range(c.regions)) /\ c.perturbations \in Seq(Range(c.perturbations))
      /\ c.controls \in Seq(Range(c.controls))
  BY <1>0 DEF Shape
<1>2. /\ r \in Shape(r) /\ r.controls = c.controls
      /\ r.regions = RegionsResolved(c, fs) /\ r.perturbations = ValuesResolved(c, readable)
  BY <1>0, ResolvedShape
<1>3. IsSeq(r.regions) /\ IsSeq(r.perturbations) /\ IsSeq(r.controls)
  BY <1>2 DEF Shape, IsSeq
<1>4. DOMAIN r.regions = DOMAIN c.regions /\ DOMAIN r.perturbations = DOMAIN c.perturbations
  BY <1>2 DEF RegionsResolved, ValuesResolved
<1>5. ASSUME NEW f \in DOMAIN c.regions
      PROVE  /\ c.regions[f] \in Range(c.regions)
             /\ r.regions[f].region_id = c.regions[f].region_id
             /\ r.regions[f].kind = c.regions[f].kind
             /\ r.regions[f].params = c.regions[f].params
  <2>1. c.regions[f] \in Range(c.regions)
    BY DEF Range
  <2>2. c.regions[f] \in FamilyShape(c.regions[f])
    BY <2>1, ConfigsAssumption
  <2>3. r.regions[f] = ResolvedRegion(c.regions[f], fs)
    BY <1>2 DEF RegionsResolved
  <2> QED BY <2>1, <2>2, <2>3, RegionKept
<1>6. ASSUME NEW f \in DOMAIN r.regions
      PROVE  /\ r.regions[f].kind \in Families
             /\ r.regions[f].kind = "grid" => r.regions[f].params.rows * r.regions[f].params.cols \in Nat
  <2>1. FamilyOK(c.regions[f])
    BY <1>4, <1>5 DEF Resolves, ConfigOK
  <2>2. c.regions[f].kind = "grid" =>
          /\ c.regions[f].params.rows \in Int /\ c.regions[f].params.rows > 0
          /\ c.regions[f].params.cols \in Int /\ c.regions[f].params.cols > 0
    BY <1>4, <1>5, <2>1, ConfigsAssumption DEF FamilyOK
  <2>3. c.regions[f].kind \in Families
    BY <2>1 DEF FamilyOK
  <2>4. ASSUME NEW m \in Int, NEW n \in Int, m > 0, n > 0 PROVE m * n \in Nat
    BY <2>4
  <2> HIDE DEF r
  <2> QED BY <1>4, <1>5, <2>2, <2>3, <2>4
<1>7. ASSUME NEW p \in DOMAIN r.perturbations
      PROVE  IsSeq(r.perturbations[p].salts)
  <2>1. r.perturbations[p] = ResolvedPerturbation(c.perturbations[p], Stats(c, readable))
    BY <1>2, <1>4 DEF ValuesResolved
  <2>2. c.perturbations[p] \in Range(c.perturbations)
    BY <1>4 DEF Range
  <2>3. IsSeq(c.perturbations[p].salts)
    BY <2>2, ConfigsAssumption DEF IsSeq
  <2> HIDE DEF r
  <2> QED BY <2>1, <2>3 DEF ResolvedPerturbation
<1>8. ASSUME NEW k \in DOMAIN r.controls
      PROVE  /\ r.controls[k].n_samples \in Nat
             /\ \E f \in DOMAIN r.regions : r.regions[f].region_id = r.controls[k].match_area_of
  <2>1. r.controls[k] \in Range(c.controls)
    BY <1>2 DEF Range
  <2>2. r.controls[k].n_samples \in Int /\ r.controls[k].n_samples > 0
        /\ r.controls[k].match_area_of \in Range(RegionIds(c))
    BY <2>1, ConfigsAssumption DEF Resolves, ConfigOK
  <2>3. PICK f \in DOMAIN c.regions : r.controls[k].match_area_of = c.regions[f].region_id
    BY <2>2 DEF RegionIds, Range
  <2> HIDE DEF r
  <2> QED BY <1>4, <1>5, <2>2, <2>3
<1> HIDE DEF r
<1>9. Expandable(r)
  BY <1>3, <1>6, <1>7, <1>8 DEF Expandable
<1> QED BY <1>9 DEF r

\* the instances of a family are a sequence
LEMMA InstancesAre ==
    ASSUME NEW sample, NEW family, family.kind \in Families,
           family.kind = "grid" => family.params.rows * family.params.cols \in Nat
    PROVE  IsSeq(Instances(sample, family))
<1>0. \A x : IsSeq(<<x>>)
  <2> TAKE x
  <2>1. <<x>> \in Seq({x})
    OBVIOUS
  <2> QED BY <2>1, SequenceOf
<1>1. CASE family.kind = "grid"
  <2> DEFINE n == family.params.rows * family.params.cols
  <2> DEFINE g == GridCells(family)
  <2>1. n \in Nat /\ g = [i \in 1..n |-> g[i]]
    BY <1>1 DEF GridCells
  <2>2. Instances(sample, family) = g
    BY <1>1 DEF Instances
  <2> HIDE DEF n, g
  <2> QED BY <2>1, <2>2, MadeSequence
<1>2. CASE family.kind = "explicit"
  BY <1>0, <1>2 DEF Instances
<1>3. CASE family.kind = "skeleton_parts"
  <2>1. IsSeq(<<>>)
    <3>1. <<>> \in Seq({})
      OBVIOUS
    <3> QED BY <3>1, SequenceOf
  <2>2. CASE <<sample, family.params.part>> \notin PartsTracked
    <3>1. Instances(sample, family) = <<>>
      BY <1>3, <2>2 DEF Instances
    <3> QED BY <2>1, <3>1
  <2>3. CASE <<sample, family.params.part>> \in PartsTracked
    BY <1>0, <1>3, <2>3 DEF Instances
  <2> QED BY <2>2, <2>3
<1> QED BY <1>1, <1>2, <1>3 DEF Families

\* the controls of a request are a sequence
LEMMA ControlsAre ==
    ASSUME NEW control, control.n_samples \in Nat, NEW request, NEW targets, IsSeq(targets)
    PROVE  IsSeq(ControlRegions(control, request, targets))
<1> DEFINE row(t) == [i \in 1..control.n_samples |-> ControlRegion(control, request, targets[t], i)]
<1> DEFINE F == [t \in DOMAIN targets |-> row(t)]
<1>1. Len(targets) \in Nat /\ DOMAIN targets = 1..Len(targets)
  BY SequenceIs
<1>2. \A t : IsSeq(row(t))
  <2> TAKE t
  <2> DEFINE s == row(t)
  <2>1. s = [i \in 1..control.n_samples |-> s[i]]
    OBVIOUS
  <2> HIDE DEF s
  <2>2. IsSeq(s)
    BY <2>1, MadeSequence
  <2> QED BY <2>2 DEF s
<1>3. ControlRegions(control, request, targets) = FlattenSeq(F)
  BY DEF ControlRegions
<1> HIDE DEF row
<1>4. F = [i \in 1..Len(targets) |-> F[i]] /\ \A i \in 1..Len(targets) : IsSeq(F[i])
  BY <1>1, <1>2
<1> HIDE DEF F
<1> QED BY <1>1, <1>3, <1>4, FlatSequence

\* x is an item of the sample, under one of the perturbations
IsItemOf(x, sample, perturbations) ==
    \E p \in DOMAIN perturbations : \E region, salt, is_control :
       x = Item(sample, region, perturbations[p], salt, is_control)
ItemsIn(s, sample, perturbations) ==
    IsSeq(s) /\ \A x \in Members(s) : IsItemOf(x, sample, perturbations)

\* items of a sample one after the other are items of it
LEMMA FlatItems ==
    ASSUME NEW n \in Nat, NEW F, F = [i \in 1..n |-> F[i]], NEW sample, NEW perturbations,
           \A i \in 1..n : ItemsIn(F[i], sample, perturbations)
    PROVE  ItemsIn(FlattenSeq(F), sample, perturbations)
<1>1. \A i \in 1..n : IsSeq(F[i])
  BY DEF ItemsIn
<1>2. IsSeq(FlattenSeq(F))
  BY <1>1, FlatSequence
<1>3. Members(FlattenSeq(F)) = UNION {Members(F[i]) : i \in 1..n}
  BY <1>1, FlatSequence
<1> QED BY <1>2, <1>3 DEF ItemsIn

\* regions give items of the sample
LEMMA ItemsAre ==
    ASSUME NEW sample, NEW regions, IsSeq(regions), NEW perturbations, IsSeq(perturbations),
           \A p \in DOMAIN perturbations : IsSeq(perturbations[p].salts), NEW is_control
    PROVE  ItemsIn(ItemsOf(sample, regions, perturbations, is_control), sample, perturbations)
<1> DEFINE row(r, p) == [s \in DOMAIN perturbations[p].salts |->
              Item(sample, regions[r], perturbations[p], perturbations[p].salts[s], is_control)]
<1> DEFINE G(r) == [p \in DOMAIN perturbations |-> row(r, p)]
<1> DEFINE F == [r \in DOMAIN regions |-> FlattenSeq(G(r))]
<1>0. ItemsOf(sample, regions, perturbations, is_control) = FlattenSeq(F)
  BY DEF ItemsOf
<1>1. /\ Len(regions) \in Nat /\ DOMAIN regions = 1..Len(regions)
      /\ Len(perturbations) \in Nat /\ DOMAIN perturbations = 1..Len(perturbations)
  BY SequenceIs
<1>2. ASSUME NEW r, NEW p \in DOMAIN perturbations
      PROVE  ItemsIn(row(r, p), sample, perturbations)
  <2> DEFINE n == Len(perturbations[p].salts)
  <2> DEFINE s == row(r, p)
  <2>1. n \in Nat /\ DOMAIN perturbations[p].salts = 1..n
    BY SequenceIs
  <2>2. s = [i \in 1..n |-> s[i]]
    BY <2>1
  <2>3. \A i \in 1..n : IsItemOf(s[i], sample, perturbations)
    <3> TAKE i \in 1..n
    <3> DEFINE salt == perturbations[p].salts[i]
    <3>1. s[i] = Item(sample, regions[r], perturbations[p], salt, is_control)
      BY <2>1
    <3> HIDE DEF s, salt
    <3> QED BY <3>1 DEF IsItemOf
  <2> HIDE DEF s, n
  <2>4. IsSeq(s) /\ Len(s) = n
    BY <2>1, <2>2, MadeSequence
  <2>5. \A x \in Members(s) : IsItemOf(x, sample, perturbations)
    BY <2>3, <2>4 DEF Members
  <2> QED BY <2>4, <2>5 DEF s, ItemsIn
<1> HIDE DEF row
<1>3. ASSUME NEW r PROVE ItemsIn(FlattenSeq(G(r)), sample, perturbations)
  <2> DEFINE g == G(r)
  <2>1. g = [i \in 1..Len(perturbations) |-> g[i]]
        /\ \A i \in 1..Len(perturbations) : ItemsIn(g[i], sample, perturbations)
    BY <1>1, <1>2
  <2> HIDE DEF g
  <2>2. ItemsIn(FlattenSeq(g), sample, perturbations)
    BY <1>1, <2>1, FlatItems
  <2> QED BY <2>2 DEF g
<1> HIDE DEF G
<1>4. F = [i \in 1..Len(regions) |-> F[i]]
      /\ \A i \in 1..Len(regions) : ItemsIn(F[i], sample, perturbations)
  BY <1>1, <1>3
<1> HIDE DEF F
<1> QED BY <1>0, <1>1, <1>4, FlatItems

\* the items of a sample are of it, and of a perturbation of the configuration
LEMMA SampleItemsAre ==
    ASSUME NEW c, Expandable(c), NEW sample
    PROVE  ItemsIn(SampleItems(sample, c), sample, c.perturbations)
<1> DEFINE instances == [f \in DOMAIN c.regions |-> Instances(sample, c.regions[f])]
<1> DEFINE family(id) == CHOOSE f \in DOMAIN c.regions : c.regions[f].region_id = id
<1> DEFINE controls == [k \in DOMAIN c.controls |->
              ControlRegions(c.controls[k], k, instances[family(c.controls[k].match_area_of)])]
<1>0. SampleItems(sample, c) =
        ItemsOf(sample, FlattenSeq(instances), c.perturbations, FALSE)
        \o ItemsOf(sample, FlattenSeq(controls), c.perturbations, TRUE)
  BY DEF SampleItems
<1>1. /\ IsSeq(c.regions) /\ IsSeq(c.perturbations) /\ IsSeq(c.controls)
      /\ \A p \in DOMAIN c.perturbations : IsSeq(c.perturbations[p].salts)
  BY DEF Expandable
<1>2. /\ Len(c.regions) \in Nat /\ DOMAIN c.regions = 1..Len(c.regions)
      /\ Len(c.controls) \in Nat /\ DOMAIN c.controls = 1..Len(c.controls)
  BY <1>1, SequenceIs
<1>3. \A f \in DOMAIN c.regions : IsSeq(instances[f])
  <2> TAKE f \in DOMAIN c.regions
  <2>1. IsSeq(Instances(sample, c.regions[f]))
    BY InstancesAre DEF Expandable
  <2> QED BY <2>1
<1>4. instances = [i \in 1..Len(c.regions) |-> instances[i]]
  BY <1>2
<1>5. \A k \in DOMAIN c.controls : IsSeq(controls[k])
  <2> TAKE k \in DOMAIN c.controls
  <2> DEFINE f == family(c.controls[k].match_area_of)
  <2>1. f \in DOMAIN c.regions
    BY DEF Expandable
  <2> HIDE DEF f, family, instances
  <2>2. IsSeq(instances[f]) /\ c.controls[k].n_samples \in Nat
    BY <1>3, <2>1 DEF Expandable
  <2>3. IsSeq(ControlRegions(c.controls[k], k, instances[f]))
    BY <2>2, ControlsAre
  <2> QED BY <2>3 DEF f
<1>6. controls = [i \in 1..Len(c.controls) |-> controls[i]]
  BY <1>2
<1> HIDE DEF instances, controls
<1>7. IsSeq(FlattenSeq(instances))
  BY <1>2, <1>3, <1>4, FlatSequence
<1>8. IsSeq(FlattenSeq(controls))
  BY <1>2, <1>5, <1>6, FlatSequence
<1> DEFINE own == ItemsOf(sample, FlattenSeq(instances), c.perturbations, FALSE)
<1> DEFINE others == ItemsOf(sample, FlattenSeq(controls), c.perturbations, TRUE)
<1>9. ItemsIn(own, sample, c.perturbations) /\ ItemsIn(others, sample, c.perturbations)
  BY <1>1, <1>7, <1>8, ItemsAre
<1> HIDE DEF own, others
<1>10. IsSeq(own \o others)
  BY <1>9, JoinedSequence DEF ItemsIn
<1>11. Members(own \o others) = Members(own) \cup Members(others)
  <2> DEFINE A == Range(own) \cup Range(others)
  <2>1. Range(own) \subseteq A /\ Range(others) \subseteq A
    OBVIOUS
  <2> HIDE DEF A
  <2>2. own \in Seq(A) /\ others \in Seq(A)
    BY <1>9, <2>1, SeqMonotonic DEF ItemsIn, IsSeq
  <2> QED BY <2>2, MembersOfConcat
<1> QED BY <1>0, <1>9, <1>10, <1>11 DEF own, others, ItemsIn

-----------------------------------------------------------------------------
(* The plan.                                                               *)

\* Counting the smaller members numbers a finite set of numbers.
LEMMA RankReaches ==
    ASSUME NEW S, S \subseteq Int, IsFiniteSet(S), NEW i \in 1..Cardinality(S)
    PROVE  \E s \in S : Cardinality({t \in S : t < s}) = i - 1
<1> DEFINE below(s) == {t \in S : t < s}
<1> DEFINE n == Cardinality(S)
<1> DEFINE rank == [s \in S |-> Cardinality(below(s))]
<1>1. n \in Nat
  BY FS_CardinalityType
<1>2. ASSUME NEW s \in S
      PROVE  /\ IsFiniteSet(below(s)) /\ Cardinality(below(s)) \in 0..n - 1
  <2>1. below(s) \in SUBSET S /\ below(s) # S
    OBVIOUS
  <2> HIDE DEF below, n
  <2>2. /\ IsFiniteSet(below(s)) /\ Cardinality(below(s)) <= n
        /\ n = Cardinality(below(s)) => S = below(s)
    BY <2>1, FS_Subset DEF n
  <2>3. Cardinality(below(s)) \in Nat
    BY <2>2, FS_CardinalityType
  <2> QED BY <1>1, <2>1, <2>2, <2>3
<1>3. ASSUME NEW s \in S, NEW t \in S, s < t
      PROVE  Cardinality(below(s)) # Cardinality(below(t))
  <2>1. below(s) \in SUBSET below(t) /\ s \in below(t) /\ s \notin below(s)
    <3>1. s \in Int /\ t \in Int
      OBVIOUS
    <3>2. ASSUME NEW u \in S, u < s PROVE u < t
      <4>1. u \in Int
        OBVIOUS
      <4> QED BY <1>3, <3>1, <3>2, <4>1
    <3>3. ~(s < s)
      BY <3>1
    <3> QED BY <1>3, <3>2, <3>3
  <2>2. IsFiniteSet(below(t))
    BY <1>2
  <2> HIDE DEF below
  <2>3. Cardinality(below(t)) = Cardinality(below(s)) => below(t) = below(s)
    BY <2>1, <2>2, FS_Subset
  <2> QED BY <2>1, <2>3
<1> HIDE DEF below, n
<1>4. rank \in [S -> 0..n - 1]
  BY <1>2
<1>5. ASSUME NEW s \in S, NEW t \in S, rank[s] = rank[t] PROVE s = t
  <2>1. Cardinality(below(s)) = Cardinality(below(t))
    BY <1>5
  <2>2. ~(s < t) /\ ~(t < s)
    BY <1>3, <2>1
  <2> QED BY <2>2
<1> HIDE DEF rank
<1>6. rank \in Injection(S, 0..n - 1)
  BY <1>4, <1>5 DEF Injection, IsInjective
<1>7. IsFiniteSet(0..n - 1) /\ Cardinality(0..n - 1) = n
  <2>1. 0 \in Int /\ n - 1 \in Int
    BY <1>1
  <2>2. /\ IsFiniteSet(0..n - 1)
        /\ Cardinality(0..n - 1) = IF 0 > n - 1 THEN 0 ELSE (n - 1) - 0 + 1
    BY <2>1, FS_Interval
  <2> QED BY <1>1, <2>2
<1>8. rank \in Surjection(S, 0..n - 1)
  BY <1>6, <1>7, FS_Injection DEF n
<1>9. i - 1 \in 0..n - 1
  BY <1>1 DEF n
<1>10. PICK s \in S : rank[s] = i - 1
  BY <1>8, <1>9 DEF Surjection
<1> QED BY <1>10 DEF rank, below

\* a quotient rounded up is a natural number
LEMMA CeilingIs ==
    ASSUME NEW a \in Nat, NEW b \in Nat \ {0}
    PROVE  Ceiling(a, b) \in Nat
<1> DEFINE q == (-a) \div b
<1> DEFINE r == (-a) % b
<1>1. q \in Int /\ r \in 0..b - 1 /\ b * q \in Int /\ -a = b * q + r
  <2> DEFINE x == -a
  <2>1. x \in Int
    OBVIOUS
  <2> HIDE DEF x
  <2>2. /\ x % b \in 0..b - 1 /\ x \div b \in Int
        /\ b * (x \div b) \in Int /\ x = b * (x \div b) + (x % b)
    BY <2>1, DivMod
  <2> QED BY <2>2 DEF x
<1>2. Ceiling(a, b) = -q
  BY DEF Ceiling
<1> HIDE DEF q, r
<1>3. ~(q > 0)
  <2> SUFFICES ASSUME q > 0 PROVE FALSE
    OBVIOUS
  <2>1. b * q > 0
    BY <1>1
  <2> QED BY <1>1, <2>1
<1> QED BY <1>1, <1>2, <1>3

\* A chunk is a piece of the items of its sample, which are all different.
IsChunk(meta, c, its) ==
    /\ meta.sample \in Range(c.listed) /\ meta.ordinal \in Nat \ {0}
    /\ meta = ChunkMeta(meta.sample, its[meta.sample], meta.ordinal, c.variants_per_chunk)
    /\ Once(IdsOf(its[meta.sample]))

\* the plan is a sequence of chunks
LEMMA EnumeratedIs ==
    ASSUME NEW c, c \in Shape(c), NEW its, PlanOK(c, its),
           \A s \in Range(c.listed) : IsSeq(its[s])
    PROVE  /\ IsSeq(Enumerated(c, its))
           /\ \A k \in 1..Len(Enumerated(c, its)) : IsChunk(Enumerated(c, its)[k], c, its)
<1> DEFINE samples == Range(c.listed)
<1> DEFINE n == Cardinality(samples)
<1> DEFINE size == c.variants_per_chunk
<1> DEFINE nth(i) == CHOOSE s \in samples : Cardinality({t \in samples : t < s}) = i - 1
<1> DEFINE chunks(s) == SampleChunks(s, its[s], size)
<1> DEFINE F == [i \in 1..n |-> chunks(nth(i))]
<1>1. c.listed \in Seq(Int) /\ size \in Nat \ {0}
  BY DEF Shape
<1>2. samples \subseteq Int /\ IsFiniteSet(samples)
  <2>1. samples = Members(c.listed) /\ Members(c.listed) \subseteq Int
    BY <1>1, RangeIsMembers, MembersType
  <2>2. /\ Len(c.listed) \in Nat
        /\ c.listed \in [1..Len(c.listed) -> Members(c.listed)]
    BY <1>1, LenProperties, ElementOfSeq DEF Members
  <2>3. c.listed \in Surjection(1..Len(c.listed), Members(c.listed))
    BY <2>2 DEF Surjection, Members
  <2>4. IsFiniteSet(1..Len(c.listed))
    <3>1. 1 \in Int /\ Len(c.listed) \in Int
      BY <2>2
    <3> QED BY <3>1, FS_Interval
  <2>5. IsFiniteSet(Members(c.listed))
    BY <2>3, <2>4, FS_Surjection
  <2> QED BY <2>1, <2>5
<1>3. Enumerated(c, its) = FlattenSeq(F)
  BY DEF Enumerated
<1>4. \A s \in samples : Once(IdsOf(its[s]))
  <2> TAKE s \in samples
  <2>1. Distinct(IdsOf(its[s])) /\ IsSeq(IdsOf(its[s]))
    BY IdsAre DEF PlanOK
  <2> QED BY <2>1, DistinctIsOnce
<1> HIDE DEF samples
<1>5. n \in Nat
  BY <1>2, FS_CardinalityType
<1>6. ASSUME NEW i \in 1..n PROVE nth(i) \in samples
  <2>1. \E s \in samples : Cardinality({t \in samples : t < s}) = i - 1
    BY <1>2, RankReaches
  <2> QED BY <2>1
<1> HIDE DEF nth
<1>7. ASSUME NEW s \in samples
      PROVE  /\ IsSeq(chunks(s))
             /\ \A k \in 1..Len(chunks(s)) : IsChunk(chunks(s)[k], c, its)
  <2> DEFINE m == ChunkCount(its[s], size)
  <2> DEFINE g == chunks(s)
  <2>1. Len(its[s]) \in Nat
    BY SequenceIs DEF samples
  <2>2. m \in Nat
    BY <1>1, <2>1, CeilingIs DEF ChunkCount
  <2>3. g = [k \in 1..m |-> ChunkMeta(s, its[s], k, size)]
    BY DEF SampleChunks
  <2> HIDE DEF m, g
  <2>4. g = [k \in 1..m |-> g[k]]
    BY <2>3
  <2>5. IsSeq(g) /\ Len(g) = m
    BY <2>2, <2>4, MadeSequence
  <2>6. ASSUME NEW k \in 1..m PROVE IsChunk(g[k], c, its)
    <3>1. g[k] = ChunkMeta(s, its[s], k, size) /\ k \in Nat \ {0}
      BY <2>2, <2>3
    <3>2. g[k].sample = s /\ g[k].ordinal = k
      BY <3>1 DEF ChunkMeta
    <3> QED BY <1>4, <3>1, <3>2 DEF IsChunk, samples
  <2> QED BY <2>5, <2>6 DEF g
<1> HIDE DEF chunks
<1>8. F = [i \in 1..n |-> F[i]] /\ \A i \in 1..n : F[i] = chunks(nth(i))
  OBVIOUS
<1> HIDE DEF F, n
<1>9. \A i \in 1..n : IsSeq(F[i])
  BY <1>6, <1>7, <1>8
<1>10. /\ IsSeq(FlattenSeq(F))
       /\ Members(FlattenSeq(F)) = UNION {Members(F[i]) : i \in 1..n}
  BY <1>5, <1>8, <1>9, FlatSequence
<1>11. ASSUME NEW k \in 1..Len(FlattenSeq(F)) PROVE IsChunk(FlattenSeq(F)[k], c, its)
  <2>1. FlattenSeq(F)[k] \in Members(FlattenSeq(F))
    BY DEF Members
  <2>2. PICK i \in 1..n : FlattenSeq(F)[k] \in Members(F[i])
    BY <1>10, <2>1
  <2>3. PICK j \in 1..Len(F[i]) : FlattenSeq(F)[k] = F[i][j]
    BY <2>2 DEF Members
  <2>4. IsChunk(F[i][j], c, its)
    BY <1>6, <1>7, <1>8
  <2> QED BY <2>3, <2>4
<1> QED BY <1>3, <1>10, <1>11

\* the pieces of the items as planned are the items of the chunk
LEMMA ChunkIs ==
    ASSUME NEW meta, NEW c, c \in Shape(c), NEW its, IsChunk(meta, c, its),
           IsSeq(its[meta.sample])
    PROVE  LET own == Slice(its[meta.sample], meta.ordinal, c.variants_per_chunk) IN
           /\ IdsOf(own) = meta.item_ids /\ IsSeq(own) /\ Once(meta.item_ids)
<1> DEFINE own == Slice(its[meta.sample], meta.ordinal, c.variants_per_chunk)
<1>1. meta.ordinal \in Nat \ {0} /\ c.variants_per_chunk \in Nat \ {0}
  BY DEF IsChunk, Shape
<1>2. IsSeq(own) /\ Once(IdsOf(own))
  BY <1>1, SliceIs DEF IsChunk
<1>3. meta.item_ids = IdsOf(own)
  BY DEF IsChunk, ChunkMeta
<1> QED BY <1>2, <1>3

-----------------------------------------------------------------------------
(* Items are prepared or fail one after the other.                         *)

\* the first n of a sequence
LEMMA FirstOnes ==
    ASSUME NEW ids, IsSeq(ids), NEW n \in 0..Len(ids)
    PROVE  /\ SubSeq(ids, 1, n) \in Seq(Range(ids)) /\ Len(SubSeq(ids, 1, n)) = n
           /\ \A i \in 1..n : SubSeq(ids, 1, n)[i] = ids[i]
<1>1. Len(ids) \in Nat /\ Range(ids) = Members(ids)
  BY SequenceIs
<1>2. \A i \in 1..n : ids[i] \in Range(ids)
  BY <1>1 DEF Members
<1>3. /\ SubSeq(ids, 1, n) \in Seq(Range(ids))
      /\ Len(SubSeq(ids, 1, n)) = IF 1 <= n THEN n - 1 + 1 ELSE 0
      /\ \A i \in 1..n - 1 + 1 : SubSeq(ids, 1, n)[i] = ids[1 + i - 1]
  <2>1. 1 \in Int /\ n \in Int
    BY <1>1
  <2> QED BY <1>2, <2>1, SubSeqProperties
<1>4. n \in Nat
  BY <1>1
<1> DEFINE t == SubSeq(ids, 1, n)
<1> HIDE DEF t
<1>5. /\ Len(t) = IF 1 <= n THEN n - 1 + 1 ELSE 0
      /\ \A i \in 1..n - 1 + 1 : t[i] = ids[1 + i - 1]
  BY <1>3 DEF t
<1>6. Len(t) = n /\ \A i \in 1..n : t[i] = ids[i]
  BY <1>4, <1>5
<1> QED BY <1>3, <1>6 DEF t

\* the first n + 1 are the first n and the next
LEMMA OneMore ==
    ASSUME NEW ids, IsSeq(ids), NEW n \in Nat, n < Len(ids)
    PROVE  SubSeq(ids, 1, n + 1) = Append(SubSeq(ids, 1, n), ids[n + 1])
<1> DEFINE m == n + 1
<1> DEFINE s == SubSeq(ids, 1, n)
<1> DEFINE t == SubSeq(ids, 1, m)
<1> DEFINE u == Append(s, ids[m])
<1>1. Len(ids) \in Nat /\ Range(ids) = Members(ids)
  BY SequenceIs
<1>2. n \in 0..Len(ids) /\ m \in 0..Len(ids) /\ m \in 1..Len(ids) /\ m \in Nat
  BY <1>1
<1>3. ids[m] \in Range(ids)
  BY <1>1, <1>2 DEF Members
<1> HIDE DEF m
<1>4. s \in Seq(Range(ids)) /\ Len(s) = n /\ \A i \in 1..n : s[i] = ids[i]
  BY <1>2, FirstOnes
<1>5. t \in Seq(Range(ids)) /\ Len(t) = m /\ \A i \in 1..m : t[i] = ids[i]
  BY <1>2, FirstOnes
<1> HIDE DEF s, t
<1>6. u \in Seq(Range(ids)) /\ Len(u) = n + 1 /\ u[n + 1] = ids[m] /\ \A i \in 1..n : u[i] = s[i]
  BY <1>3, <1>4, AppendProperties
<1> HIDE DEF u
<1>7. \A i \in 1..m : u[i] = t[i]
  BY <1>4, <1>5, <1>6 DEF m
<1>8. Len(u) = Len(t)
  BY <1>5, <1>6 DEF m
<1>9. u = t
  BY <1>5, <1>6, <1>7, <1>8, SeqEqual
<1> QED BY <1>9 DEF u, t, s, m

\* all of a sequence are its first ones
LEMMA AllOnes ==
    ASSUME NEW ids, IsSeq(ids)
    PROVE  SubSeq(ids, 1, Len(ids)) = ids
<1> DEFINE n == Len(ids)
<1> DEFINE t == SubSeq(ids, 1, n)
<1>1. n \in 0..Len(ids) /\ n \in Nat /\ ids \in Seq(Range(ids))
  BY SequenceIs DEF IsSeq
<1> HIDE DEF n
<1>2. t \in Seq(Range(ids)) /\ Len(t) = n /\ \A i \in 1..n : t[i] = ids[i]
  BY <1>1, FirstOnes
<1> HIDE DEF t
<1>3. Len(t) = Len(ids) /\ \A i \in 1..Len(t) : t[i] = ids[i]
  BY <1>2 DEF n
<1>4. t = ids
  BY <1>1, <1>2, <1>3, SeqEqual
<1> QED BY <1>4 DEF t, n

\* Of the first ids, ok are those that were prepared and failed those that
\* were not, both in their order; with fast the first failure is the last id.
Split(ids, ok, failed, fast) ==
    LET first == SubSeq(ids, 1, Len(ok) + Len(failed)) IN
    /\ IsSeq(ok) /\ IsSeq(failed) /\ Len(ok) + Len(failed) <= Len(ids)
    /\ ok = Those(first, Range(ids) \ Range(failed))
    /\ failed = Those(first, Range(failed))
    /\ failed = <<>> => ok = first
    /\ (fast /\ failed # <<>>) => Len(failed) = 1 /\ ok \o failed = first

\* a job begins with nothing prepared and nothing failed
LEMMA SplitStart ==
    ASSUME NEW ids, IsSeq(ids), NEW fast
    PROVE  Split(ids, <<>>, <<>>, fast)
<1>1. Len(ids) \in Nat
  BY SequenceIs
<1>2. IsSeq(<<>>)
  <2>1. <<>> \in Seq({})
    OBVIOUS
  <2> QED BY <2>1, SequenceOf
<1>3. SubSeq(ids, 1, 0) = <<>>
  <2>1. 1 \in Int /\ 0 \in Int /\ 0 < 1
    OBVIOUS
  <2> QED BY <2>1, SubSeqEmpty
<1> DEFINE e == <<>>
<1> DEFINE first == SubSeq(ids, 1, Len(e) + Len(e))
<1>4. Len(e) + Len(e) = 0 /\ first = e
  <2>1. Len(e) + Len(e) = 0
    OBVIOUS
  <2> QED BY <1>3, <2>1
<1>5. /\ e = Those(first, Range(ids) \ Range(e))
      /\ e = Those(first, Range(e))
  <2> DEFINE S == Range(ids) \ Range(e)
  <2> DEFINE T == Range(e)
  <2> HIDE DEF S, T, first
  <2>1. Those(first, S) = <<>>
    BY <1>4, ThoseOfNone
  <2>2. Those(first, T) = <<>>
    BY <1>4, ThoseOfNone
  <2> QED BY <2>1, <2>2 DEF S, T
<1> HIDE DEF first
<1>6. IsSeq(e) /\ Len(e) + Len(e) <= Len(ids) /\ e = <<>>
  BY <1>1, <1>2, <1>4
<1> HIDE DEF e
<1>7. Split(ids, e, e, fast)
  BY <1>4, <1>5, <1>6 DEF Split, first
<1> QED BY <1>7 DEF e

\* what a split says of its two sides
LEMMA SplitSides ==
    ASSUME NEW ids, IsSeq(ids), NEW ok, NEW failed, NEW fast, Split(ids, ok, failed, fast)
    PROVE  LET n == Len(ok) + Len(failed)
               first == SubSeq(ids, 1, n) IN
           /\ n \in 0..Len(ids) /\ Len(ids) \in Nat
           /\ first \in Seq(Range(ids)) /\ Len(first) = n /\ \A i \in 1..n : first[i] = ids[i]
           /\ ok \in Seq(Range(ids)) /\ failed \in Seq(Range(ids))
           /\ Range(ok) = Members(first) \ Range(failed)
           /\ Range(failed) \subseteq Members(first)
           /\ Once(first) => Once(ok) /\ Once(failed)
<1> DEFINE n == Len(ok) + Len(failed)
<1> DEFINE first == SubSeq(ids, 1, n)
<1>1. n \in 0..Len(ids) /\ Len(ids) \in Nat
  BY SequenceIs DEF Split
<1>2. /\ IsSeq(ok) /\ IsSeq(failed)
      /\ ok = Those(first, Range(ids) \ Range(failed))
      /\ failed = Those(first, Range(failed))
  BY DEF Split
<1> HIDE DEF n
<1>3. first \in Seq(Range(ids)) /\ Len(first) = n /\ \A i \in 1..n : first[i] = ids[i]
  BY <1>1, FirstOnes
<1> HIDE DEF first
<1> DEFINE S == Range(ids) \ Range(failed)
<1> DEFINE T == Range(failed)
<1>4. ok = Those(first, S) /\ failed = Those(first, T)
  BY <1>2
<1>5. Members(first) \subseteq Range(ids)
  BY <1>3, MembersType
<1> HIDE DEF S, T
<1>6. /\ ok \in Seq(Range(ids)) /\ Members(ok) = Members(first) \cap S
      /\ Once(first) => Once(ok)
  BY <1>3, <1>4, ThoseMembers
<1>7. /\ failed \in Seq(Range(ids)) /\ Members(failed) = Members(first) \cap T
      /\ Once(first) => Once(failed)
  BY <1>3, <1>4, ThoseMembers
<1>8. Range(ok) = Members(ok) /\ Range(failed) = Members(failed)
  BY <1>2, SequenceIs
<1>9. Range(failed) \subseteq Members(first)
  BY <1>7, <1>8
<1>10. Range(ok) = Members(first) \ Range(failed)
  BY <1>5, <1>6, <1>8 DEF S
<1> QED BY <1>1, <1>3, <1>6, <1>7, <1>9, <1>10 DEF first, n

\* one id more, on either side, unless it was the last
LEMMA SplitMore ==
    ASSUME NEW ids, IsSeq(ids), Once(ids), NEW ok, NEW failed, NEW fast,
           Split(ids, ok, failed, fast), Len(ok) + Len(failed) < Len(ids),
           ~(fast /\ failed # <<>>)
    PROVE  /\ Split(ids, Append(ok, ids[Len(ok) + Len(failed) + 1]), failed, fast)
           /\ Split(ids, ok, Append(failed, ids[Len(ok) + Len(failed) + 1]), fast)
<1> DEFINE n == Len(ok) + Len(failed)
<1> DEFINE first == SubSeq(ids, 1, n)
<1> DEFINE more == SubSeq(ids, 1, n + 1)
<1> DEFINE x == ids[n + 1]
<1> DEFINE A == Range(ids)
<1>1. /\ n \in 0..Len(ids) /\ Len(ids) \in Nat
      /\ first \in Seq(A) /\ Len(first) = n /\ \A i \in 1..n : first[i] = ids[i]
      /\ ok \in Seq(A) /\ failed \in Seq(A) /\ Range(failed) \subseteq Members(first)
  BY SplitSides
<1>2. /\ n < Len(ids) /\ IsSeq(ok) /\ IsSeq(failed)
      /\ ok = Those(first, A \ Range(failed)) /\ failed = Those(first, Range(failed))
      /\ failed = <<>> => ok = first
  BY DEF Split
<1>3. Len(ok) \in Nat /\ Len(failed) \in Nat /\ n = Len(ok) + Len(failed) /\ n \in Nat
  BY <1>2, SequenceIs
<1>4. more = Append(first, x)
  BY <1>2, <1>3, OneMore
<1>5. x \in A /\ n + 1 \in 1..Len(ids)
  <2>1. n + 1 \in 1..Len(ids)
    BY <1>1, <1>2
  <2>2. A = Members(ids)
    BY SequenceIs
  <2> HIDE DEF A, n
  <2>3. ids[n + 1] \in A
    BY <2>1, <2>2 DEF Members
  <2> QED BY <2>1, <2>3
<1> HIDE DEF n
<1>6. x \notin Members(first)
  <2> SUFFICES ASSUME NEW i \in 1..n, first[i] = x PROVE FALSE
    BY <1>1 DEF Members
  <2>1. i \in 1..Len(ids) /\ ids[i] = ids[n + 1] /\ i # n + 1
    BY <1>1, <1>3
  <2> QED BY <1>5, <2>1 DEF Once
<1> HIDE DEF first, more, x, A
<1>7. ASSUME NEW S
      PROVE  Those(more, S) = IF x \in S THEN Append(Those(first, S), x) ELSE Those(first, S)
  BY <1>1, <1>4, <1>5, ThoseOfMore
<1>8. x \notin Range(failed)
  BY <1>1, <1>6
<1>9. Split(ids, Append(ok, x), failed, fast)
  <2> DEFINE b == Append(ok, x)
  <2>1. IsSeq(b) /\ Len(b) = Len(ok) + 1
    <3>1. b \in Seq(A) /\ Len(b) = Len(ok) + 1
      BY <1>1, <1>5, AppendProperties
    <3> QED BY <3>1, SequenceOf
  <2>2. Those(more, A \ Range(failed)) = b /\ Those(more, Range(failed)) = failed
    BY <1>2, <1>5, <1>7, <1>8
  <2>3. failed = <<>> => b = more
    BY <1>2, <1>4
  <2> HIDE DEF b
  <2>4. Len(b) + Len(failed) = n + 1 /\ Len(b) + Len(failed) <= Len(ids)
    BY <1>1, <1>2, <1>3, <2>1
  <2>5. SubSeq(ids, 1, Len(b) + Len(failed)) = more
    BY <2>4 DEF more
  <2>6. Split(ids, b, failed, fast)
    BY <1>2, <2>1, <2>2, <2>3, <2>4, <2>5 DEF Split, A
  <2> QED BY <2>6 DEF b
<1>10. Split(ids, ok, Append(failed, x), fast)
  <2> DEFINE f == Append(failed, x)
  <2>1. /\ f \in Seq(A) /\ Len(f) = Len(failed) + 1
        /\ Members(f) = Members(failed) \cup {x} /\ f # <<>>
    <3>1. f \in Seq(A) /\ Len(f) = Len(failed) + 1 /\ f # <<>>
      BY <1>1, <1>5, AppendProperties
    <3>2. Members(f) = Members(failed) \cup {x}
      BY <1>1, <1>5, MembersOfAppend
    <3> QED BY <3>1, <3>2
  <2>2. Range(f) = Range(failed) \cup {x}
    <3>1. Range(f) = Members(f)
      BY <2>1, RangeIsMembers
    <3>2. Range(failed) = Members(failed)
      BY <1>2, SequenceIs
    <3> QED BY <2>1, <3>1, <3>2
  <2>3. Those(first, Range(f)) = Those(first, Range(failed))
    <3> DEFINE S == Range(f)
    <3> DEFINE T == Range(failed)
    <3>1. \A i \in 1..Len(first) : first[i] \in S <=> first[i] \in T
      BY <1>6, <2>2 DEF Members
    <3> HIDE DEF S, T
    <3>2. Those(first, S) = Those(first, T)
      BY <1>1, <3>1, ThoseSame
    <3> QED BY <3>2 DEF S, T
  <2>4. Those(first, A \ Range(f)) = Those(first, A \ Range(failed))
    <3> DEFINE S == A \ Range(f)
    <3> DEFINE T == A \ Range(failed)
    <3>1. \A i \in 1..Len(first) : first[i] \in S <=> first[i] \in T
      BY <1>6, <2>2 DEF Members
    <3> HIDE DEF S, T
    <3>2. Those(first, S) = Those(first, T)
      BY <1>1, <3>1, ThoseSame
    <3> QED BY <3>2 DEF S, T
  <2>5. Those(more, A \ Range(f)) = ok /\ Those(more, Range(f)) = f
    BY <1>2, <1>7, <2>2, <2>3, <2>4
  <2>6. fast => Len(f) = 1 /\ ok \o f = more
    <3> SUFFICES ASSUME fast PROVE Len(f) = 1 /\ ok \o f = more
      OBVIOUS
    <3>1. failed = <<>> /\ ok = first
      BY <1>2
    <3>2. f = <<x>> /\ Len(<<x>>) = 1
      BY <3>1
    <3>3. first \o <<x>> = Append(first, x)
      BY <1>1, <1>5, AppendIsConcat
    <3> QED BY <1>4, <3>1, <3>2, <3>3
  <2>7. IsSeq(f)
    BY <2>1, SequenceOf
  <2> HIDE DEF f
  <2>8. Len(ok) + Len(f) = n + 1 /\ Len(ok) + Len(f) <= Len(ids)
    BY <1>1, <1>2, <1>3, <2>1
  <2>9. SubSeq(ids, 1, Len(ok) + Len(f)) = more
    BY <2>8 DEF more
  <2>10. Split(ids, ok, f, fast)
    BY <1>2, <2>1, <2>5, <2>6, <2>7, <2>8, <2>9 DEF Split, A
  <2> QED BY <2>10 DEF f
<1> QED BY <1>9, <1>10 DEF x, n

\* what is left when all ids, or the first failure, are through
Ended(ids, ok, failed, fast) ==
    /\ Distinct(ok \o failed) /\ Range(ok \o failed) \subseteq Range(ids)
    /\ IF fast /\ failed # <<>>
       THEN Len(failed) = 1 /\ ok \o failed = SubSeq(ids, 1, Len(ok \o failed))
       ELSE /\ ok = Those(ids, Range(ids) \ Range(failed))
            /\ failed = Those(ids, Range(failed))

\* when a job ends every item was prepared or failed, or one failed fast
LEMMA SplitEnd ==
    ASSUME NEW ids, IsSeq(ids), Once(ids), NEW ok, NEW failed, NEW fast,
           Split(ids, ok, failed, fast),
           ~(Len(ok) + Len(failed) < Len(ids)) \/ (fast /\ failed # <<>>)
    PROVE  Ended(ids, ok, failed, fast)
<1> DEFINE n == Len(ok) + Len(failed)
<1> DEFINE first == SubSeq(ids, 1, n)
<1> DEFINE A == Range(ids)
<1> DEFINE u == ok \o failed
<1>1. /\ n \in 0..Len(ids) /\ Len(ids) \in Nat
      /\ first \in Seq(A) /\ Len(first) = n /\ \A i \in 1..n : first[i] = ids[i]
      /\ ok \in Seq(A) /\ failed \in Seq(A)
  BY SplitSides
<1>2. /\ Range(ok) = Members(first) \ Range(failed) /\ Range(failed) \subseteq Members(first)
      /\ Once(first) => Once(ok) /\ Once(failed)
  BY SplitSides
<1>3. /\ ok = Those(first, A \ Range(failed)) /\ failed = Those(first, Range(failed))
      /\ (fast /\ failed # <<>>) => Len(failed) = 1 /\ ok \o failed = first
  BY DEF Split
<1>4. u \in Seq(A) /\ Len(u) = n
  BY <1>1, ConcatProperties
<1>5. Range(ok) = Members(ok) /\ Range(failed) = Members(failed)
  BY <1>1, RangeIsMembers
<1>6. /\ Len(ok) \in Nat /\ Len(failed) \in Nat /\ n = Len(ok) + Len(failed)
      /\ \A i \in 1..n : u[i] = IF i <= Len(ok) THEN ok[i] ELSE failed[i - Len(ok)]
  BY <1>1, ConcatProperties, LenProperties
<1>7. Once(first)
  <2>1. ASSUME NEW i \in 1..n, NEW j \in 1..n, first[i] = first[j] PROVE i = j
    <3>1. i \in 1..Len(ids) /\ j \in 1..Len(ids) /\ ids[i] = ids[j]
      BY <1>1, <2>1
    <3> QED BY <3>1 DEF Once
  <2> QED BY <1>1, <2>1 DEF Once
<1>8. Once(ok) /\ Once(failed) /\ Members(ok) \cap Members(failed) = {}
  BY <1>2, <1>5, <1>7
<1> HIDE DEF u, first, n
<1>9. ASSUME NEW i \in 1..n, NEW j \in 1..n, u[i] = u[j] PROVE i = j
  <2>1. CASE i <= Len(ok) /\ j <= Len(ok)
    <3>1. i \in 1..Len(ok) /\ j \in 1..Len(ok) /\ ok[i] = ok[j]
      BY <1>6, <1>9, <2>1
    <3> QED BY <1>8, <3>1 DEF Once
  <2>2. CASE ~(i <= Len(ok)) /\ ~(j <= Len(ok))
    <3>1. /\ i - Len(ok) \in 1..Len(failed) /\ j - Len(ok) \in 1..Len(failed)
          /\ failed[i - Len(ok)] = failed[j - Len(ok)]
      BY <1>6, <1>9, <2>2
    <3>2. i - Len(ok) = j - Len(ok)
      BY <1>8, <3>1 DEF Once
    <3> QED BY <1>6, <3>2
  <2>3. CASE i <= Len(ok) /\ ~(j <= Len(ok))
    <3>1. i \in 1..Len(ok) /\ j - Len(ok) \in 1..Len(failed) /\ ok[i] = failed[j - Len(ok)]
      BY <1>6, <1>9, <2>3
    <3>2. ok[i] \in Members(ok) /\ ok[i] \in Members(failed)
      BY <3>1 DEF Members
    <3> QED BY <1>8, <3>2
  <2>4. CASE ~(i <= Len(ok)) /\ j <= Len(ok)
    <3>1. j \in 1..Len(ok) /\ i - Len(ok) \in 1..Len(failed) /\ ok[j] = failed[i - Len(ok)]
      BY <1>6, <1>9, <2>4
    <3>2. ok[j] \in Members(ok) /\ ok[j] \in Members(failed)
      BY <3>1 DEF Members
    <3> QED BY <1>8, <3>2
  <2> QED BY <2>1, <2>2, <2>3, <2>4
<1>10. Distinct(u)
  <2>1. IsSeq(u) /\ Once(u)
    BY <1>4, <1>9, SequenceOf DEF Once
  <2> QED BY <2>1, DistinctIsOnce
<1>11. Range(u) \subseteq A
  BY <1>4, RangeIsMembers, MembersType
<1>12. CASE fast /\ failed # <<>>
  <2>1. Len(failed) = 1 /\ u = first /\ first = SubSeq(ids, 1, n)
    BY <1>3, <1>12 DEF u, first
  <2> QED BY <1>4, <1>10, <1>11, <1>12, <2>1 DEF u, A, Ended
<1>13. CASE ~(fast /\ failed # <<>>)
  <2>1. n = Len(ids)
    BY <1>1, <1>13 DEF n
  <2>2. first = ids
    BY <2>1, AllOnes DEF first
  <2> QED BY <1>3, <1>10, <1>11, <1>13, <2>2 DEF u, A, Ended
<1> QED BY <1>12, <1>13

-----------------------------------------------------------------------------
(* The plan is stable.                                                     *)

\* Before there is a plan, nothing was begun.
Idle ==
    /\ plan = <<>> /\ results = <<>> /\ accepted = 0
    /\ \A p \in AllProcesses : job[p] = None /\ last[p] = None
ItemsKnown == \A s \in Range(config.listed) : IsSeq(items[s])
Chunked == IsSeq(plan) /\ \A k \in 1..Len(plan) : IsChunk(plan[k], config, items)
Rebuilt ==
    /\ Over(last, AllProcesses)
    /\ \A p \in AllProcesses : last[p] # None => last[p][2] = items[last[p][1]]

\* A job is as far as its ids are split; a result is a split that has ended.
Underway(j) ==
    /\ j.chunk \in 1..Len(plan) /\ IsSeq(j.items)
    /\ IdsOf(j.items) = plan[j.chunk].item_ids
    /\ Split(IdsOf(j.items), PreparedIds(j), j.failed, config.fail_fast)
Delivered(k) == k \in 1..Len(plan) /\ ResultOK(results[k], plan[k].item_ids)
StableInv ==
    /\ PlanIsStable
    /\ phase = "new" => config \in Configs
    /\ phase # "planned" => Idle
    /\ phase \in {"resolved", "planned"} => ItemsKnown
    /\ phase = "planned" => Chunked
    /\ Rebuilt
    /\ \A p \in AllProcesses : job[p] # None => Underway(job[p])
    /\ accepted \in 0..Len(plan)
    /\ \A k \in DOMAIN results : Delivered(k)

\* nothing is planned in the beginning
LEMMA InitStable == Init => StableInv
<1> SUFFICES ASSUME Init PROVE StableInv
  OBVIOUS
<1>1. Idle /\ phase = "new" /\ config \in Configs
  BY DEF Init, Idle
<1>2. Rebuilt
  BY DEF Init, Rebuilt, Over
<1>3. Len(plan) = 0 /\ accepted \in 0..Len(plan) /\ DOMAIN results = {}
  <2>1. plan = <<>> /\ accepted = 0 /\ results = <<>>
    BY DEF Init
  <2> QED BY <2>1
<1> QED BY <1>1, <1>2, <1>3 DEF StableInv, PlanIsStable, Idle

\* a step that leaves plan, jobs and results keeps the plan stable
LEMMA SameStable ==
    ASSUME StableInv, UNCHANGED <<config, items, phase, plan, last, job, results, accepted>>
    PROVE  StableInv'
<1>1. /\ Idle' <=> Idle
      /\ ItemsKnown' <=> ItemsKnown
      /\ Chunked' <=> Chunked
      /\ Rebuilt' <=> Rebuilt
      /\ PlanIsStable' <=> PlanIsStable
  BY DEF Idle, ItemsKnown, Chunked, Rebuilt, PlanIsStable
<1>2. \A k : Delivered(k)' <=> Delivered(k)
  BY DEF Delivered, ResultOK, PreparedIds
<1>3. \A p \in AllProcesses : Underway(job[p])' <=> Underway(job[p])
  BY DEF Underway, PreparedIds
<1> QED BY <1>1, <1>2, <1>3 DEF StableInv

\* resolving gives every sample its items
LEMMA ResolveStable ==
    ASSUME Typed, StableInv, ResolveConfig
    PROVE  StableInv'
<1>1. /\ phase = "new" /\ Idle /\ config \in Configs
      /\ UNCHANGED <<files, plan, last, job, results, accepted>>
  BY DEF ResolveConfig, unprepared, StableInv
<1>2. /\ phase' \in {"resolved", "rejected"}
      /\ phase' = "resolved" =>
           \E readable : /\ Resolves(config, files, readable)
                         /\ config' = Resolved(config, files, readable)
                         /\ items' = [s \in Range(config.listed) |-> SampleItems(s, config')]
  BY Zenon DEF ResolveConfig
<1>3. Idle'
  BY <1>1 DEF Idle
<1>4. ASSUME phase' = "resolved" PROVE ItemsKnown'
  <2>1. PICK readable : /\ Resolves(config, files, readable)
                        /\ config' = Resolved(config, files, readable)
                        /\ items' = [s \in Range(config.listed) |-> SampleItems(s, config')]
    BY <1>2, <1>4
  <2>2. Expandable(config')
    BY <1>1, <2>1, ResolvedExpands
  <2>3. config'.listed = config.listed
    <3>1. config \in Shape(config)
      BY DEF Typed
    <3> QED BY <2>1, <3>1, ResolvedShape
  <2>4. \A s : IsSeq(SampleItems(s, config'))
    BY <2>2, SampleItemsAre DEF ItemsIn
  <2> QED BY <2>1, <2>3, <2>4 DEF ItemsKnown
<1>5. Rebuilt'
  <2>1. \A p \in AllProcesses : last'[p] = None
    BY <1>3 DEF Idle
  <2>2. Over(last', AllProcesses)
    BY <1>1 DEF StableInv, Rebuilt
  <2> QED BY <2>1, <2>2 DEF Rebuilt
<1>6. accepted' \in 0..Len(plan') /\ DOMAIN results' = {}
  BY <1>1 DEF StableInv, Idle
<1> QED BY <1>2, <1>3, <1>4, <1>5, <1>6 DEF StableInv, PlanIsStable, Idle

\* enumerating gives a plan of chunks
LEMMA EnumerateStable ==
    ASSUME Typed, StableInv, EnumeratePlan
    PROVE  StableInv'
<1>1. /\ phase = "resolved" /\ Idle /\ ItemsKnown /\ Rebuilt
      /\ UNCHANGED <<config, items, last, job, results, accepted>>
  BY DEF EnumeratePlan, unprepared, StableInv
<1>2. \/ PlanOK(config, items) /\ phase' = "planned" /\ plan' = Enumerated(config, items)
      \/ phase' = "unplannable" /\ UNCHANGED plan
  BY DEF EnumeratePlan
<1>3. /\ \A p \in AllProcesses : job'[p] = None /\ last'[p] = None
      /\ results' = <<>> /\ accepted' = 0
  BY <1>1 DEF Idle
<1>4. Rebuilt' /\ DOMAIN results' = {}
  BY <1>1, <1>3 DEF Rebuilt
<1>5. CASE PlanOK(config, items) /\ phase' = "planned" /\ plan' = Enumerated(config, items)
  <2>1. /\ IsSeq(Enumerated(config, items))
        /\ \A k \in 1..Len(Enumerated(config, items)) :
              IsChunk(Enumerated(config, items)[k], config, items)
    BY <1>1, <1>5, EnumeratedIs DEF Typed, ItemsKnown
  <2>2. Chunked'
    BY <1>1, <1>5, <2>1 DEF Chunked, IsChunk
  <2>3. Len(plan') \in Nat
    BY <1>5, <2>1, SequenceIs
  <2>4. ItemsKnown'
    BY <1>1 DEF ItemsKnown
  <2> QED BY <1>3, <1>4, <1>5, <2>2, <2>3, <2>4 DEF StableInv, PlanIsStable
<1>6. CASE phase' = "unplannable" /\ UNCHANGED plan
  <2>1. Idle' /\ accepted' \in 0..Len(plan')
    BY <1>1, <1>6 DEF Idle, StableInv
  <2> QED BY <1>3, <1>4, <1>6, <2>1 DEF StableInv, PlanIsStable
<1> QED BY <1>2, <1>5, <1>6

\* a process rebuilds the items that were planned
LEMMA RebuiltIs ==
    ASSUME Typed, StableInv, phase = "planned", NEW p \in AllProcesses, NEW k \in 1..Len(plan)
    PROVE  /\ SampleItemsOf(p, plan[k].sample) = items[plan[k].sample]
           /\ IdsOf(Materialized(p, plan[k])) = plan[k].item_ids
           /\ IsSeq(Materialized(p, plan[k])) /\ Once(plan[k].item_ids)
<1>1. SampleItemsOf(p, plan[k].sample) = items[plan[k].sample]
  BY DEF StableInv, Rebuilt, SampleItemsOf
<1>2. IsChunk(plan[k], config, items) /\ config \in Shape(config)
  BY DEF StableInv, Chunked, Typed
<1>3. IsSeq(items[plan[k].sample])
  BY <1>2 DEF StableInv, ItemsKnown, IsChunk
<1>4. LET own == Slice(items[plan[k].sample], plan[k].ordinal, config.variants_per_chunk) IN
      IdsOf(own) = plan[k].item_ids /\ IsSeq(own) /\ Once(plan[k].item_ids)
  BY <1>2, <1>3, ChunkIs
<1> QED BY <1>1, <1>4 DEF Materialized

\* a process remembers the items of the sample it rebuilt
LEMMA RememberIs ==
    ASSUME Typed, StableInv, phase = "planned", NEW p \in AllProcesses, NEW k \in 1..Len(plan),
           last' = [last EXCEPT ![p] = <<plan[k].sample, SampleItemsOf(p, plan[k].sample)>>],
           UNCHANGED items
    PROVE  Rebuilt'
<1>1. Rebuilt /\ SampleItemsOf(p, plan[k].sample) = items[plan[k].sample]
  BY RebuiltIs DEF StableInv
<1>2. Over(last', AllProcesses)
  BY <1>1 DEF Rebuilt, Over
<1>3. last'[p] = <<plan[k].sample, items[plan[k].sample]>>
      /\ \A q \in AllProcesses : q # p => last'[q] = last[q]
  BY <1>1 DEF Rebuilt, Over
<1> QED BY <1>1, <1>2, <1>3 DEF Rebuilt

\* the result of a process is what the main process expects
LEMMA ReturnStable ==
    ASSUME Typed, StableInv, phase = "planned", phase' = "planned", NEW p \in Processes, NEW k, NEW result,
           Returned(p, k, result), k \in 1..Len(plan), ResultOK(result, plan[k].item_ids),
           UNCHANGED <<config, items, plan, accepted>>, Rebuilt'
    PROVE  StableInv'
<1>1. DOMAIN results' = DOMAIN results \cup {k} /\ results'[k] = result
  BY DEF Returned
<1>2. \A i \in DOMAIN results : i # k => results'[i] = results[i]
  BY ReturnTyped
<1>3. job'[p] = None
  BY ReturnTyped
<1>4. \A q \in AllProcesses : q # p => job'[q] = job[q]
  BY ReturnTyped
<1>5. ASSUME NEW i \in DOMAIN results' PROVE Delivered(i)'
  <2>1. i \in 1..Len(plan) /\ ResultOK(results'[i], plan[i].item_ids)
    <3>1. CASE i = k
      BY <1>1, <3>1
    <3>2. CASE i # k
      <4>1. i \in DOMAIN results /\ results'[i] = results[i]
        BY <1>1, <1>2, <1>5, <3>2
      <4>2. Delivered(i)
        BY <4>1 DEF StableInv
      <4> QED BY <4>1, <4>2 DEF Delivered
    <3> QED BY <3>1, <3>2
  <2> QED BY <2>1 DEF Delivered, ResultOK
<1>6. ASSUME NEW q \in AllProcesses, job'[q] # None PROVE Underway(job[q])'
  <2>1. job'[q] = job[q] /\ job[q] # None
    BY <1>3, <1>4, <1>6
  <2>2. Underway(job[q])
    BY <2>1 DEF StableInv
  <2> QED BY <2>1, <2>2 DEF Underway
<1> QED BY <1>5, <1>6 DEF StableInv, PlanIsStable, Chunked, ItemsKnown

\* a chunk that is rebuilt has the planned items: no process diverges
LEMMA TakeStable ==
    ASSUME Typed, StableInv, NEW p \in Processes, Take(p)
    PROVE  StableInv'
<1> DEFINE k == NextChunk(p)
<1> DEFINE own == Materialized(p, plan[k])
<1>1. /\ phase = "planned" /\ k \in 1..Len(plan) /\ job[p] = None
      /\ last' = [last EXCEPT ![p] = <<plan[k].sample, SampleItemsOf(p, plan[k].sample)>>]
      /\ \/ /\ IdsOf(own) # plan[k].item_ids /\ phase' = "divergent"
            /\ UNCHANGED <<job, results>>
         \/ /\ IdsOf(own) = plan[k].item_ids /\ UNCHANGED phase
            /\ \/ job' = [job EXCEPT ![p] = NewJob(k, own)] /\ UNCHANGED results
               \/ Returned(p, k, LoadFailed(own))
      /\ UNCHANGED <<config, items, plan, accepted>>
  BY TakeIs
<1>2. p \in AllProcesses /\ Over(job, AllProcesses)
  BY ProcessesAreKnown DEF Typed
<1> HIDE DEF k
<1>3. IdsOf(own) = plan[k].item_ids /\ IsSeq(own) /\ Once(plan[k].item_ids)
  BY <1>1, <1>2, RebuiltIs
<1>4. Rebuilt'
  BY <1>1, <1>2, RememberIs
<1> HIDE DEF own
<1>5. IsSeq(IdsOf(own))
  BY <1>3, IdsAre
<1>6. CASE job' = [job EXCEPT ![p] = NewJob(k, own)] /\ UNCHANGED <<results, phase>>
  <2>1. job'[p] = NewJob(k, own) /\ \A q \in AllProcesses : q # p => job'[q] = job[q]
    BY <1>2, <1>6 DEF Over
  <2>2. /\ job'[p].chunk = k /\ job'[p].items = own /\ PreparedIds(job'[p]) = <<>>
        /\ job'[p].failed = <<>>
    <3>1. /\ job'[p].chunk = k /\ job'[p].items = own /\ job'[p].prepared = <<>>
          /\ job'[p].failed = <<>>
      BY <2>1 DEF NewJob
    <3>2. PreparedIds(job'[p]) = <<>>
      BY <3>1 DEF PreparedIds
    <3> QED BY <3>1, <3>2
  <2>3. Split(IdsOf(own), <<>>, <<>>, config.fail_fast)
    BY <1>5, SplitStart
  <2>4. Underway(job[p])'
    BY <1>1, <1>3, <2>2, <2>3 DEF Underway
  <2>5. ASSUME NEW q \in AllProcesses, job'[q] # None PROVE Underway(job[q])'
    <3>1. CASE q = p
      BY <2>4, <3>1
    <3>2. CASE q # p
      <4>1. job'[q] = job[q] /\ Underway(job[q])
        BY <2>1, <2>5, <3>2 DEF StableInv
      <4> QED BY <1>1, <4>1 DEF Underway
    <3> QED BY <3>1, <3>2
  <2>6. \A i \in DOMAIN results' : Delivered(i)'
    BY <1>1, <1>6 DEF StableInv, Delivered, ResultOK
  <2> QED BY <1>1, <1>4, <1>6, <2>5, <2>6 DEF StableInv, PlanIsStable, Chunked, ItemsKnown
<1>7. CASE Returned(p, k, LoadFailed(own)) /\ UNCHANGED phase
  <2> DEFINE ids == plan[k].item_ids
  <2> DEFINE result == LoadFailed(own)
  <2>1. result.status = "load_failed" /\ result.failed = ids /\ PreparedIds(result) = <<>>
    <3>1. result.status = "load_failed" /\ result.failed = ids /\ result.prepared = <<>>
      BY <1>3 DEF LoadFailed
    <3> QED BY <3>1 DEF PreparedIds
  <2>2. <<>> \o ids = ids
    <3>1. ids \in Seq(Range(ids))
      BY <1>3, <1>5 DEF IsSeq
    <3> QED BY <3>1, ConcatEmptySeq
  <2>3. Distinct(ids)
    BY <1>3, <1>5, DistinctIsOnce
  <2> HIDE DEF result, ids
  <2>4. ResultOK(result, ids)
    BY <2>1, <2>2, <2>3 DEF ResultOK
  <2>5. phase' = "planned" /\ Returned(p, k, result)
    BY <1>1, <1>7 DEF result
  <2> QED BY <1>1, <1>4, <2>4, <2>5, ReturnStable DEF ids
<1> QED BY <1>1, <1>3, <1>6, <1>7

\* one item of a job more
LEMMA UnderwayMore ==
    ASSUME NEW j, IsJob(j), Underway(j), Once(plan[j.chunk].item_ids),
           Len(j.prepared) + Len(j.failed) < Len(j.items),
           ~(config.fail_fast /\ j.failed # <<>>),
           NEW item, item = j.items[Len(j.prepared) + Len(j.failed) + 1],
           NEW e, e.item = item
    PROVE  Underway(Failing(j, item.item_id)) /\ Underway(Adding(j, e))
<1> DEFINE ids == IdsOf(j.items)
<1> DEFINE n == Len(j.prepared) + Len(j.failed)
<1> DEFINE ok == PreparedIds(j)
<1> DEFINE x == item.item_id
<1>0. /\ IsSeq(j.prepared) /\ IsSeq(j.failed)
      /\ j.prepared \in Seq(Range(j.prepared))
  BY DEF IsJob, IsSeq
<1>1. /\ Len(j.prepared) \in Nat /\ DOMAIN j.prepared = 1..Len(j.prepared)
      /\ Len(j.failed) \in Nat
  BY <1>0, SequenceIs
<1>2. /\ IsSeq(j.items) /\ ids = plan[j.chunk].item_ids
      /\ Split(ids, ok, j.failed, config.fail_fast) /\ j.chunk \in 1..Len(plan)
  BY DEF Underway
<1>3. IsSeq(ids) /\ Len(ids) = Len(j.items) /\ \A i \in 1..Len(j.items) : ids[i] = j.items[i].item_id
  BY <1>2, IdsAre
<1>4. /\ Len(ok) = Len(j.prepared) /\ IsSeq(ok)
      /\ ok = [i \in 1..Len(j.prepared) |-> j.prepared[i].item.item_id]
  <2>1. ok = [i \in 1..Len(j.prepared) |-> j.prepared[i].item.item_id]
    BY <1>1 DEF PreparedIds
  <2>2. ok = [i \in 1..Len(j.prepared) |-> ok[i]]
    BY <2>1
  <2> QED BY <1>1, <2>1, <2>2, MadeSequence
<1>5. ids[Len(ok) + Len(j.failed) + 1] = x
  <2>0. Len(j.items) \in Nat
    BY <1>2, SequenceIs
  <2>2. n < Len(j.items)
    OBVIOUS
  <2>3. n \in Nat
    <3>1. \A a, b \in Nat : a + b \in Nat
      OBVIOUS
    <3> QED BY <1>1, <3>1
  <2>1. n + 1 \in 1..Len(j.items)
    <3> HIDE DEF n
    <3> QED BY <2>0, <2>2, <2>3
  <2> QED BY <1>3, <1>4, <2>1
<1>6. /\ Split(ids, Append(ok, x), j.failed, config.fail_fast)
      /\ Split(ids, ok, Append(j.failed, x), config.fail_fast)
  <2>1. Len(ok) + Len(j.failed) < Len(ids) /\ Once(ids)
    BY <1>2, <1>3, <1>4
  <2> HIDE DEF ok, ids, x
  <2> QED BY <1>2, <1>3, <1>5, <2>1, SplitMore
<1>7. PreparedIds(Adding(j, e)) = Append(ok, x)
  <2> DEFINE m == Len(j.prepared)
  <2> DEFINE t == Append(j.prepared, e)
  <2> DEFINE u == Append(ok, x)
  <2>1. /\ Len(t) = m + 1 /\ DOMAIN t = 1..m + 1 /\ t[m + 1] = e
        /\ \A i \in 1..m : t[i] = j.prepared[i]
    <3> DEFINE A == Range(j.prepared) \cup {e}
    <3>1. Range(j.prepared) \subseteq A /\ e \in A
      OBVIOUS
    <3> HIDE DEF A
    <3>2. j.prepared \in Seq(A)
      BY <1>0, <3>1, SeqMonotonic
    <3>3. /\ t \in Seq(A) /\ Len(t) = m + 1 /\ t[m + 1] = e
          /\ \A i \in 1..m : t[i] = j.prepared[i]
      BY <3>1, <3>2, AppendProperties
    <3>4. DOMAIN t = 1..Len(t)
      BY <3>3, LenProperties
    <3> QED BY <3>3, <3>4
  <2>2. /\ Len(u) = m + 1 /\ DOMAIN u = 1..m + 1 /\ u[m + 1] = x
        /\ \A i \in 1..m : u[i] = ok[i]
        /\ u = [i \in 1..m + 1 |-> u[i]]
    <3> DEFINE A == Range(ok) \cup {x}
    <3>1. Range(ok) \subseteq A /\ x \in A
      OBVIOUS
    <3> HIDE DEF A, ok
    <3>2. ok \in Seq(A)
      BY <1>4, <3>1, SeqMonotonic DEF IsSeq
    <3>5. Len(ok) = m
      BY <1>4
    <3> HIDE DEF m, x
    <3>6. /\ u \in Seq(A) /\ Len(u) = Len(ok) + 1 /\ u[Len(ok) + 1] = x
          /\ \A i \in 1..Len(ok) : u[i] = ok[i]
      BY <3>1, <3>2, AppendProperties
    <3>3. /\ u \in Seq(A) /\ Len(u) = m + 1 /\ u[m + 1] = x
          /\ \A i \in 1..m : u[i] = ok[i]
      BY <3>5, <3>6
    <3>4. DOMAIN u = 1..Len(u) /\ u = [i \in 1..Len(u) |-> u[i]]
      BY <3>3, LenProperties
    <3> HIDE DEF u
    <3> QED BY <3>3, <3>4
  <2> HIDE DEF u
  <2>3. Adding(j, e).prepared = t
    BY DEF Adding
  <2>4. PreparedIds(Adding(j, e)) = [i \in 1..m + 1 |-> t[i].item.item_id]
    BY <2>1, <2>3 DEF PreparedIds
  <2>5. \A i \in 1..m : ok[i] = j.prepared[i].item.item_id
    BY <1>4
  <2> HIDE DEF t, ok
  <2>6. \A i \in 1..m + 1 : t[i].item.item_id = u[i]
    <3> TAKE i \in 1..m + 1
    <3>1. CASE i = m + 1
      BY <2>1, <2>2, <3>1
    <3>2. CASE i # m + 1
      <4>1. i \in 1..m
        BY <1>1, <3>2
      <4> QED BY <2>1, <2>2, <2>5, <4>1
    <3> QED BY <3>1, <3>2
  <2>7. [i \in 1..m + 1 |-> t[i].item.item_id] = u
    BY <2>2, <2>6, SMTT(30)
  <2> QED BY <2>4, <2>7 DEF u
<1>8. /\ PreparedIds(Failing(j, x)) = ok
      /\ Failing(j, x).failed = Append(j.failed, x) /\ Failing(j, x).items = j.items
      /\ Failing(j, x).chunk = j.chunk
  <2>1. /\ Failing(j, x).prepared = j.prepared
        /\ Failing(j, x).failed = Append(j.failed, x) /\ Failing(j, x).items = j.items
        /\ Failing(j, x).chunk = j.chunk
    BY ZenonT(30) DEF Failing
  <2> QED BY <2>1, ZenonT(30) DEF PreparedIds
<1>9. /\ Adding(j, e).failed = j.failed /\ Adding(j, e).items = j.items
      /\ Adding(j, e).chunk = j.chunk
  BY DEF Adding
<1> HIDE DEF ok, ids
<1>10. Underway(Failing(j, x))
  BY <1>2, <1>6, <1>8, ZenonT(30) DEF Underway, ids
<1>11. Underway(Adding(j, e))
  BY <1>2, <1>6, <1>7, <1>9 DEF Underway, ids
<1> QED BY <1>10, <1>11

\* a job that goes on keeps the plan stable
LEMMA WorkingStable ==
    ASSUME Typed, StableInv, NEW p \in Processes, Working(p), Underway(job'[p]),
           UNCHANGED <<config, items, phase, plan, last, results, accepted>>
    PROVE  StableInv'
<1>1. \A q \in AllProcesses : q # p => job'[q] = job[q]
  BY DEF Typed, Working, Over
<1>2. phase = "planned"
  BY ProcessesAreKnown DEF Working, StableInv, Idle
<1>3. ASSUME NEW q \in AllProcesses, job'[q] # None PROVE Underway(job[q])'
  <2>1. CASE q = p
    BY <2>1 DEF Underway
  <2>2. CASE q # p
    <3>1. job'[q] = job[q] /\ Underway(job[q])
      BY <1>1, <1>3, <2>2 DEF StableInv
    <3> QED BY <3>1 DEF Underway
  <2> QED BY <2>1, <2>2
<1>4. \A i \in DOMAIN results' : Delivered(i)'
  BY DEF StableInv, Delivered, ResultOK
<1>5. Rebuilt'
  BY DEF StableInv, Rebuilt
<1> QED BY <1>2, <1>3, <1>4, <1>5 DEF StableInv, PlanIsStable, Chunked, ItemsKnown

\* preparing, checking and decoding take the next item, or none
LEMMA AttemptStable ==
    ASSUME Typed, StableInv, NEW p \in Processes, HasWork(p), Working(p), NEW mask,
           Attempt(p, Doing(p), mask) \/ job'[p] = Failing(job[p], Doing(p).item_id),
           UNCHANGED <<config, items, phase, plan, last, results, accepted>>
    PROVE  StableInv'
<1> DEFINE j == job[p]
<1>1. p \in AllProcesses /\ j # None /\ IsJob(j) /\ Underway(j)
  BY ProcessesAreKnown DEF Typed, StableInv, Working
<1>2. phase = "planned" /\ j.chunk \in 1..Len(plan)
  BY <1>1 DEF StableInv, Idle, Underway
<1>3. Once(plan[j.chunk].item_ids)
  BY <1>1, <1>2, RebuiltIs
<1>4. /\ Len(j.prepared) + Len(j.failed) < Len(j.items)
      /\ ~(config.fail_fast /\ j.failed # <<>>)
      /\ Doing(p) = j.items[Len(j.prepared) + Len(j.failed) + 1]
  BY DEF HasWork, Doing
<1> HIDE DEF j
<1>5. \A e : e.item = Doing(p) =>
        Underway(Failing(j, Doing(p).item_id)) /\ Underway(Adding(j, e))
  BY <1>1, <1>3, <1>4, UnderwayMore
<1>6. Underway(Failing(j, Doing(p).item_id))
  <2>1. [item |-> Doing(p)].item = Doing(p)
    OBVIOUS
  <2> QED BY <1>5, <2>1
<1>7. Underway(job'[p])
  <2>1. CASE job'[p] = Failing(job[p], Doing(p).item_id)
    BY <1>6, <2>1 DEF j
  <2>2. CASE \E e : EntryOf(e, Doing(p), mask) /\ job'[p] = Adding(job[p], e)
    BY <1>5, <2>2 DEF EntryOf, j
  <2> QED BY <2>1, <2>2 DEF Attempt
<1> QED BY <1>7, WorkingStable

\* a digest that was checked keeps the plan stable
LEMMA CheckedStable ==
    ASSUME Typed, StableInv, NEW p \in Processes, Working(p), Checked(p),
           UNCHANGED <<config, items, phase, plan, last, results, accepted>>
    PROVE  StableInv'
<1>1. Underway(job[p])
  BY ProcessesAreKnown DEF StableInv, Working
<1>2. /\ job'[p].chunk = job[p].chunk /\ job'[p].items = job[p].items
      /\ job'[p].prepared = job[p].prepared /\ job'[p].failed = job[p].failed
  BY DEF Checked
<1>3. PreparedIds(job'[p]) = PreparedIds(job[p])
  BY <1>2 DEF PreparedIds
<1>4. Underway(job'[p])
  BY <1>1, <1>2, <1>3 DEF Underway
<1> QED BY <1>4, WorkingStable

\* what a finished job returns fits its chunk
LEMMA FinishStable ==
    ASSUME Typed, StableInv, NEW p \in Processes, Finish(p)
    PROVE  StableInv'
<1> DEFINE j == job[p]
<1> DEFINE k == j.chunk
<1> DEFINE ids == plan[k].item_ids
<1> DEFINE ok == PreparedIds(j)
<1> DEFINE result == Done(j)
<1>1. /\ p \in AllProcesses /\ j # None /\ IsJob(j) /\ ~HasWork(p)
      /\ Returned(p, k, result)
      /\ UNCHANGED <<config, items, phase, plan, last, accepted>>
  BY FinishIs
<1>2. Underway(j) /\ phase = "planned"
  BY <1>1 DEF StableInv, Idle
<1>3. k \in 1..Len(plan) /\ IsSeq(j.items) /\ IdsOf(j.items) = ids
      /\ Split(ids, ok, j.failed, config.fail_fast)
  BY <1>2 DEF Underway
<1>4. Once(ids)
  BY <1>1, <1>2, <1>3, RebuiltIs
<1>5. IsSeq(ids) /\ Len(ids) = Len(j.items)
  BY <1>3, IdsAre
<1>6. Len(ok) = Len(j.prepared)
  <2>1. IsSeq(j.prepared)
    BY <1>1 DEF IsJob, IsSeq
  <2>2. Len(j.prepared) \in Nat /\ DOMAIN j.prepared = 1..Len(j.prepared)
    BY <2>1, SequenceIs
  <2>3. ok = [i \in 1..Len(j.prepared) |-> j.prepared[i].item.item_id]
    BY <2>2 DEF PreparedIds
  <2>4. ok = [i \in 1..Len(j.prepared) |-> ok[i]]
    BY <2>3
  <2> HIDE DEF ok
  <2> QED BY <2>2, <2>4, MadeSequence
<1>7. ~(Len(ok) + Len(j.failed) < Len(ids)) \/ (config.fail_fast /\ j.failed # <<>>)
  BY <1>1, <1>5, <1>6 DEF HasWork
<1>8. /\ PreparedIds(result) = ok /\ result.failed = j.failed /\ result.status = "prepared"
  <2>1. /\ result.prepared = j.prepared /\ result.failed = j.failed
        /\ result.status = "prepared"
    BY DEF Done
  <2> QED BY <2>1 DEF PreparedIds
<1> HIDE DEF ok, result, ids
<1>9. Ended(ids, ok, j.failed, config.fail_fast)
  <2> DEFINE f == j.failed
  <2> DEFINE fast == config.fail_fast
  <2>1. /\ IsSeq(ids) /\ Once(ids) /\ Split(ids, ok, f, fast)
        /\ ~(Len(ok) + Len(f) < Len(ids)) \/ (fast /\ f # <<>>)
    BY <1>3, <1>4, <1>5, <1>7
  <2> HIDE DEF f, fast, j, k
  <2>2. Ended(ids, ok, f, fast)
    BY <2>1, SplitEnd
  <2> QED BY <2>2 DEF f, fast
<1>10. ResultOK(result, ids)
  BY <1>8, <1>9 DEF ResultOK, Ended
<1>11. Rebuilt'
  BY <1>1 DEF StableInv, Rebuilt
<1> QED BY <1>1, <1>2, <1>3, <1>10, <1>11, ReturnStable DEF ids

\* a result that fits its chunk is accepted
LEMMA AcceptStable ==
    ASSUME Typed, StableInv, Accept
    PROVE  StableInv'
<1> DEFINE k == accepted + 1
<1> DEFINE ids == IdsOf(Materialized(Main, plan[k]))
<1>1. /\ phase = "planned" /\ k \in DOMAIN results
      /\ last' = [last EXCEPT ![Main] =
                    <<plan[k].sample, SampleItemsOf(Main, plan[k].sample)>>]
      /\ IF ids # plan[k].item_ids THEN phase' = "divergent" /\ UNCHANGED accepted
         ELSE IF ResultOK(results[k], ids) THEN accepted' = k /\ UNCHANGED phase
         ELSE phase' = "contract_error" /\ UNCHANGED accepted
      /\ UNCHANGED <<config, items, plan, job, results>>
  BY DEF Accept, Remember
<1>2. Main \in AllProcesses
  BY BoundsAssumption DEF Main, AllProcesses
<1>3. k \in 1..Len(plan) /\ ResultOK(results[k], plan[k].item_ids)
  BY <1>1 DEF StableInv, Delivered
<1> HIDE DEF k
<1>4. ids = plan[k].item_ids
  BY <1>1, <1>2, <1>3, RebuiltIs
<1>5. Rebuilt'
  BY <1>1, <1>2, <1>3, RememberIs
<1>6. phase' = phase /\ accepted' = k
  BY <1>1, <1>3, <1>4
<1>7. \A i \in DOMAIN results' : Delivered(i)'
  BY <1>1 DEF StableInv, Delivered, ResultOK
<1>8. \A q \in AllProcesses : job'[q] # None => Underway(job[q])'
  BY <1>1 DEF StableInv, Underway
<1>9. accepted' \in 0..Len(plan')
  BY <1>1, <1>3, <1>6
<1> QED BY <1>1, <1>5, <1>6, <1>7, <1>8, <1>9 DEF StableInv, PlanIsStable, Chunked, ItemsKnown

\* steps of a worker keep the plan stable
LEMMA WorkStable ==
    ASSUME Typed, StableInv, NEW p \in Processes, Works(p)
    PROVE  StableInv'
<1>1. CASE PrepareItem(p)
  <2>1. Working(p) /\ \E mask : Attempt(p, Doing(p), mask)
    BY <1>1, PrepareIs
  <2>2. HasWork(p) /\ UNCHANGED <<config, items, phase, plan, last, results, accepted>>
    BY <1>1 DEF PrepareItem
  <2> QED BY <2>1, <2>2, AttemptStable
<1>2. CASE CheckDigest(p)
  <2>1. Working(p) /\ (Checked(p) \/ job'[p] = Failing(job[p], Doing(p).item_id))
    BY <1>2, CheckIs
  <2>2. HasWork(p) /\ UNCHANGED <<config, items, phase, plan, last, results, accepted>>
    BY <1>2 DEF CheckDigest
  <2> QED BY <2>1, <2>2, AttemptStable, CheckedStable
<1>3. CASE DecodeMask(p)
  <2> DEFINE content == Decoded(p, Recipe(Doing(p)), job[p].digest)
  <2> DEFINE masks == ItemMasks(Doing(p), ExplicitMask(Frames[Doing(p).sample], content))
  <2>1. Working(p) /\ \E mask \in masks : Attempt(p, Doing(p), mask)
    BY <1>3, DecodeIs
  <2>2. HasWork(p) /\ UNCHANGED <<config, items, phase, plan, last, results, accepted>>
    BY <1>3 DEF DecodeMask
  <2> HIDE DEF masks
  <2> QED BY <2>1, <2>2, AttemptStable
<1> QED BY <1>1, <1>2, <1>3, TakeStable, FinishStable DEF Works

\* every step keeps the plan stable
LEMMA NextStable == Typed /\ StableInv /\ [Next]_vars => StableInv'
<1> SUFFICES ASSUME Typed, StableInv, [Next]_vars PROVE StableInv'
  OBVIOUS
<1>1. CASE \E p \in Processes : Works(p)
  BY <1>1, WorkStable
<1>2. CASE \E f \in DOMAIN files, c \in Contents : ReplaceFile(f, c)
  BY <1>2, SameStable DEF ReplaceFile
<1>3. CASE UNCHANGED vars
  BY <1>3, SameStable DEF vars
<1> QED BY <1>1, <1>2, <1>3, ResolveStable, EnumerateStable, AcceptStable DEF Next, Step

\* For any configurations, number of workers and schedule, a process rebuilds
\* the items of a chunk as they were planned, whatever it rebuilt before
\* (plan/builder.py:104), and the main process never finds a result reordered
\* or cut short, with fail_fast and without (runtime/pipeline.py:417-466).
THEOREM PlanStableSafe == Spec => []PlanIsStable
<1>1. Init => Typed /\ StableInv
  BY InitTyped, InitStable
<1>2. (Typed /\ StableInv) /\ [Next]_vars => (Typed /\ StableInv)'
  BY NextTyped, NextStable
<1>3. Typed /\ StableInv => PlanIsStable
  BY DEF StableInv
<1> QED BY <1>1, <1>2, <1>3, PTL DEF Spec

-----------------------------------------------------------------------------
(* Means, rounded half to even.                                            *)

\* rounding half to even is off by at most a half
LEMMA RoundedIs ==
    ASSUME NEW a \in Int, NEW n \in Nat \ {0}
    PROVE  /\ HalfEven(a, n) \in Int
           /\ 2 * (n * HalfEven(a, n)) - 2 * a \in -n..n
<1> DEFINE q == a \div n
<1> DEFINE r == a % n
<1>1. r \in 0..n - 1 /\ q \in Int /\ n * q \in Int /\ a = n * q + r
  BY DivMod
<1> HIDE DEF q, r
<1>2. HalfEven(a, n) = IF 2 * r > n \/ (2 * r = n /\ q % 2 = 1) THEN q + 1 ELSE q
  BY DEF HalfEven, q, r
<1>3. CASE HalfEven(a, n) = q + 1 /\ 2 * r >= n
  <2>1. n * (q + 1) = n * q + n
    BY <1>1
  <2> QED BY <1>1, <1>3, <2>1
<1>4. CASE HalfEven(a, n) = q /\ 2 * r <= n
  BY <1>1, <1>4
<1> QED BY <1>1, <1>2, <1>3, <1>4

\* rounded means of parts of a whole
LEMMA RoundedParts ==
    ASSUME NEW a \in Nat, NEW b \in Nat, NEW n \in Nat \ {0}, NEW whole \in Nat,
           a + b = whole * n
    PROVE  /\ HalfEven(a, n) \in 0..whole /\ HalfEven(b, n) \in 0..whole
           /\ HalfEven(a, n) + HalfEven(b, n) - whole \in -1..1
<1> DEFINE x == HalfEven(a, n)
<1> DEFINE y == HalfEven(b, n)
<1>1. x \in Int /\ y \in Int
  BY RoundedIs
<1>2. 2 * (n * x) - 2 * a \in -n..n /\ 2 * (n * y) - 2 * b \in -n..n
  BY RoundedIs
<1> HIDE DEF x, y
<1>3. ASSUME NEW z \in Int, NEW c \in 0..whole * n, 2 * (n * z) - 2 * c \in -n..n
      PROVE  z \in 0..whole
  <2>1. z >= 0
    <3> SUFFICES ASSUME z <= -1 PROVE FALSE
      OBVIOUS
    <3>1. n * z <= n * (-1) /\ n * z \in Int /\ n * (-1) = -n
      OBVIOUS
    <3> QED BY <1>3, <3>1
  <2>2. z <= whole
    <3> SUFFICES ASSUME z >= whole + 1 PROVE FALSE
      OBVIOUS
    <3>1. n * z >= n * (whole + 1) /\ n * z \in Int /\ n * (whole + 1) = whole * n + n
      OBVIOUS
    <3>2. whole * n \in Nat
      OBVIOUS
    <3> QED BY <1>3, <3>1, <3>2
  <2> QED BY <2>1, <2>2
<1>4. whole * n \in Nat /\ a \in 0..whole * n /\ b \in 0..whole * n
  OBVIOUS
<1>5. x \in 0..whole /\ y \in 0..whole
  BY <1>1, <1>2, <1>3, <1>4
<1>6. x + y - whole \in -1..1
  <2> DEFINE z == x + y - whole
  <2>1. z \in Int /\ n * z = n * x + n * y - whole * n
    BY <1>1
  <2>2. n * x \in Int /\ n * y \in Int /\ n * z \in Int
    BY <1>1
  <2>3. 2 * (n * z) \in -2 * n..2 * n
    BY <1>2, <1>4, <2>1, <2>2
  <2> HIDE DEF z
  <2>4. n * z <= n /\ n * z >= -n
    BY <2>2, <2>3
  <2>5. z <= 1
    <3> SUFFICES ASSUME z >= 2 PROVE FALSE
      BY <2>1
    <3>1. n * z >= n * 2 /\ n * 2 > n
      BY <2>1
    <3> QED BY <2>2, <2>4, <3>1
  <2>6. z >= -1
    <3> SUFFICES ASSUME z <= -2 PROVE FALSE
      BY <2>1
    <3>1. n * z <= n * (-2) /\ n * (-2) < -n
      BY <2>1
    <3> QED BY <2>2, <2>4, <3>1
  <2> QED BY <2>1, <2>5, <2>6 DEF z
<1> QED BY <1>5, <1>6 DEF x, y

-----------------------------------------------------------------------------
(* Masks lie in their frame.                                               *)

FrameShapes == [t : Nat \ {0}, h : Nat \ {0}, w : Nat \ {0}]

\* a mask of the frame, for all frames or for each
InFrame(shape, m) ==
    /\ m = [per_frame |-> m.per_frame, at |-> m.at]
    /\ m.per_frame \in BOOLEAN /\ IsSeq(m.at)
    /\ Len(m.at) = IF m.per_frame THEN shape.t ELSE 1
    /\ \A i \in 1..Len(m.at) : m.at[i] \subseteq Pixels(shape)

\* a frame has as many pixels as its sides say
LEMMA PixelsAre ==
    ASSUME NEW shape \in FrameShapes
    PROVE  /\ IsFiniteSet(Pixels(shape)) /\ Cardinality(Pixels(shape)) = shape.h * shape.w
           /\ shape.h \in Nat \ {0} /\ shape.w \in Nat \ {0} /\ shape.t \in Nat \ {0}
           /\ shape.h * shape.w \in Nat
<1>1. shape.h \in Nat \ {0} /\ shape.w \in Nat \ {0} /\ shape.t \in Nat \ {0}
  BY DEF FrameShapes
<1> DEFINE y == shape.h
<1> DEFINE x == shape.w
<1>2. y \in Nat \ {0} /\ x \in Nat \ {0} /\ Pixels(shape) = (0..(y - 1)) \X (0..(x - 1))
  BY <1>1 DEF Pixels
<1> HIDE DEF x, y
<1>3. IsFiniteSet(0..(y - 1)) /\ Cardinality(0..(y - 1)) = y
  <2>1. 0 \in Int /\ y - 1 \in Int
    BY <1>2
  <2>2. IsFiniteSet(0..(y - 1)) /\ Cardinality(0..(y - 1)) = IF 0 > y - 1 THEN 0 ELSE (y - 1) - 0 + 1
    BY <2>1, FS_Interval
  <2> QED BY <1>2, <2>2
<1>4. IsFiniteSet(0..(x - 1)) /\ Cardinality(0..(x - 1)) = x
  <2>1. 0 \in Int /\ x - 1 \in Int
    BY <1>2
  <2>2. IsFiniteSet(0..(x - 1)) /\ Cardinality(0..(x - 1)) = IF 0 > x - 1 THEN 0 ELSE (x - 1) - 0 + 1
    BY <2>1, FS_Interval
  <2> QED BY <1>2, <2>2
<1>5. IsFiniteSet(Pixels(shape)) /\ Cardinality(Pixels(shape)) = y * x
  <2> DEFINE S == 0..(y - 1)
  <2> DEFINE T == 0..(x - 1)
  <2>1. IsFiniteSet(S) /\ IsFiniteSet(T) /\ Cardinality(S) = y /\ Cardinality(T) = x
        /\ Pixels(shape) = S \X T
    BY <1>2, <1>3, <1>4
  <2> HIDE DEF S, T
  <2>2. IsFiniteSet(S \X T) /\ Cardinality(S \X T) = Cardinality(S) * Cardinality(T)
    BY <2>1, FS_Product
  <2> QED BY <2>1, <2>2
<1>6. y * x \in Nat
  BY <1>2
<1> QED BY <1>1, <1>5, <1>6 DEF x, y

\* pixels of the frame make a mask of it
LEMMA WholeInFrame ==
    ASSUME NEW shape, NEW pixels, pixels \subseteq Pixels(shape)
    PROVE  InFrame(shape, Whole(pixels))
<1> DEFINE s == <<pixels>>
<1>1. IsSeq(s) /\ Len(s) = 1 /\ s[1] = pixels
  <2>1. s \in Seq({pixels}) /\ Len(s) = 1 /\ s[1] = pixels
    OBVIOUS
  <2> QED BY <2>1, SequenceOf
<1> DEFINE m == Whole(pixels)
<1>2. m = [per_frame |-> FALSE, at |-> s] /\ m.per_frame = FALSE /\ m.at = s
  BY DEF Whole
<1> HIDE DEF m, s
<1>3. \A i \in 1..Len(s) : s[i] \subseteq Pixels(shape)
  <2> TAKE i \in 1..Len(s)
  <2>1. i = 1
    BY <1>1
  <2> QED BY <1>1, <2>1
<1>4. InFrame(shape, m)
  BY <1>1, <1>2, <1>3 DEF InFrame
<1> QED BY <1>4 DEF m

\* a grid cell lies in the frame
LEMMA GridInFrame ==
    ASSUME NEW shape, NEW params
    PROVE  InFrame(shape, GridMask(shape, params)) /\ ~GridMask(shape, params).per_frame
<1> DEFINE pixels == {p \in Pixels(shape) :
             /\ (params.row * shape.h) \div params.rows <= p[1]
             /\ p[1] < ((params.row + 1) * shape.h) \div params.rows
             /\ (params.col * shape.w) \div params.cols <= p[2]
             /\ p[2] < ((params.col + 1) * shape.w) \div params.cols}
<1>1. pixels \subseteq Pixels(shape) /\ GridMask(shape, params) = Whole(pixels)
  BY DEF GridMask
<1> HIDE DEF pixels
<1> QED BY <1>1, WholeInFrame DEF Whole

\* a decoded file lies in the frame if it has its shape
LEMMA ExplicitInFrame ==
    ASSUME NEW shape, NEW content \in Contents \cup {Undecodable},
           FitsSample(shape, ExplicitMask(shape, content))
    PROVE  InFrame(shape, ExplicitMask(shape, content))
<1>1. ~(content = Undecodable \/ Bitmap[content].shape # [h |-> shape.h, w |-> shape.w])
      /\ ExplicitMask(shape, content) = Whole(Bitmap[content].pixels)
  BY DEF FitsSample, IsMask, ExplicitMask
<1>2. Bitmap[content].pixels \subseteq Pixels(Bitmap[content].shape)
  BY <1>1, MasksAssumption
<1>3. Pixels(Bitmap[content].shape) = Pixels(shape)
  BY <1>1 DEF Pixels
<1> QED BY <1>1, <1>2, <1>3, WholeInFrame

\* a box is cut to the frame
LEMMA BoxInFrame ==
    ASSUME NEW shape, NEW box, NEW scale
    PROVE  BoxPixels(shape, box, scale) \subseteq Pixels(shape)
<1>1. \A low, high, limit : Between(low, high, scale, limit) \subseteq 0..(limit - 1)
  BY DEF Between
<1>2. CASE box = Untracked
  BY <1>2 DEF BoxPixels
<1>3. CASE box # Untracked
  <2> DEFINE y == Between(box.y1, box.y2, scale, shape.h)
  <2> DEFINE x == Between(box.x1, box.x2, scale, shape.w)
  <2>1. y \subseteq 0..(shape.h - 1) /\ x \subseteq 0..(shape.w - 1)
    BY <1>1
  <2>2. BoxPixels(shape, box, scale) = y \X x
    BY <1>3 DEF BoxPixels
  <2> HIDE DEF x, y
  <2> QED BY <2>1, <2>2 DEF Pixels
<1> QED BY <1>2, <1>3

\* boxes of a tracked part make a mask of the frame
LEMMA SkeletonInFrame ==
    ASSUME NEW shape, NEW params, FitsSample(shape, SkeletonMask(shape, params))
    PROVE  InFrame(shape, SkeletonMask(shape, params)) /\ SkeletonMask(shape, params).per_frame
<1> DEFINE key == <<params.sample, params.part>>
<1> DEFINE m == SkeletonMask(shape, params)
<1> DEFINE at == [i \in DOMAIN Boxes[key].boxes |-> BoxPixels(shape, Boxes[key].boxes[i], params.scale)]
<1>1. m # Failed /\ (m.per_frame => Len(m.at) = shape.t)
  BY DEF FitsSample, IsMask
<1>2. key \in DOMAIN Boxes /\ m = [per_frame |-> TRUE, at |-> at]
  BY <1>1, SMTT(30) DEF SkeletonMask
<1>3. key \in DOMAIN Tracks /\ DOMAIN Boxes[key].boxes = DOMAIN Tracks[key].joints
  BY <1>2 DEF Boxes
<1>4. IsSeq(Tracks[key].joints)
  <2>1. Tracks[key].joints \in Seq(SUBSET (Int \X Int))
    BY <1>3, MasksAssumption
  <2> QED BY <2>1, SequenceOf
<1>5. Len(Tracks[key].joints) \in Nat /\ DOMAIN Boxes[key].boxes = 1..Len(Tracks[key].joints)
  BY <1>3, <1>4, SequenceIs
<1>6. IsSeq(at)
  <2>1. at = [i \in 1..Len(Tracks[key].joints) |-> at[i]]
    BY <1>5
  <2> HIDE DEF at
  <2> QED BY <1>5, <2>1, MadeSequence
<1>7. \A i \in DOMAIN at : at[i] \subseteq Pixels(shape)
  BY BoxInFrame
<1> HIDE DEF at, key
<1>8. DOMAIN at = 1..Len(at)
  BY <1>6, SequenceIs
<1>9. m.per_frame = TRUE /\ m.at = at
  BY <1>2
<1> HIDE DEF m
<1>10. InFrame(shape, m) /\ m.per_frame
  BY <1>1, <1>2, <1>6, <1>7, <1>8, <1>9 DEF InFrame
<1> QED BY <1>10 DEF m

\* a target moved to where it fits lies in the frame
LEMMA MovedInFrame ==
    ASSUME NEW shape \in FrameShapes, NEW pixels, pixels \subseteq Pixels(shape), pixels # {},
           NEW by \in Offsets(shape, pixels)
    PROVE  Moved(pixels, by) \subseteq Pixels(shape)
<1> DEFINE rows == {p[1] : p \in pixels}
<1> DEFINE cols == {p[2] : p \in pixels}
<1>1. shape.h \in Nat /\ shape.w \in Nat
  BY PixelsAre
<1>2. \A p \in pixels : p[1] \in rows /\ p[2] \in cols
  OBVIOUS
<1>3. rows \subseteq 0..(shape.h - 1) /\ cols \subseteq 0..(shape.w - 1) /\ rows # {} /\ cols # {}
  BY DEF Pixels
<1>4. PICK r \in 0..(shape.h - Max(rows) + Min(rows) - 1) :
           \E c \in 0..(shape.w - Max(cols) + Min(cols) - 1) : by = <<r - Min(rows), c - Min(cols)>>
  <2>1. Offsets(shape, pixels) = {<<r - Min(rows), c - Min(cols)>> :
              r \in 0..(shape.h - Max(rows) + Min(rows) - 1),
              c \in 0..(shape.w - Max(cols) + Min(cols) - 1)}
    BY DEF Offsets
  <2> HIDE DEF rows, cols
  <2> QED BY <2>1
<1>9. PICK c \in 0..(shape.w - Max(cols) + Min(cols) - 1) : by = <<r - Min(rows), c - Min(cols)>>
  BY <1>4
<1> HIDE DEF rows, cols
<1>5. /\ Max(rows) \in rows /\ \A y \in rows : y <= Max(rows)
      /\ Min(rows) \in rows /\ \A y \in rows : Min(rows) <= y
  <2>1. rows \subseteq Nat /\ rows \subseteq Int
    BY <1>3
  <2>2. \E b \in Int : \A y \in rows : y <= b
    <3>1. shape.h \in Int /\ \A y \in rows : y <= shape.h
      BY <1>1, <1>3
    <3> QED BY <3>1
  <2> QED BY <1>3, <2>1, <2>2, MaxIsIn, MinIsIn
<1>6. /\ Max(cols) \in cols /\ \A x \in cols : x <= Max(cols)
      /\ Min(cols) \in cols /\ \A x \in cols : Min(cols) <= x
  <2>1. cols \subseteq Nat /\ cols \subseteq Int
    BY <1>3
  <2>2. \E b \in Int : \A x \in cols : x <= b
    <3>1. shape.w \in Int /\ \A x \in cols : x <= shape.w
      BY <1>1, <1>3
    <3> QED BY <3>1
  <2> QED BY <1>3, <2>1, <2>2, MaxIsIn, MinIsIn
<1>7. ASSUME NEW p \in pixels PROVE <<p[1] + by[1], p[2] + by[2]>> \in Pixels(shape)
  <2>1. p[1] \in rows /\ p[2] \in cols
    BY <1>2
  <2>2. by[1] = r - Min(rows) /\ by[2] = c - Min(cols)
    BY <1>9
  <2>3. p[1] + by[1] \in 0..(shape.h - 1)
    <3> DEFINE low == Min(rows)
    <3> DEFINE high == Max(rows)
    <3> DEFINE limit == shape.h
    <3>1. low \in rows /\ high \in rows /\ p[1] <= high /\ low <= p[1]
      BY <1>5, <2>1
    <3>2. rows \subseteq 0..(limit - 1) /\ limit \in Nat
      BY <1>1, <1>3
    <3>3. r \in 0..(limit - high + low - 1) /\ by[1] = r - low
      BY <1>4, <2>2
    <3> HIDE DEF low, high, limit
    <3>4. p[1] \in 0..(limit - 1) /\ low \in 0..(limit - 1) /\ high \in 0..(limit - 1)
      BY <2>1, <3>1, <3>2
    <3>5. p[1] + by[1] \in 0..(limit - 1)
      BY <3>1, <3>2, <3>3, <3>4
    <3> QED BY <3>5 DEF limit
  <2>4. p[2] + by[2] \in 0..(shape.w - 1)
    <3> DEFINE low == Min(cols)
    <3> DEFINE high == Max(cols)
    <3> DEFINE limit == shape.w
    <3>1. low \in cols /\ high \in cols /\ p[2] <= high /\ low <= p[2]
      BY <1>6, <2>1
    <3>2. cols \subseteq 0..(limit - 1) /\ limit \in Nat
      BY <1>1, <1>3
    <3>3. c \in 0..(limit - high + low - 1) /\ by[2] = c - low
      BY <1>9, <2>2
    <3> HIDE DEF low, high, limit
    <3>4. p[2] \in 0..(limit - 1) /\ low \in 0..(limit - 1) /\ high \in 0..(limit - 1)
      BY <2>1, <3>1, <3>2
    <3>5. p[2] + by[2] \in 0..(limit - 1)
      BY <3>1, <3>2, <3>3, <3>4
    <3> QED BY <3>5 DEF limit
  <2> QED BY <2>3, <2>4 DEF Pixels
<1> QED BY <1>7 DEF Moved

\* a complement lies in the frame
LEMMA InvertedInFrame ==
    ASSUME NEW shape, NEW m, InFrame(shape, m)
    PROVE  /\ InFrame(shape, Inverted(shape, m))
           /\ Len(Inverted(shape, m).at) = Len(m.at)
           /\ Inverted(shape, m).per_frame = m.per_frame
           /\ \A i \in 1..Len(m.at) : Inverted(shape, m).at[i] = Pixels(shape) \ m.at[i]
<1> DEFINE at == [i \in DOMAIN m.at |-> Pixels(shape) \ m.at[i]]
<1> DEFINE n == Inverted(shape, m)
<1>1. /\ m = [per_frame |-> m.per_frame, at |-> m.at]
      /\ m.per_frame \in BOOLEAN /\ IsSeq(m.at)
      /\ Len(m.at) = IF m.per_frame THEN shape.t ELSE 1
  BY DEF InFrame
<1>2. n = [per_frame |-> m.per_frame, at |-> at]
  <2> DEFINE b == m.per_frame
  <2> DEFINE a == m.at
  <2>1. m = [per_frame |-> b, at |-> a] /\ n = [m EXCEPT !.at = at]
    BY <1>1 DEF Inverted
  <2> HIDE DEF a, b, n, at
  <2>2. n = [per_frame |-> b, at |-> at]
    BY <2>1
  <2> QED BY <2>2 DEF b
<1>3. Len(m.at) \in Nat /\ DOMAIN m.at = 1..Len(m.at)
  BY <1>1, SequenceIs
<1>4. at = [i \in 1..Len(m.at) |-> at[i]] /\ \A i \in 1..Len(m.at) : at[i] = Pixels(shape) \ m.at[i]
  BY <1>3
<1> HIDE DEF at
<1>5. IsSeq(at) /\ Len(at) = Len(m.at)
  BY <1>3, <1>4, MadeSequence
<1>6. n.per_frame = m.per_frame /\ n.at = at
  BY <1>2
<1> HIDE DEF n
<1>7. InFrame(shape, n)
  BY <1>1, <1>2, <1>4, <1>5, <1>6 DEF InFrame
<1> QED BY <1>4, <1>5, <1>6, <1>7 DEF n

-----------------------------------------------------------------------------
(* Areas of a mask and of its complement.                                  *)

AreasOf(m) == [i \in DOMAIN m.at |-> Cardinality(m.at[i])]

\* the total area of a mask is a sum over its frames
LEMMA TotalIs ==
    ASSUME NEW m, IsFiniteSet(DOMAIN m.at)
    PROVE  \E g : Sums(AreasOf(m), g, DOMAIN m.at) /\ TotalArea(m) = g[DOMAIN m.at]
<1> DEFINE S == DOMAIN m.at
<1> DEFINE folded(g) == g = [s \in SUBSET S |->
              IF s = {} THEN 0 ELSE Cardinality(m.at[CHOOSE x \in s : TRUE])
                                    + g[s \ {CHOOSE x \in s : TRUE}]]
<1>1. TotalArea(m) = (CHOOSE g : folded(g))[S]
  BY DEF TotalArea, MapThenSumSet, MapThenFoldSet
<1>2. ASSUME NEW g PROVE folded(g) <=> Sums(AreasOf(m), g, S)
  <2>1. ASSUME NEW s \in SUBSET S
        PROVE  Share(AreasOf(m), g, s) =
                 IF s = {} THEN 0 ELSE Cardinality(m.at[CHOOSE x \in s : TRUE])
                                       + g[s \ {CHOOSE x \in s : TRUE}]
    <3>1. CASE s = {}
      BY <3>1 DEF Share
    <3>2. CASE s # {}
      <4>1. (CHOOSE x \in s : TRUE) \in S
        BY <3>2
      <4> DEFINE y == CHOOSE x \in s : TRUE
      <4>2. AreasOf(m)[y] = Cardinality(m.at[y])
        BY <4>1 DEF AreasOf
      <4> QED BY <3>2, <4>2 DEF Share
    <3> QED BY <3>1, <3>2
  <2> QED BY <2>1 DEF Sums
<1>3. \E g : folded(g)
  <2>1. \E g : Sums(AreasOf(m), g, S)
    BY SumExists
  <2> HIDE DEF folded
  <2> QED BY <1>2, <2>1
<1> DEFINE g == CHOOSE g : folded(g)
<1> HIDE DEF folded
<1>4. folded(g)
  BY <1>3
<1>5. Sums(AreasOf(m), g, S)
  BY <1>2, <1>4
<1> QED BY <1>1, <1>5

\* the areas of a mask and of its complement, rounded, are at most one off
\* the area of the frame together
LEMMA AreasSplit ==
    ASSUME NEW shape \in FrameShapes, NEW m, InFrame(shape, m)
    PROVE  LET whole == shape.h * shape.w
               d == IntendedArea(m)
               e == IntendedArea(Inverted(shape, m)) IN
           d \in 0..whole /\ e \in 0..whole /\ d + e - whole \in -1..1
<1> DEFINE n == Inverted(shape, m)
<1> DEFINE whole == shape.h * shape.w
<1> DEFINE S == DOMAIN m.at
<1>1. IsSeq(m.at) /\ Len(m.at) = IF m.per_frame THEN shape.t ELSE 1
  BY DEF InFrame
<1>2. S = 1..Len(m.at) /\ Len(m.at) \in Nat \ {0}
  BY <1>1, SequenceIs, PixelsAre
<1>3. IsFiniteSet(S) /\ Cardinality(S) = Len(m.at)
  BY <1>2, FS_Interval
<1>4. /\ InFrame(shape, n) /\ Len(n.at) = Len(m.at)
      /\ \A i \in 1..Len(m.at) : n.at[i] = Pixels(shape) \ m.at[i]
  BY InvertedInFrame
<1> HIDE DEF n
<1>5. DOMAIN n.at = S
  BY <1>2, <1>4, SequenceIs DEF InFrame
<1>6. whole \in Nat /\ IsFiniteSet(Pixels(shape)) /\ Cardinality(Pixels(shape)) = whole
  BY PixelsAre
<1> HIDE DEF whole
<1>7. ASSUME NEW i \in S
      PROVE  /\ AreasOf(m)[i] \in Nat /\ AreasOf(n)[i] \in Nat
             /\ AreasOf(m)[i] + AreasOf(n)[i] = whole
  <2> DEFINE A == m.at[i]
  <2> DEFINE B == n.at[i]
  <2> DEFINE P == Pixels(shape)
  <2>1. A \subseteq P /\ B = P \ A
    BY <1>2, <1>4 DEF InFrame
  <2>2. AreasOf(m)[i] = Cardinality(A) /\ AreasOf(n)[i] = Cardinality(B)
    BY <1>5 DEF AreasOf
  <2> HIDE DEF A, B, P
  <2>3. P \cap A = A
    BY <2>1
  <2>4. IsFiniteSet(P) /\ Cardinality(P) = whole
    BY <1>6 DEF P
  <2>5. IsFiniteSet(A) /\ IsFiniteSet(B) /\ Cardinality(B) = Cardinality(P) - Cardinality(A)
    <3>1. IsFiniteSet(A)
      BY <2>1, <2>4, FS_Subset
    <3>2. IsFiniteSet(P \ A) /\ Cardinality(P \ A) = Cardinality(P) - Cardinality(P \cap A)
      BY <2>4, FS_Difference
    <3> QED BY <2>1, <2>3, <3>1, <3>2
  <2>6. Cardinality(A) \in Nat /\ Cardinality(B) \in Nat
    BY <2>5, FS_CardinalityType
  <2> QED BY <1>6, <2>2, <2>4, <2>5, <2>6
<1>8. PICK f : Sums(AreasOf(m), f, S) /\ TotalArea(m) = f[S]
  BY <1>3, TotalIs
<1>9. PICK g : Sums(AreasOf(n), g, S) /\ TotalArea(n) = g[S]
  <2>1. \E g : Sums(AreasOf(n), g, DOMAIN n.at) /\ TotalArea(n) = g[DOMAIN n.at]
    BY <1>3, <1>5, TotalIs
  <2> QED BY <1>5, <2>1
<1> HIDE DEF S
<1>10. f[S] \in Nat /\ g[S] \in Nat /\ f[S] + g[S] = whole * Cardinality(S)
  <2> DEFINE u == AreasOf(m)
  <2> DEFINE v == AreasOf(n)
  <2>1. Sums(u, f, S) /\ Sums(v, g, S) /\ IsFiniteSet(S) /\ whole \in Nat
        /\ \A i \in S : u[i] \in Nat /\ v[i] \in Nat /\ u[i] + v[i] = whole
    BY <1>3, <1>6, <1>7, <1>8, <1>9
  <2> HIDE DEF u, v
  <2> QED BY <2>1, SumsAddUp
<1> DEFINE a == TotalArea(m)
<1> DEFINE b == TotalArea(n)
<1> DEFINE len == Len(m.at)
<1>11. a \in Nat /\ b \in Nat /\ len \in Nat \ {0} /\ a + b = whole * len
  BY <1>2, <1>3, <1>8, <1>9, <1>10
<1>12. IntendedArea(m) = HalfEven(a, len) /\ IntendedArea(n) = HalfEven(b, len)
  BY <1>4 DEF IntendedArea
<1> HIDE DEF a, b, len
<1>13. /\ HalfEven(a, len) \in 0..whole /\ HalfEven(b, len) \in 0..whole
       /\ HalfEven(a, len) + HalfEven(b, len) - whole \in -1..1
  BY <1>6, <1>11, RoundedParts
<1> QED BY <1>12, <1>13 DEF n, whole

-----------------------------------------------------------------------------
(* What workers prepare is sound.                                          *)

\* an item that can be prepared
Fit(item) ==
    /\ Frames[item.sample] \in FrameShapes
    /\ item.op = "patch_shuffle" => item.value \in Nat \ {0}
AllFit(its) == \A i \in 1..Len(its) : Fit(its[i])

\* the mask is the one the region of the item stands for
OfRegion(item, mask) ==
    /\ item.region.kind = "explicit" => ~mask.per_frame
    /\ item.region.kind \notin {"explicit", "random_area_match"} =>
          mask = Generated(Frames[item.sample], item.region)
Made(e) ==
    LET item == e.item
        shape == Frames[e.item.sample] IN
    /\ Fit(item) /\ e.area = IntendedArea(e.mask)
    /\ \E mask : InFrame(shape, mask) /\ OfRegion(item, mask) /\ e.mask = UsedMask(item, mask)
    /\ \E candidate \in Candidates(shape, item.op, item.value) :
          e.pixels = Composite(shape, e.mask, candidate)
AllMade(prepared) == \A e \in Range(prepared) : Made(e)
OfFile(item) == Recipe(item).kind = "explicit"
Phases == {"new", "resolved", "rejected", "planned", "unplannable"}
SoundInv ==
    /\ phase \in Phases
    /\ \A p \in AllProcesses : Len(cache[p]) <= CacheSize
    /\ phase \in {"resolved", "planned"} => \A s \in Range(config.listed) : AllFit(items[s])
    /\ \A p \in AllProcesses : job[p] # None =>
          /\ AllFit(job[p].items) /\ AllMade(job[p].prepared)
          /\ job[p].digest # None => OfFile(Doing(p))
    /\ \A k \in DOMAIN results : AllMade(results[k].prepared)

\* a control of a mask of the frame is one too
LEMMA ControlInFrame ==
    ASSUME NEW shape \in FrameShapes, NEW target, FitsSample(shape, target) => InFrame(shape, target),
           NEW mask \in ControlMasks(shape, target), IsMask(mask)
    PROVE  InFrame(shape, mask)
<1>1. /\ IsMask(target) /\ ~target.per_frame /\ target.at[1] # {}
      /\ \E by \in Offsets(shape, target.at[1]) : mask = Whole(Moved(target.at[1], by))
  BY DEF ControlMasks, IsMask
<1>2. InFrame(shape, target)
  BY <1>1 DEF FitsSample
<1> DEFINE pixels == target.at[1]
<1>3. pixels \subseteq Pixels(shape)
  <2>1. Len(target.at) = 1 /\ \A i \in 1..Len(target.at) : target.at[i] \subseteq Pixels(shape)
    BY <1>1, <1>2 DEF InFrame
  <2> QED BY <2>1
<1>4. PICK by \in Offsets(shape, pixels) : mask = Whole(Moved(pixels, by))
  BY <1>1
<1>5. pixels # {}
  BY <1>1
<1> HIDE DEF pixels
<1>6. Moved(pixels, by) \subseteq Pixels(shape)
  BY <1>3, <1>5, MovedInFrame
<1> QED BY <1>4, <1>6, WholeInFrame

\* what the generator of an item makes is a mask of its frame
LEMMA ItemMaskInFrame ==
    ASSUME NEW item, Fit(item), NEW target,
           FitsSample(Frames[item.sample], target) => InFrame(Frames[item.sample], target),
           NEW mask \in ItemMasks(item, target), FitsSample(Frames[item.sample], mask)
    PROVE  InFrame(Frames[item.sample], mask)
<1> DEFINE shape == Frames[item.sample]
<1>1. shape \in FrameShapes
  BY DEF Fit
<1>2. CASE item.region.kind = "random_area_match"
  <2>1. mask \in ControlMasks(shape, target) /\ IsMask(mask)
    BY <1>2 DEF ItemMasks, FitsSample
  <2>2. FitsSample(shape, target) => InFrame(shape, target)
    OBVIOUS
  <2> HIDE DEF shape
  <2>3. InFrame(shape, mask)
    BY <1>1, <2>1, <2>2, ControlInFrame
  <2> QED BY <2>3 DEF shape
<1>3. CASE item.region.kind # "random_area_match"
  BY <1>3 DEF ItemMasks
<1> QED BY <1>2, <1>3

\* a mask generated for a recipe that fits is one of the frame
LEMMA GeneratedInFrame ==
    ASSUME NEW shape, NEW recipe, FitsSample(shape, Generated(shape, recipe))
    PROVE  InFrame(shape, Generated(shape, recipe))
<1>1. CASE recipe.kind = "grid"
  <2>1. InFrame(shape, GridMask(shape, recipe.params))
    BY GridInFrame
  <2> QED BY <1>1, <2>1 DEF Generated
<1>2. CASE recipe.kind # "grid"
  <2>1. FitsSample(shape, SkeletonMask(shape, recipe.params))
    BY <1>2 DEF Generated
  <2>2. InFrame(shape, SkeletonMask(shape, recipe.params))
    BY <2>1, SkeletonInFrame
  <2> QED BY <1>2, <2>2 DEF Generated
<1> QED BY <1>1, <1>2

\* nothing is prepared at first
LEMMA InitSound == Init => SoundInv
<1> SUFFICES ASSUME Init PROVE SoundInv
  OBVIOUS
<1>1. /\ phase = "new" /\ results = <<>>
      /\ \A p \in AllProcesses : job[p] = None /\ cache[p] = <<>>
  BY DEF Init
<1>2. Len(<<>>) = 0 /\ 0 <= CacheSize /\ DOMAIN <<>> = {}
  BY BoundsAssumption
<1> QED BY <1>1, <1>2 DEF SoundInv, Phases

\* a step that leaves items, jobs and results alone
LEMMA SameSound ==
    ASSUME SoundInv, UNCHANGED <<config, items, phase, cache, job, results>>
    PROVE  SoundInv'
<1>1. \A p \in AllProcesses : Doing(p)' = Doing(p)
  BY DEF Doing
<1> QED BY <1>1 DEF SoundInv, AllFit, AllMade, OfFile, Recipe

\* a step of a process on its own chunk
LEMMA WorkingSound ==
    ASSUME Typed, SoundInv, NEW p \in Processes, Working(p),
           AllFit(job'[p].items), AllMade(job'[p].prepared),
           job'[p].digest # None => OfFile(Doing(p)'),
           UNCHANGED <<config, items, phase, results>>,
           \A q \in AllProcesses : Len(cache'[q]) <= CacheSize
    PROVE  SoundInv'
<1>1. ASSUME NEW q \in AllProcesses, job'[q] # None
      PROVE  /\ AllFit(job'[q].items) /\ AllMade(job'[q].prepared)
             /\ job'[q].digest # None => OfFile(Doing(q)')
  <2>1. CASE q = p
    BY <2>1
  <2>2. CASE q # p
    <3>1. job'[q] = job[q]
      BY <2>2 DEF Typed, Working, Over
    <3>2. Doing(q)' = Doing(q)
      BY <3>1 DEF Doing
    <3> QED BY <1>1, <3>1, <3>2 DEF SoundInv
  <2> QED BY <2>1, <2>2
<1>2. \A q \in AllProcesses : job'[q] # None => (job[q].digest # None => OfFile(Doing(q)))'
  BY <1>1 DEF OfFile, Recipe
<1> QED BY <1>1, <1>2 DEF SoundInv, AllFit, AllMade

\* the item a process works on is one of its chunk
LEMMA DoingIsFit ==
    ASSUME Typed, StableInv, SoundInv, NEW p \in Processes, HasWork(p)
    PROVE  Fit(Doing(p)) /\ p \in AllProcesses /\ job[p] # None /\ IsJob(job[p])
<1> DEFINE j == job[p]
<1>1. p \in AllProcesses /\ j # None /\ IsJob(j) /\ Underway(j) /\ AllFit(j.items)
  BY ProcessesAreKnown DEF Typed, StableInv, SoundInv, HasWork
<1>2. Len(j.prepared) \in Nat /\ Len(j.failed) \in Nat /\ Len(j.items) \in Nat
  <2>1. IsSeq(j.prepared) /\ IsSeq(j.failed) /\ IsSeq(j.items)
    BY <1>1 DEF IsJob, IsSeq, Underway
  <2> QED BY <2>1, SequenceIs
<1> DEFINE n == Len(j.prepared) + Len(j.failed)
<1>3. n < Len(j.items)
  BY DEF HasWork
<1>4. n \in Nat
  <2>1. \A a, b \in Nat : a + b \in Nat
    OBVIOUS
  <2> QED BY <1>2, <2>1
<1>5. Doing(p) = j.items[n + 1]
  BY DEF Doing
<1> HIDE DEF n
<1>6. n + 1 \in 1..Len(j.items)
  BY <1>2, <1>3, <1>4
<1>7. Fit(j.items[n + 1])
  <2> DEFINE i == n + 1
  <2>1. i \in 1..Len(j.items) /\ \A q \in 1..Len(j.items) : Fit(j.items[q])
    BY <1>1, <1>6 DEF AllFit
  <2> HIDE DEF i
  <2>2. Fit(j.items[i])
    BY <2>1
  <2> QED BY <2>2 DEF i
<1> QED BY <1>1, <1>5, <1>7

\* an attempt at an item fails or makes what its region stands for
LEMMA AttemptSound ==
    ASSUME Typed, StableInv, SoundInv, NEW p \in Processes, HasWork(p), Working(p), NEW mask,
           Attempt(p, Doing(p), mask),
           FitsSample(Frames[Doing(p).sample], mask) =>
              InFrame(Frames[Doing(p).sample], mask) /\ OfRegion(Doing(p), mask),
           UNCHANGED <<config, items, phase, results>>,
           \A q \in AllProcesses : Len(cache'[q]) <= CacheSize
    PROVE  SoundInv'
<1> DEFINE item == Doing(p)
<1> DEFINE j == job[p]
<1>1. Fit(item) /\ p \in AllProcesses /\ j # None /\ IsJob(j)
  BY DoingIsFit
<1>2. AllFit(j.items) /\ AllMade(j.prepared)
  BY <1>1 DEF SoundInv
<1>3. CASE job'[p] = Failing(j, item.item_id)
  <2>1. job'[p].items = j.items /\ job'[p].prepared = j.prepared /\ job'[p].digest = None
    BY <1>3 DEF Failing
  <2> QED BY <1>2, <2>1, WorkingSound
<1>4. ASSUME Possible(item, mask), NEW e, EntryOf(e, item, mask),
             job'[p] = Adding(j, e)
      PROVE  SoundInv'
  <2>1. Made(e)
    <3>1. InFrame(Frames[item.sample], mask) /\ OfRegion(item, mask)
      BY <1>4 DEF Possible
    <3> HIDE DEF item
    <3> QED BY <1>1, <1>4, <3>1 DEF Made, EntryOf
  <2>2. job'[p].items = j.items /\ job'[p].prepared = Append(j.prepared, e)
        /\ job'[p].digest = None
    BY <1>4 DEF Adding
  <2>3. Range(Append(j.prepared, e)) = Range(j.prepared) \cup {e}
    <3>1. j.prepared \in Seq(Range(j.prepared))
      BY <1>1 DEF IsJob
    <3> QED BY <3>1, AppendRangeIs
  <2>4. AllMade(job'[p].prepared)
    BY <1>2, <2>1, <2>2, <2>3 DEF AllMade
  <2> QED BY <1>2, <2>2, <2>4, WorkingSound
<1> QED BY <1>3, <1>4 DEF Attempt

\* a region that is computed
LEMMA PrepareSound ==
    ASSUME Typed, StableInv, SoundInv, NEW p \in Processes, PrepareItem(p)
    PROVE  SoundInv'
<1> DEFINE item == Doing(p)
<1> DEFINE shape == Frames[item.sample]
<1> DEFINE target == Generated(shape, Recipe(item))
<1>1. HasWork(p) /\ Working(p) /\ Recipe(item).kind # "explicit"
      /\ \E mask \in ItemMasks(item, target) : Attempt(p, item, mask)
  BY PrepareIs
<1>2. PICK mask \in ItemMasks(item, target) : Attempt(p, item, mask)
  BY <1>1
<1>3. Fit(item)
  BY <1>1, DoingIsFit
<1>4. FitsSample(shape, target) => InFrame(shape, target)
  BY GeneratedInFrame
<1>5. ASSUME FitsSample(shape, mask) PROVE InFrame(shape, mask) /\ OfRegion(item, mask)
  <2>1. InFrame(shape, mask)
    <3> HIDE DEF item, target
    <3> QED BY <1>2, <1>3, <1>4, <1>5, ItemMaskInFrame
  <2>2. OfRegion(item, mask)
    <3>1. item.region.kind # "explicit"
      BY <1>1 DEF Recipe
    <3>2. item.region.kind # "random_area_match" => mask = Generated(shape, item.region)
      BY <1>2 DEF ItemMasks, Recipe
    <3> HIDE DEF item
    <3> QED BY <3>1, <3>2 DEF OfRegion
  <2> QED BY <2>1, <2>2
<1>6. UNCHANGED <<config, items, phase, results>>
      /\ \A q \in AllProcesses : Len(cache'[q]) <= CacheSize
  BY DEF PrepareItem, SoundInv
<1> QED BY <1>1, <1>2, <1>5, <1>6, AttemptSound

\* a file that is hashed
LEMMA CheckSound ==
    ASSUME Typed, StableInv, SoundInv, NEW p \in Processes, CheckDigest(p)
    PROVE  SoundInv'
<1>1. Working(p) /\ (Checked(p) \/ job'[p] = Failing(job[p], Doing(p).item_id))
  BY CheckIs
<1>2. job'[p].items = job[p].items /\ job'[p].prepared = job[p].prepared
  BY <1>1 DEF Checked, Failing
<1>3. AllFit(job[p].items) /\ AllMade(job[p].prepared)
  BY <1>1, ProcessesAreKnown DEF SoundInv, Working
<1>5. job'[p].digest # None => OfFile(Doing(p)')
  <2>1. CASE Checked(p)
    <3>1. Doing(p)' = Doing(p)
      BY <2>1 DEF Checked, Doing
    <3> QED BY <3>1 DEF CheckDigest, OfFile
  <2>2. CASE job'[p] = Failing(job[p], Doing(p).item_id)
    BY <2>2 DEF Failing
  <2> QED BY <1>1, <2>1, <2>2
<1>4. UNCHANGED <<config, items, phase, results>>
      /\ \A q \in AllProcesses : Len(cache'[q]) <= CacheSize
  BY DEF CheckDigest, SoundInv
<1> QED BY <1>1, <1>2, <1>3, <1>4, <1>5, WorkingSound

\* a file that is decoded, or taken from the cache of the process
LEMMA DecodeSound ==
    ASSUME Typed, StableInv, SoundInv, NEW p \in Processes, DecodeMask(p)
    PROVE  SoundInv'
<1> DEFINE item == Doing(p)
<1> DEFINE shape == Frames[item.sample]
<1> DEFINE content == Decoded(p, Recipe(item), job[p].digest)
<1> DEFINE target == ExplicitMask(shape, content)
<1> DEFINE entry == [digest |-> job[p].digest, content |-> content]
<1>1. /\ HasWork(p) /\ job[p].digest # None /\ UNCHANGED <<config, items, phase, results>>
  BY DEF DecodeMask
<1>2. Working(p) /\ \E mask \in ItemMasks(item, target) : Attempt(p, item, mask)
  BY DecodeIs
<1>3. \/ cache' = cache
      \/ /\ cache' = [cache EXCEPT ![p] = Refreshed(p, entry)]
         /\ Len(cache[p]) <= CacheSize => Len(Refreshed(p, entry)) <= CacheSize
  BY DecodeIs
<1>4. PICK mask \in ItemMasks(item, target) : Attempt(p, item, mask)
  BY <1>2
<1>5. Fit(item) /\ p \in AllProcesses
  BY <1>1, DoingIsFit
<1>6. cache \in [AllProcesses -> Seq(CacheEntry)] /\ files \in [DOMAIN files -> Contents]
  BY DEF Typed
<1>7. content \in Contents \cup {Undecodable}
  <2>1. \/ \E i \in 1..Len(cache[p]) : cache[p][i].digest = job[p].digest
                                       /\ content = cache[p][i].content
        \/ Recipe(item).ref \in DOMAIN files /\ content = files[Recipe(item).ref]
        \/ Recipe(item).ref \notin DOMAIN files /\ content = Undecodable
    BY <1>1, DecodedIs
  <2> HIDE DEF content, item
  <2>2. ASSUME NEW i \in 1..Len(cache[p]) PROVE cache[p][i].content \in Contents
    <3>1. cache[p] \in Seq(CacheEntry)
      BY <1>5, <1>6
    <3>2. cache[p][i] \in CacheEntry
      BY <3>1, ElementOfSeq
    <3> QED BY <3>2 DEF CacheEntry
  <2> QED BY <1>6, <2>1, <2>2
<1>8. ASSUME NEW q \in AllProcesses PROVE Len(cache'[q]) <= CacheSize
  <2>1. Len(cache[q]) <= CacheSize /\ Len(cache[p]) <= CacheSize
    BY <1>5 DEF SoundInv
  <2> HIDE DEF entry
  <2> QED BY <1>3, <1>5, <1>6, <2>1
<1> HIDE DEF content
<1>9. FitsSample(shape, target) => InFrame(shape, target)
  BY <1>7, ExplicitInFrame
<1>10. ASSUME FitsSample(shape, mask) PROVE InFrame(shape, mask) /\ OfRegion(item, mask)
  <2>1. InFrame(shape, mask)
    <3> HIDE DEF item, target
    <3> QED BY <1>4, <1>5, <1>9, <1>10, ItemMaskInFrame
  <2>2. item.region.kind = "explicit" => mask = target
    BY <1>4 DEF ItemMasks
  <2>3. ~target.per_frame
    BY DEF ExplicitMask, Failed, Whole
  <2>4. item.region.kind \in {"explicit", "random_area_match"}
    <3>1. OfFile(item)
      BY <1>1, <1>5, DoingIsFit DEF SoundInv
    <3> QED BY <3>1 DEF OfFile, Recipe
  <2> QED BY <2>1, <2>2, <2>3, <2>4 DEF OfRegion
<1> QED BY <1>1, <1>2, <1>4, <1>8, <1>10, AttemptSound

\* a result is what its process had prepared
LEMMA ReturnSound ==
    ASSUME Typed, SoundInv, NEW p \in Processes, NEW k, NEW result, Returned(p, k, result),
           AllMade(result.prepared), UNCHANGED <<config, items, phase, cache>>
    PROVE  SoundInv'
<1>1. DOMAIN results' = DOMAIN results \cup {k} /\ results'[k] = result
  BY DEF Returned
<1>2. \A i \in DOMAIN results : i # k => results'[i] = results[i]
  BY ReturnTyped, ZenonT(30)
<1>3. job'[p] = None
  BY ReturnTyped
<1>4. \A q \in AllProcesses : q # p => job'[q] = job[q]
  BY ReturnTyped
<1>5. \A i \in DOMAIN results' : AllMade(results'[i].prepared)
  BY <1>1, <1>2 DEF SoundInv
<1>6. ASSUME NEW q \in AllProcesses, job'[q] # None
      PROVE  /\ AllFit(job'[q].items) /\ AllMade(job'[q].prepared)
             /\ job'[q].digest # None => OfFile(Doing(q)')
  <2>1. job'[q] = job[q] /\ job[q] # None
    BY <1>3, <1>4, <1>6
  <2>2. Doing(q)' = Doing(q)
    BY <2>1 DEF Doing
  <2> QED BY <2>1, <2>2 DEF SoundInv
<1>7. \A q \in AllProcesses : job'[q] # None => (job[q].digest # None => OfFile(Doing(q)))'
  BY <1>6 DEF OfFile, Recipe
<1> QED BY <1>5, <1>6, <1>7 DEF SoundInv, AllFit, AllMade

\* a chunk that is done, or given up
LEMMA FinishSound ==
    ASSUME Typed, SoundInv, NEW p \in Processes, Finish(p)
    PROVE  SoundInv'
<1>1. /\ p \in AllProcesses /\ job[p] # None
      /\ Returned(p, job[p].chunk, Done(job[p]))
      /\ UNCHANGED <<config, items, phase, cache>>
  BY FinishIs
<1>2. AllMade(Done(job[p]).prepared)
  BY <1>1 DEF SoundInv, Done
<1> DEFINE k == job[p].chunk
<1> DEFINE result == Done(job[p])
<1> HIDE DEF k, result
<1>3. Returned(p, k, result) /\ AllMade(result.prepared)
  BY <1>1, <1>2 DEF k, result
<1> QED BY <1>1, <1>3, ReturnSound

\* the items of a chunk are items of its sample
LEMMA SliceFit ==
    ASSUME NEW s, IsSeq(s), AllFit(s), NEW ordinal \in Nat \ {0}, NEW size \in Nat \ {0}
    PROVE  AllFit(Slice(s, ordinal, size))
<1> DEFINE first == (ordinal - 1) * size + 1
<1> DEFINE end == IF ordinal * size < Len(s) THEN ordinal * size ELSE Len(s)
<1> DEFINE t == Slice(s, ordinal, size)
<1>1. first \in Nat \ {0} /\ end \in Nat /\ end <= Len(s) /\ Len(s) \in Nat
      /\ t = SubSeq(s, first, end)
  BY SequenceIs DEF Slice
<1> HIDE DEF first, end
<1>2. \A i \in first..end : s[i] \in Members(s)
  BY <1>1 DEF Members
<1>3. t \in Seq(Members(s)) /\ Len(t) \in Nat
  <2>1. first \in Int /\ end \in Int
    BY <1>1
  <2>2. t \in Seq(Members(s))
    BY <1>1, <1>2, <2>1, SubSeqProperties
  <2> QED BY <2>2, LenProperties
<1> HIDE DEF t
<1>4. \A x \in Members(s) : Fit(x)
  BY DEF Members, AllFit
<1>5. \A i \in 1..Len(t) : t[i] \in Members(s)
  BY <1>3, ElementOfSeq
<1> QED BY <1>4, <1>5 DEF AllFit, t

\* a chunk that is begun, or refused
LEMMA TakeSound ==
    ASSUME Typed, StableInv, SoundInv, NEW p \in Processes, Take(p)
    PROVE  SoundInv'
<1> DEFINE k == NextChunk(p)
<1> DEFINE own == Materialized(p, plan[k])
<1>1. /\ phase = "planned" /\ k \in 1..Len(plan)
      /\ \/ IdsOf(own) # plan[k].item_ids
         \/ /\ UNCHANGED phase
            /\ \/ job' = [job EXCEPT ![p] = NewJob(k, own)] /\ UNCHANGED results
               \/ Returned(p, k, LoadFailed(own))
      /\ UNCHANGED <<config, items, plan, cache>>
  BY TakeIs
<1>2. p \in AllProcesses /\ Over(job, AllProcesses)
  BY ProcessesAreKnown DEF Typed
<1> HIDE DEF k
<1>3. IdsOf(own) = plan[k].item_ids /\ SampleItemsOf(p, plan[k].sample) = items[plan[k].sample]
  BY <1>1, <1>2, RebuiltIs
<1>4. AllFit(own)
  <2> DEFINE s == items[plan[k].sample]
  <2>1. plan[k].sample \in Range(config.listed) /\ plan[k].ordinal \in Nat \ {0}
        /\ config.variants_per_chunk \in Nat \ {0}
    BY <1>1 DEF StableInv, Chunked, IsChunk, Typed, Shape
  <2>2. IsSeq(s) /\ AllFit(s)
    BY <1>1, <2>1 DEF StableInv, ItemsKnown, SoundInv
  <2>3. own = Slice(s, plan[k].ordinal, config.variants_per_chunk)
    BY <1>3 DEF Materialized
  <2> HIDE DEF s, own
  <2> QED BY <2>1, <2>2, <2>3, SliceFit
<1> HIDE DEF own
<1>5. CASE job' = [job EXCEPT ![p] = NewJob(k, own)] /\ UNCHANGED <<results, phase>>
  <2>1. job'[p] = NewJob(k, own) /\ \A q \in AllProcesses : q # p => job'[q] = job[q]
    BY <1>2, <1>5 DEF Over
  <2>2. AllFit(job'[p].items) /\ AllMade(job'[p].prepared) /\ job'[p].digest = None
    <3>1. job'[p].items = own /\ job'[p].prepared = <<>> /\ job'[p].digest = None
      BY <2>1 DEF NewJob
    <3> QED BY <1>4, <3>1 DEF AllMade, Range
  <2>3. ASSUME NEW q \in AllProcesses, job'[q] # None
        PROVE  /\ AllFit(job'[q].items) /\ AllMade(job'[q].prepared)
               /\ job'[q].digest # None => OfFile(Doing(q)')
    <3>1. CASE q = p
      BY <2>2, <3>1
    <3>2. CASE q # p
      <4>1. job'[q] = job[q]
        BY <2>1, <3>2
      <4>2. Doing(q)' = Doing(q)
        BY <4>1 DEF Doing
      <4> QED BY <2>3, <4>1, <4>2 DEF SoundInv
    <3> QED BY <3>1, <3>2
  <2>4. \A q \in AllProcesses : job'[q] # None => (job[q].digest # None => OfFile(Doing(q)))'
    BY <2>3 DEF OfFile, Recipe
  <2> QED BY <1>1, <1>5, <2>3, <2>4 DEF SoundInv, AllFit, AllMade
<1>6. CASE Returned(p, k, LoadFailed(own)) /\ UNCHANGED phase
  <2>1. AllMade(LoadFailed(own).prepared)
    BY DEF LoadFailed, AllMade, Range
  <2> QED BY <1>1, <1>6, <2>1, ReturnSound
<1> QED BY <1>1, <1>3, <1>5, <1>6

\* a resolved configuration plans items that can be prepared
LEMMA ResolvedFit ==
    ASSUME NEW c \in Configs, NEW fs, NEW readable, Resolves(c, fs, readable),
           NEW s \in Range(c.listed)
    PROVE  AllFit(SampleItems(s, Resolved(c, fs, readable)))
<1> DEFINE r == Resolved(c, fs, readable)
<1> DEFINE its == SampleItems(s, r)
<1>1. Expandable(r)
  BY ResolvedExpands
<1>2. r.perturbations = ValuesResolved(c, readable)
  <2>1. c \in Shape(c)
    BY ConfigsAssumption
  <2> QED BY <2>1, ResolvedShape
<1>3. Frames[s] \in FrameShapes
  BY MasksAssumption DEF FrameShapes
<1>4. ASSUME NEW p \in DOMAIN r.perturbations, r.perturbations[p].op = "patch_shuffle"
      PROVE  r.perturbations[p].value \in Nat \ {0}
  <2>1. r.perturbations[p] = ResolvedPerturbation(c.perturbations[p], Stats(c, readable))
        /\ p \in DOMAIN c.perturbations
    BY <1>2 DEF ValuesResolved
  <2>2. c.perturbations[p] \in Range(c.perturbations)
    BY <2>1 DEF Range
  <2> DEFINE q == c.perturbations[p]
  <2> HIDE DEF r
  <2>3. q.op = "patch_shuffle" /\ r.perturbations[p].value = q.value
    BY <1>4, <2>1 DEF ResolvedPerturbation
  <2>4. q.value \in Int /\ q.value > 0
    BY <2>2, <2>3, ConfigsAssumption DEF Resolves, ConfigOK, OperatorOK
  <2> QED BY <2>3, <2>4
<1> HIDE DEF r
<1>5. ItemsIn(its, s, r.perturbations)
  BY <1>1, SampleItemsAre
<1> HIDE DEF its
<1>6. \A x \in Members(its) : Fit(x)
  <2> TAKE x \in Members(its)
  <2>1. PICK p \in DOMAIN r.perturbations :
          \E region, salt, is_control :
             x = Item(s, region, r.perturbations[p], salt, is_control)
    BY <1>5 DEF ItemsIn, IsItemOf
  <2>2. x.sample = s /\ x.op = r.perturbations[p].op /\ x.value = r.perturbations[p].value
    BY <2>1 DEF Item
  <2> QED BY <1>3, <1>4, <2>2 DEF Fit
<1>7. AllFit(its)
  BY <1>6 DEF AllFit, Members
<1> QED BY <1>7 DEF its, r

\* the steps of the main process and of other programs
LEMMA OthersSound ==
    ASSUME Typed, StableInv, SoundInv, PlanIsStable',
           \/ ResolveConfig \/ EnumeratePlan \/ Accept \/ UNCHANGED vars
           \/ \E f \in DOMAIN files, c \in Contents : ReplaceFile(f, c)
    PROVE  SoundInv'
<1>1. CASE ResolveConfig
  <2>1. /\ phase = "new" /\ Idle /\ config \in Configs
        /\ UNCHANGED <<plan, last, job, cache, results, accepted>>
    BY <1>1 DEF ResolveConfig, unprepared, StableInv
  <2>2. /\ phase' \in {"resolved", "rejected"}
        /\ phase' = "resolved" =>
             \E readable : /\ Resolves(config, files, readable)
                           /\ config' = Resolved(config, files, readable)
                           /\ items' = [s \in Range(config.listed) |-> SampleItems(s, config')]
    BY <1>1, Zenon DEF ResolveConfig
  <2>3. ASSUME phase' = "resolved" PROVE \A s \in Range(config'.listed) : AllFit(items'[s])
    <3>1. PICK readable : /\ Resolves(config, files, readable)
                          /\ config' = Resolved(config, files, readable)
                          /\ items' = [s \in Range(config.listed) |-> SampleItems(s, config')]
      BY <2>2, <2>3
    <3>2. config'.listed = config.listed
      <4>1. config \in Shape(config)
        BY DEF Typed
      <4> QED BY <3>1, <4>1, ResolvedShape
    <3>3. \A s \in Range(config.listed) : AllFit(SampleItems(s, config'))
      BY <2>1, <3>1, ResolvedFit
    <3> QED BY <3>1, <3>2, <3>3
  <2>4. \A p \in AllProcesses : job'[p] = None
    BY <2>1 DEF Idle
  <2>5. DOMAIN results' = {}
    BY <2>1 DEF Idle
  <2> QED BY <2>1, <2>2, <2>3, <2>4, <2>5 DEF SoundInv, Phases, AllFit
<1>2. CASE EnumeratePlan
  <2>1. /\ phase = "resolved" /\ Idle /\ phase' \in {"planned", "unplannable"}
        /\ UNCHANGED <<config, items, cache, job, results>>
    BY <1>2 DEF EnumeratePlan, unprepared, StableInv
  <2>2. (\A p \in AllProcesses : job'[p] = None) /\ DOMAIN results' = {}
    BY <2>1 DEF Idle
  <2> QED BY <2>1, <2>2 DEF SoundInv, Phases, AllFit
<1>3. CASE Accept
  <2>1. /\ phase = "planned" /\ phase' \in {"planned", "divergent", "contract_error"}
        /\ UNCHANGED <<config, items, cache, job, results>>
    BY <1>3 DEF Accept
  <2>2. phase' = phase
    BY <2>1 DEF PlanIsStable
  <2> QED BY <2>1, <2>2, SameSound
<1>4. CASE UNCHANGED vars
  BY <1>4, SameSound DEF vars
<1>5. CASE \E f \in DOMAIN files, c \in Contents : ReplaceFile(f, c)
  BY <1>5, SameSound DEF ReplaceFile
<1> QED BY <1>1, <1>2, <1>3, <1>4, <1>5

\* one step, of anyone
LEMMA NextSound == Typed /\ StableInv /\ SoundInv /\ [Next]_vars => SoundInv'
<1> SUFFICES ASSUME Typed, StableInv, SoundInv, [Next]_vars PROVE SoundInv'
  OBVIOUS
<1>1. PlanIsStable'
  BY NextStable DEF StableInv
<1>2. ASSUME NEW p \in Processes, Works(p) PROVE SoundInv'
  BY <1>2, TakeSound, PrepareSound, CheckSound, DecodeSound, FinishSound DEF Works
<1>3. CASE ~\E p \in Processes : Works(p)
  BY <1>1, <1>3, OthersSound DEF Next, Step
<1> QED BY <1>2, <1>3

-----------------------------------------------------------------------------
(* Tiles.                                                                  *)

\* rows and columns of tiles number the tiles
LEMMA TileIs ==
    ASSUME NEW rows \in Nat, NEW cols \in Nat, NEW r \in 0..rows - 1, NEW c \in 0..cols - 1
    PROVE  r * cols + c \in 0..rows * cols - 1
<1>1. (r + 1) * cols <= rows * cols /\ (r + 1) * cols = r * cols + cols
  OBVIOUS
<1>2. r * cols \in Nat /\ rows * cols \in Nat
  OBVIOUS
<1> QED BY <1>1, <1>2

\* every number below the product is that of one tile
LEMMA TileOf ==
    ASSUME NEW rows \in Nat, NEW cols \in Nat, NEW k \in 0..rows * cols - 1
    PROVE  /\ cols \in Nat \ {0} /\ rows * cols \in Nat
           /\ k \div cols \in 0..rows - 1 /\ k % cols \in 0..cols - 1
           /\ k = (k \div cols) * cols + (k % cols)
<1>1. rows * cols \in Nat /\ k \in Nat /\ k < rows * cols
  OBVIOUS
<1>2. cols # 0
  <2> SUFFICES ASSUME cols = 0 PROVE FALSE
    OBVIOUS
  <2>1. rows * cols = 0
    OBVIOUS
  <2> QED BY <1>1, <2>1
<1> DEFINE q == k \div cols
<1> DEFINE r == k % cols
<1>3. r \in 0..cols - 1 /\ q \in Int /\ cols * q \in Int /\ k = cols * q + r
  BY <1>1, <1>2, DivMod
<1> HIDE DEF q, r
<1>4. q >= 0
  <2> SUFFICES ASSUME q <= -1 PROVE FALSE
    BY <1>3
  <2>1. cols * q <= cols * (-1) /\ cols * (-1) = -cols
    BY <1>2, <1>3
  <2> QED BY <1>1, <1>3, <2>1
<1>5. q < rows
  <2> SUFFICES ASSUME q >= rows PROVE FALSE
    BY <1>3
  <2>1. cols * q >= cols * rows /\ cols * rows = rows * cols
    BY <1>3
  <2> QED BY <1>1, <1>3, <2>1
<1>6. cols * q = q * cols
  BY <1>3
<1> QED BY <1>1, <1>2, <1>3, <1>4, <1>5, <1>6 DEF q, r

\* a side of rows tiles
LEMMA SideIs ==
    ASSUME NEW n \in Nat \ {0}, NEW side \in Nat
    PROVE  /\ side \div n \in Nat /\ (side \div n) * n <= side /\ (side \div n) * n \in Nat
           /\ \A y \in 0..(side \div n) * n - 1 :
                 y \div n \in 0..(side \div n) - 1 /\ y % n \in 0..n - 1 /\ y = (y \div n) * n + (y % n)
           /\ \A q \in 0..(side \div n) - 1, r \in 0..n - 1 : q * n + r \in 0..(side \div n) * n - 1
<1> DEFINE m == side \div n
<1>1. m \in Nat /\ m * n <= side /\ m * n \in Nat
  <2>1. side % n \in 0..n - 1 /\ m \in Int /\ n * m \in Int /\ side = n * m + (side % n)
    BY DivMod
  <2>2. n * m = m * n
    BY <2>1
  <2>3. m >= 0
    <3> SUFFICES ASSUME m <= -1 PROVE FALSE
      BY <2>1
    <3> HIDE DEF m
    <3>1. n * m <= n * (-1) /\ n * (-1) = -n
      BY <2>1
    <3> QED BY <2>1, <3>1
  <2> HIDE DEF m
  <2> QED BY <2>1, <2>2, <2>3
<1> HIDE DEF m
<1>2. \A y \in 0..m * n - 1 : y \div n \in 0..m - 1 /\ y % n \in 0..n - 1 /\ y = (y \div n) * n + (y % n)
  <2> TAKE y \in 0..m * n - 1
  <2> QED BY <1>1, TileOf
<1>3. \A q \in 0..m - 1, r \in 0..n - 1 : q * n + r \in 0..m * n - 1
  <2> TAKE q \in 0..m - 1, r \in 0..n - 1
  <2> QED BY <1>1, TileIs
<1> QED BY <1>1, <1>2, <1>3 DEF m

\* A shuffle of tiles is a permutation of the pixels.
LEMMA ShuffledIs ==
    ASSUME NEW shape \in FrameShapes, NEW n \in Nat \ {0},
           NEW f \in Candidates(shape, "patch_shuffle", n)
    PROVE  /\ \A p \in Pixels(shape) : f[p] \in Pixels(shape)
           /\ \A p, q \in Pixels(shape) : f[p] = f[q] => p = q
<1> DEFINE rows == shape.h \div n
<1> DEFINE cols == shape.w \div n
<1> DEFINE tiles == 0..(rows * cols - 1)
<1>1. PICK permutation \in Bijection(tiles, tiles) : f = Shuffled(shape, n, permutation)
  BY DEF Candidates
<1> DEFINE tile(p) == (p[1] \div n) * cols + p[2] \div n
<1> DEFINE t(p) == permutation[tile(p)]
<1> DEFINE still(p) == p[1] >= rows * n \/ p[2] >= cols * n
<1> DEFINE P == Pixels(shape)
<1>2. /\ shape.h \in Nat /\ shape.w \in Nat
      /\ P = (0..(shape.h - 1)) \X (0..(shape.w - 1))
  BY PixelsAre DEF Pixels
<1>3. f = [p \in P |-> IF still(p) THEN p
                       ELSE <<(t(p) \div cols) * n + (p[1] % n), (t(p) % cols) * n + (p[2] % n)>>]
  BY <1>1 DEF Shuffled
<1>4. rows \in Nat /\ rows * n <= shape.h /\ rows * n \in Nat
  BY <1>2, SideIs
<1>5. cols \in Nat /\ cols * n <= shape.w /\ cols * n \in Nat
  BY <1>2, SideIs
<1>6. \A y \in 0..rows * n - 1 : y \div n \in 0..rows - 1 /\ y % n \in 0..n - 1 /\ y = (y \div n) * n + (y % n)
  BY <1>2, SideIs
<1>7. \A y \in 0..cols * n - 1 : y \div n \in 0..cols - 1 /\ y % n \in 0..n - 1 /\ y = (y \div n) * n + (y % n)
  BY <1>2, SideIs
<1>8. \A q \in 0..rows - 1, r \in 0..n - 1 : q * n + r \in 0..rows * n - 1
  BY <1>2, SideIs
<1>9. \A q \in 0..cols - 1, r \in 0..n - 1 : q * n + r \in 0..cols * n - 1
  BY <1>2, SideIs
<1>11. (\A k \in tiles : permutation[k] \in tiles)
       /\ \A k, l \in tiles : permutation[k] = permutation[l] => k = l
  BY <1>1 DEF Bijection, Injection, IsInjective
<1> HIDE DEF rows, cols, P
<1>12. ASSUME NEW p \in P PROVE p = <<p[1], p[2]>> /\ p[1] \in Nat /\ p[2] \in Nat
                                /\ p[1] < shape.h /\ p[2] < shape.w
  BY <1>2
<1>13. ASSUME NEW p \in P, ~still(p)
       PROVE  /\ p[1] \div n \in 0..rows - 1 /\ p[2] \div n \in 0..cols - 1
              /\ p[1] % n \in 0..n - 1 /\ p[2] % n \in 0..n - 1
              /\ p[1] = (p[1] \div n) * n + (p[1] % n) /\ p[2] = (p[2] \div n) * n + (p[2] % n)
              /\ tile(p) \in tiles /\ t(p) \in tiles
              /\ t(p) \div cols \in 0..rows - 1 /\ t(p) % cols \in 0..cols - 1
              /\ t(p) = (t(p) \div cols) * cols + (t(p) % cols)
  <2>1. p[1] \in 0..rows * n - 1 /\ p[2] \in 0..cols * n - 1
    BY <1>4, <1>5, <1>12, <1>13
  <2>2. /\ p[1] \div n \in 0..rows - 1 /\ p[1] % n \in 0..n - 1
        /\ p[1] = (p[1] \div n) * n + (p[1] % n)
    BY <1>6, <2>1
  <2>3. /\ p[2] \div n \in 0..cols - 1 /\ p[2] % n \in 0..n - 1
        /\ p[2] = (p[2] \div n) * n + (p[2] % n)
    BY <1>7, <2>1
  <2>4. tile(p) \in tiles
    BY <1>4, <1>5, <2>2, <2>3, TileIs
  <2>5. t(p) \in tiles
    BY <1>11, <2>4
  <2> DEFINE k == t(p)
  <2> HIDE DEF t
  <2>6. /\ k \div cols \in 0..rows - 1 /\ k % cols \in 0..cols - 1
        /\ k = (k \div cols) * cols + (k % cols)
    <3>1. k \in 0..rows * cols - 1
      BY <2>5
    <3> HIDE DEF k
    <3> QED BY <1>4, <1>5, <3>1, TileOf
  <2> QED BY <2>2, <2>3, <2>4, <2>5, <2>6
<1> DEFINE y(p) == (t(p) \div cols) * n + (p[1] % n)
<1> DEFINE x(p) == (t(p) % cols) * n + (p[2] % n)
<1>14. ASSUME NEW p \in P
       PROVE  /\ still(p) => f[p] = p
              /\ ~still(p) => f[p] = <<y(p), x(p)>> /\ y(p) \in 0..rows * n - 1 /\ x(p) \in 0..cols * n - 1
  <2>1. CASE still(p)
    BY <1>3, <2>1
  <2>2. CASE ~still(p)
    <3>1. f[p] = <<y(p), x(p)>>
      BY <1>3, <2>2
    <3>2. y(p) \in 0..rows * n - 1
      BY <1>8, <1>13, <2>2
    <3>3. x(p) \in 0..cols * n - 1
      BY <1>9, <1>13, <2>2
    <3> QED BY <2>2, <3>1, <3>2, <3>3
  <2> QED BY <2>1, <2>2
<1>15. ASSUME NEW p \in P PROVE f[p] \in P
  <2>1. CASE still(p)
    BY <1>14, <2>1
  <2>2. CASE ~still(p)
    <3> DEFINE a == y(p)
    <3> DEFINE b == x(p)
    <3>1. f[p] = <<a, b>> /\ a \in 0..rows * n - 1 /\ b \in 0..cols * n - 1
      BY <1>14, <2>2
    <3> HIDE DEF a, b
    <3>2. \A m, k \in Nat : m <= k => 0..m - 1 \subseteq 0..(k - 1)
      OBVIOUS
    <3>3. a \in 0..(shape.h - 1) /\ b \in 0..(shape.w - 1)
      BY <1>2, <1>4, <1>5, <3>1, <3>2
    <3> QED BY <1>2, <3>1, <3>3
  <2> QED BY <2>1, <2>2
<1>16. ASSUME NEW p \in P, NEW q \in P, ~still(p), ~still(q), f[p] = f[q] PROVE p = q
  <2>1. y(p) = y(q) /\ x(p) = x(q)
    <3>1. f[p] = <<y(p), x(p)>> /\ f[q] = <<y(q), x(q)>>
      BY <1>14, <1>16
    <3>2. \A a, b, c, d : <<a, b>> = <<c, d>> => a = c /\ b = d
      OBVIOUS
    <3>3. <<y(p), x(p)>> = <<y(q), x(q)>>
      BY <1>16, <3>1
    <3> HIDE DEF x, y
    <3> QED BY <3>2, <3>3
  <2>2. t(p) \div cols = t(q) \div cols /\ p[1] % n = q[1] % n
    <3> DEFINE a == t(p) \div cols
    <3> DEFINE b == t(q) \div cols
    <3> DEFINE c == p[1] % n
    <3> DEFINE d == q[1] % n
    <3>1. a \in 0..rows - 1 /\ b \in 0..rows - 1 /\ c \in 0..n - 1 /\ d \in 0..n - 1
      BY <1>13, <1>16
    <3>2. a * n + c = b * n + d
      BY <2>1
    <3> HIDE DEF a, b, c, d
    <3>3. a \in Int /\ b \in Int /\ n * a + c = n * b + d
      BY <1>4, <3>1, <3>2
    <3>4. a = b /\ c = d
      BY <3>1, <3>3, OneQuotient
    <3> QED BY <3>4 DEF a, b, c, d
  <2>3. t(p) % cols = t(q) % cols /\ p[2] % n = q[2] % n
    <3> DEFINE a == t(p) % cols
    <3> DEFINE b == t(q) % cols
    <3> DEFINE c == p[2] % n
    <3> DEFINE d == q[2] % n
    <3>1. a \in 0..cols - 1 /\ b \in 0..cols - 1 /\ c \in 0..n - 1 /\ d \in 0..n - 1
      BY <1>13, <1>16
    <3>2. a * n + c = b * n + d
      BY <2>1
    <3> HIDE DEF a, b, c, d
    <3>3. a \in Int /\ b \in Int /\ n * a + c = n * b + d
      BY <1>5, <3>1, <3>2
    <3>4. a = b /\ c = d
      BY <3>1, <3>3, OneQuotient
    <3> QED BY <3>4 DEF a, b, c, d
  <2>4. t(p) = t(q)
    <3>1. /\ t(p) = (t(p) \div cols) * cols + (t(p) % cols)
          /\ t(q) = (t(q) \div cols) * cols + (t(q) % cols)
      BY <1>13, <1>16
    <3> QED BY <2>2, <2>3, <3>1
  <2>5. tile(p) = tile(q)
    BY <1>11, <1>13, <1>16, <2>4
  <2>6. p[1] \div n = q[1] \div n /\ p[2] \div n = q[2] \div n
    <3> DEFINE a == p[1] \div n
    <3> DEFINE b == q[1] \div n
    <3> DEFINE c == p[2] \div n
    <3> DEFINE d == q[2] \div n
    <3>1. a \in 0..rows - 1 /\ b \in 0..rows - 1 /\ c \in 0..cols - 1 /\ d \in 0..cols - 1
      BY <1>13, <1>16
    <3>2. a * cols + c = b * cols + d
      BY <2>5
    <3> HIDE DEF a, b, c, d
    <3>3. a \in Int /\ b \in Int /\ cols * a + c = cols * b + d /\ cols \in Nat \ {0}
      BY <1>4, <1>5, <3>1, <3>2
    <3>4. a = b /\ c = d
      BY <3>1, <3>3, OneQuotient
    <3> QED BY <3>4 DEF a, b, c, d
  <2>7. p[1] = q[1] /\ p[2] = q[2]
    <3>1. /\ p[1] = (p[1] \div n) * n + (p[1] % n) /\ p[2] = (p[2] \div n) * n + (p[2] % n)
          /\ q[1] = (q[1] \div n) * n + (q[1] % n) /\ q[2] = (q[2] \div n) * n + (q[2] % n)
      BY <1>13, <1>16
    <3> QED BY <2>2, <2>3, <2>6, <3>1
  <2> QED BY <1>12, <2>7
<1>17. ASSUME NEW p \in P, NEW q \in P, still(p), ~still(q) PROVE f[p] # f[q]
  <2>1. f[p] = p /\ f[q] = <<y(q), x(q)>> /\ y(q) \in 0..rows * n - 1 /\ x(q) \in 0..cols * n - 1
    BY <1>14, <1>17
  <2>2. p[1] >= rows * n \/ p[2] >= cols * n
    BY <1>17
  <2> HIDE DEF x, y
  <2>3. <<y(q), x(q)>>[1] = y(q) /\ <<y(q), x(q)>>[2] = x(q)
    OBVIOUS
  <2>4. p[1] \in Nat /\ p[2] \in Nat
    BY <1>12
  <2> SUFFICES ASSUME f[p] = f[q] PROVE FALSE
    OBVIOUS
  <2>5. p[1] = y(q) /\ p[2] = x(q)
    BY <2>1, <2>3
  <2> QED BY <1>4, <1>5, <2>1, <2>2, <2>4, <2>5
<1>18. ASSUME NEW p \in P, NEW q \in P, f[p] = f[q] PROVE p = q
  <2>1. CASE still(p) /\ still(q)
    BY <1>14, <1>18, <2>1
  <2>2. CASE still(p) /\ ~still(q)
    BY <1>17, <1>18, <2>2
  <2>3. CASE ~still(p) /\ still(q)
    BY <1>17, <1>18, <2>3
  <2>4. CASE ~still(p) /\ ~still(q)
    BY <1>16, <1>18, <2>4
  <2> QED BY <2>1, <2>2, <2>3, <2>4
<1> QED BY <1>15, <1>18 DEF P

\* a one-to-one function keeps the number of the members of a set
LEMMA ImageIs ==
    ASSUME NEW S, IsFiniteSet(S), NEW f, \A x, y \in S : f[x] = f[y] => x = y
    PROVE  Cardinality({f[x] : x \in S}) = Cardinality(S)
<1> DEFINE T == {f[x] : x \in S}
<1> DEFINE g == [x \in S |-> f[x]]
<1>1. g \in Bijection(S, T)
  BY DEF Bijection, Injection, Surjection, IsInjective
<1>2. ExistsBijection(S, T)
  BY <1>1 DEF ExistsBijection
<1> HIDE DEF T
<1>3. Cardinality(T) = Cardinality(S)
  BY <1>2, FS_Bijection
<1> QED BY <1>3 DEF T

-----------------------------------------------------------------------------
(* What was prepared is as it should be.                                   *)

\* inverted or not, a mask stays in its frame
LEMMA UsedInFrame ==
    ASSUME NEW item, NEW mask, InFrame(Frames[item.sample], mask)
    PROVE  InFrame(Frames[item.sample], UsedMask(item, mask))
<1> DEFINE shape == Frames[item.sample]
<1>1. InFrame(shape, Inverted(shape, mask))
  BY InvertedInFrame
<1> QED BY <1>1 DEF UsedMask

\* what was prepared is a mask of the frame of its sample
LEMMA MadeInFrame ==
    ASSUME NEW e, Made(e)
    PROVE  /\ Frames[e.item.sample] \in FrameShapes /\ InFrame(Frames[e.item.sample], e.mask)
           /\ e.area \in 0..(Frames[e.item.sample].h * Frames[e.item.sample].w)
<1> DEFINE shape == Frames[e.item.sample]
<1>1. shape \in FrameShapes /\ e.area = IntendedArea(e.mask)
  BY DEF Made, Fit
<1>2. PICK mask : InFrame(shape, mask) /\ e.mask = UsedMask(e.item, mask)
  BY DEF Made
<1>3. InFrame(shape, e.mask)
  BY <1>2, UsedInFrame
<1> HIDE DEF shape
<1>4. IntendedArea(e.mask) \in 0..(shape.h * shape.w)
  <2> DEFINE m == e.mask
  <2>1. InFrame(shape, m)
    BY <1>3
  <2> HIDE DEF m
  <2>2. IntendedArea(m) \in 0..(shape.h * shape.w)
    BY <1>1, <2>1, AreasSplit
  <2> QED BY <2>2 DEF m
<1> QED BY <1>1, <1>3, <1>4 DEF shape

\* the type invariant is weaker than the invariants
LEMMA TypesFollow == Typed /\ StableInv /\ SoundInv => TypeOK
<1> SUFFICES ASSUME Typed, StableInv, SoundInv PROVE TypeOK
  OBVIOUS
<1>1. /\ phase \in {"new", "resolved", "rejected", "planned", "unplannable", "divergent",
                    "contract_error"}
      /\ \A p \in AllProcesses : Len(cache[p]) <= CacheSize
  BY DEF SoundInv, Phases
<1>2. accepted \in 0..Len(plan) /\ DOMAIN results \subseteq 1..Len(plan)
  BY DEF StableInv, Delivered
<1>3. ASSUME NEW k \in DOMAIN results, NEW e \in Entries[k]
      PROVE  LET shape == Frames[e.item.sample] IN
             /\ Len(e.mask.at) = IF e.mask.per_frame THEN shape.t ELSE 1
             /\ \A i \in DOMAIN e.mask.at : e.mask.at[i] \subseteq Pixels(shape)
             /\ e.area \in 0..(shape.h * shape.w)
  <2>1. Made(e)
    BY <1>3 DEF Entries, SoundInv, AllMade
  <2> DEFINE shape == Frames[e.item.sample]
  <2>2. InFrame(shape, e.mask) /\ e.area \in 0..(shape.h * shape.w)
    BY <2>1, MadeInFrame
  <2>3. DOMAIN e.mask.at = 1..Len(e.mask.at)
    BY <2>2, SequenceIs DEF InFrame
  <2> HIDE DEF shape
  <2>4. /\ Len(e.mask.at) = IF e.mask.per_frame THEN shape.t ELSE 1
        /\ \A i \in DOMAIN e.mask.at : e.mask.at[i] \subseteq Pixels(shape)
    BY <2>2, <2>3 DEF InFrame
  <2> QED BY <2>2, <2>4 DEF shape
<1> QED BY <1>1, <1>2, <1>3 DEF TypeOK

\* masks of one pixel set are equal if their pixel sets are
LEMMA SameWhole ==
    ASSUME NEW shape, NEW m, NEW n, InFrame(shape, m), InFrame(shape, n),
           ~m.per_frame, ~n.per_frame, m.at[1] = n.at[1]
    PROVE  m = n
<1>1. ASSUME NEW mask, InFrame(shape, mask), ~mask.per_frame
      PROVE  mask = [per_frame |-> FALSE, at |-> [i \in 1..1 |-> mask.at[1]]]
  <2> DEFINE a == mask.at
  <2>1. /\ mask = [per_frame |-> mask.per_frame, at |-> a] /\ mask.per_frame = FALSE
        /\ IsSeq(a) /\ Len(a) = 1
    BY <1>1 DEF InFrame
  <2> HIDE DEF a
  <2>2. a = [i \in 1..Len(a) |-> a[i]]
    BY <2>1, SequenceIs
  <2>3. a = [i \in 1..1 |-> a[1]]
    BY <2>1, <2>2
  <2>4. mask = [per_frame |-> FALSE, at |-> [i \in 1..1 |-> a[1]]]
    BY <2>1, <2>3
  <2> QED BY <2>4 DEF a
<1>2. m = [per_frame |-> FALSE, at |-> [i \in 1..1 |-> m.at[1]]]
  BY <1>1
<1>3. n = [per_frame |-> FALSE, at |-> [i \in 1..1 |-> n.at[1]]]
  BY <1>1
<1> QED BY <1>2, <1>3

\* An entry of a region and one of its complement have one mask.
LEMMA SplitEntries ==
    ASSUME NEW d, NEW e, Made(d), Made(e), Genuine(d), Genuine(e),
           d.item.sample = e.item.sample, ~IsControl(d.item),
           d.item.region = e.item.region, d.item.invert, ~e.item.invert
    PROVE  /\ InFrame(Frames[d.item.sample], e.mask)
           /\ d.mask = Inverted(Frames[d.item.sample], e.mask)
<1> DEFINE shape == Frames[d.item.sample]
<1>1. PICK m : InFrame(shape, m) /\ OfRegion(d.item, m) /\ d.mask = UsedMask(d.item, m)
  BY DEF Made
<1>2. PICK n : InFrame(shape, n) /\ OfRegion(e.item, n) /\ e.mask = UsedMask(e.item, n)
  BY DEF Made
<1>3. d.mask = Inverted(shape, m) /\ e.mask = n
  BY <1>1, <1>2 DEF UsedMask
<1>4. d.item.region.kind # "random_area_match"
  BY DEF IsControl
<1>5. CASE d.item.region.kind = "explicit"
  <2> DEFINE pixels == Bitmap[d.item.region.ref_hash].pixels
  <2>1. ~m.per_frame /\ ~n.per_frame
    BY <1>1, <1>2, <1>5 DEF OfRegion
  <2>2. d.mask.at[1] = Pixels(shape) \ pixels /\ e.mask.at[1] = pixels
    BY <1>5 DEF Genuine
  <2>3. 1 \in 1..Len(m.at) /\ 1 \in 1..Len(n.at)
    BY <1>1, <1>2, <2>1 DEF InFrame
  <2>4. m.at[1] \subseteq Pixels(shape) /\ n.at[1] \subseteq Pixels(shape)
    BY <1>1, <1>2, <2>3 DEF InFrame
  <2>5. d.mask.at[1] = Pixels(shape) \ m.at[1]
    BY <1>1, <1>3, <2>3, InvertedInFrame
  <2>6. m.at[1] = n.at[1]
    BY <1>3, <2>2, <2>4, <2>5
  <2>7. m = n
    BY <1>1, <1>2, <2>1, <2>6, SameWhole
  <2> QED BY <1>2, <1>3, <2>7
<1>6. CASE d.item.region.kind # "explicit"
  <2>1. m = Generated(shape, d.item.region) /\ n = Generated(shape, d.item.region)
    BY <1>1, <1>2, <1>4, <1>6 DEF OfRegion
  <2> QED BY <1>2, <1>3, <2>1
<1> QED BY <1>5, <1>6

\* entries of a region and of its complement were made from one mask
LEMMA ComplementsFollow == Typed /\ MasksInv /\ SoundInv => ComplementsSplitTheFrame
<1> SUFFICES ASSUME Typed, MasksInv, SoundInv, NEW j \in DOMAIN results, NEW k \in DOMAIN results,
                    {ProcessOf(j), ProcessOf(k)} \cap raced = {},
                    NEW d \in Entries[j], NEW e \in Entries[k],
                    d.item.sample = e.item.sample, ~IsControl(d.item),
                    d.item.region = e.item.region, d.item.invert, ~e.item.invert
             PROVE  LET shape == Frames[d.item.sample]
                        excess == d.area + e.area - shape.h * shape.w IN
                    /\ excess \in -1..1
                    /\ \A i \in DOMAIN d.mask.at : d.mask.at[i] = Pixels(shape) \ e.mask.at[i]
  BY DEF ComplementsSplitTheFrame
<1> DEFINE shape == Frames[d.item.sample]
<1> DEFINE whole == shape.h * shape.w
<1>1. d \in Range(results[j].prepared) /\ e \in Range(results[k].prepared)
  BY DEF Entries
<1>2. Made(d) /\ Made(e)
  BY <1>1 DEF SoundInv, AllMade
<1>3. Genuine(d) /\ Genuine(e)
  BY <1>1 DEF MasksInv, Outputs
<1>4. InFrame(shape, e.mask) /\ d.mask = Inverted(shape, e.mask)
  BY <1>2, <1>3, SplitEntries
<1>5. shape \in FrameShapes /\ d.area = IntendedArea(d.mask) /\ e.area = IntendedArea(e.mask)
  BY <1>2 DEF Made, Fit
<1> HIDE DEF shape
<1> DEFINE m == e.mask
<1>6. InFrame(shape, m) /\ d.mask = Inverted(shape, m)
  BY <1>4
<1> HIDE DEF m
<1>7. LET a == IntendedArea(m)
          b == IntendedArea(Inverted(shape, m)) IN
      a \in 0..whole /\ b \in 0..whole /\ a + b - whole \in -1..1
  BY <1>5, <1>6, AreasSplit
<1>8. shape.h * shape.w \in Nat
  BY <1>5, PixelsAre
<1>9. d.area + e.area - whole \in -1..1
  <2> DEFINE a == IntendedArea(m)
  <2> DEFINE b == IntendedArea(Inverted(shape, m))
  <2>1. a \in 0..whole /\ b \in 0..whole /\ a + b - whole \in -1..1 /\ e.area = a /\ d.area = b
    BY <1>5, <1>6, <1>7 DEF m
  <2> HIDE DEF a, b, whole
  <2>2. whole \in Nat
    BY <1>8 DEF whole
  <2> QED BY <2>1, <2>2
<1>10. /\ Len(Inverted(shape, m).at) = Len(m.at) /\ InFrame(shape, Inverted(shape, m))
       /\ \A i \in 1..Len(m.at) : Inverted(shape, m).at[i] = Pixels(shape) \ m.at[i]
  BY <1>6, InvertedInFrame
<1>11. DOMAIN Inverted(shape, m).at = 1..Len(m.at)
  BY <1>10, SequenceIs DEF InFrame
<1>12. \A i \in DOMAIN d.mask.at : d.mask.at[i] = Pixels(shape) \ e.mask.at[i]
  BY <1>6, <1>10, <1>11 DEF m
<1> QED BY <1>9, <1>12 DEF shape

\* entries of a shuffle were made from a permutation of tiles
LEMMA ShufflesFollow == SoundInv => ShufflesMovePixels
<1> SUFFICES ASSUME SoundInv, NEW k \in DOMAIN results, NEW e \in Entries[k],
                    e.item.op = "patch_shuffle", NEW i \in DOMAIN e.pixels
             PROVE  LET sources == {e.pixels[i][p] : p \in e.mask.at[i]} IN
                    /\ sources \subseteq Pixels(Frames[e.item.sample])
                    /\ Cardinality(sources) = Cardinality(e.mask.at[i])
  BY DEF ShufflesMovePixels
<1> DEFINE shape == Frames[e.item.sample]
<1> DEFINE S == e.mask.at[i]
<1>1. Made(e)
  BY DEF Entries, SoundInv, AllMade
<1>2. shape \in FrameShapes /\ e.item.value \in Nat \ {0}
  BY <1>1 DEF Made, Fit
<1>3. PICK f \in Candidates(shape, "patch_shuffle", e.item.value) :
        e.pixels = Composite(shape, e.mask, f)
  BY <1>1 DEF Made
<1>4. InFrame(shape, e.mask)
  BY <1>1, MadeInFrame
<1>5. /\ i \in DOMAIN e.mask.at
      /\ e.pixels[i] = [p \in Pixels(shape) |-> IF p \in S THEN f[p] ELSE p]
  BY <1>3 DEF Composite
<1>6. DOMAIN e.mask.at = 1..Len(e.mask.at)
  BY <1>4, SequenceIs DEF InFrame
<1>7. S \subseteq Pixels(shape)
  BY <1>4, <1>5, <1>6 DEF InFrame
<1>8. (\A p \in Pixels(shape) : f[p] \in Pixels(shape))
      /\ \A p, q \in Pixels(shape) : f[p] = f[q] => p = q
  BY <1>2, <1>3, ShuffledIs
<1> DEFINE sources == {e.pixels[i][p] : p \in S}
<1>9. \A p \in S : e.pixels[i][p] = f[p]
  BY <1>5, <1>7
<1>10. sources = {f[p] : p \in S}
  BY <1>9
<1>11. IsFiniteSet(S)
  <2>1. IsFiniteSet(Pixels(shape))
    BY <1>2, PixelsAre
  <2> QED BY <1>7, <2>1, FS_Subset
<1> HIDE DEF S, shape, sources
<1>12. Cardinality({f[p] : p \in S}) = Cardinality(S)
  BY <1>7, <1>8, <1>11, ImageIs
<1>13. sources \subseteq Pixels(shape) /\ Cardinality(sources) = Cardinality(S)
  BY <1>7, <1>8, <1>10, <1>12
<1> QED BY <1>13 DEF S, shape, sources
=============================================================================
