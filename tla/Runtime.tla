------------------------------ MODULE Runtime ------------------------------
(***************************************************************************)
(* One audit run (ssat/core/runtime): run_audit pulls prepared work from   *)
(* the workers, rebatches it by shape under a batch-size cap that shrinks  *)
(* when the model runs out of memory, splits the batches that did, and     *)
(* records every outcome, under the fail_fast policy and a cancellation    *)
(* token that another thread may set at any time.                          *)
(*                                                                         *)
(* The generators of the code are lazy: nothing is prepared before the     *)
(* batch stream asks for it.  pc says who of them is running.              *)
(***************************************************************************)
EXTENDS Subsequences

CONSTANTS
    Samples,          \* pending clean samples, in order
    Chunks,           \* pending chunks, in order: sequences of items
    Shape,            \* the array shape of each sample and item
    TargetBatchSize,  \* runtime.target_batch_size
    MaxBatchSize,     \* the adapter's limit, or NoLimit
    NoLimit,
    FailFastModes,    \* the values of runtime.fail_fast to be considered
    Absent            \* no record yet

Elements(s) == {s[k] : k \in 1..Len(s)}
Clean == Elements(Samples)
Perturbed == UNION {Elements(c) : c \in Elements(Chunks)}
Work == Clean \cup Perturbed

ASSUME RuntimeAssumption ==
    /\ TargetBatchSize \in Nat \ {0}
    /\ MaxBatchSize \in (Nat \ {0}) \cup {NoLimit} /\ NoLimit \notin Nat
    /\ FailFastModes \subseteq BOOLEAN
    /\ Clean \cap Perturbed = {}
    /\ DOMAIN Shape = Work
\* sample_id and item_id are unique in a plan, which its builder checks
ASSUME PlanAssumption ==
    /\ Samples \in Seq(Clean) /\ Chunks \in Seq(Seq(Perturbed))
    /\ \A j, k \in 1..Len(Samples) : Samples[j] = Samples[k] => j = k
    /\ \A j, k \in 1..Len(Chunks) :
          \A x \in 1..Len(Chunks[j]), y \in 1..Len(Chunks[k]) :
             Chunks[j][x] = Chunks[k][y] => j = k /\ x = y

VARIABLES
    pc,       \* which generator runs
    phase,    \* clean samples, then perturbed items
    taken,    \* units of this phase that were taken from the workers
    ready,    \* prepared, not yet seen by the Rebatcher
    buffer,   \* held by the Rebatcher
    cap,      \* BatchSizeState.current_size
    batch,    \* the batch being predicted
    stack,    \* its parts that are still to be predicted, by the recursion
    rows,     \* outcomes of the batch, or preparation failures, to be written
    done,     \* how many of them were
    record,   \* the status written for each piece of work
    token,    \* the cancellation token
    fail_fast \* runtime.fail_fast of this run

stream == <<phase, taken, ready>>
batching == <<buffer, batch, stack>>
written == <<done, record>>
request == <<token, fail_fast>>
vars == <<pc, stream, batching, cap, rows, written, request>>

-----------------------------------------------------------------------------
Smaller(m, n) == IF m < n THEN m ELSE n
InitialBatchSize == IF MaxBatchSize = NoLimit THEN TargetBatchSize
                    ELSE Smaller(TargetBatchSize, MaxBatchSize)

\* what the workers yield one at a time: a clean sample, or a chunk
Units == IF phase = "clean" THEN [k \in 1..Len(Samples) |-> <<Samples[k]>>]
         ELSE Chunks
Exhausted == taken = Len(Units)
NextUnit == Units[taken + 1]

Marked(s, status) == [k \in 1..Len(s) |-> [work |-> s[k], status |-> status]]
Suffix(s, n) == SubSeq(s, n + 1, Len(s))

Init ==
    /\ pc = "pull" /\ phase = "clean" /\ taken = 0 /\ ready = <<>>
    /\ buffer = <<>> /\ batch = <<>> /\ stack = <<>>
    /\ cap = InitialBatchSize
    /\ rows = <<>> /\ done = 0 /\ record = [w \in Work |-> Absent]
    /\ token = FALSE /\ fail_fast \in FailFastModes

-----------------------------------------------------------------------------
(* The Rebatcher asks for the next item.                                   *)

Pulling == pc = "pull" /\ Len(buffer) < cap /\ ready = <<>> /\ ~Exhausted
Take == taken' = taken + 1 /\ UNCHANGED phase

\* every unit is prepared before the token is looked at
SeeCancel ==
    /\ token
    /\ pc' = "cancelled" /\ Take
    /\ UNCHANGED <<ready, batching, cap, rows, written, request>>

\* the source cannot load the sample, which fails every item of a chunk
LoadFails ==
    /\ ~token /\ Take
    /\ rows' = Marked(NextUnit, "load_failed")
    /\ pc' = "write"
    /\ UNCHANGED <<ready, batching, cap, written, request>>

LoadSample ==
    /\ ~token /\ phase = "clean" /\ Take
    /\ ready' = NextUnit
    /\ UNCHANGED <<pc, batching, cap, rows, written, request>>

\* items fail in the worker, or when the adapter transforms their mask
PrepareChunk(inWorker, inMask) ==
    /\ ~token /\ phase = "perturbed" /\ Take
    /\ rows' = Marked(Those(NextUnit, inWorker) \o Those(NextUnit, inMask), "prepare_failed")
    /\ ready' = Those(NextUnit, Elements(NextUnit) \ (inWorker \cup inMask))
    /\ pc' = IF inWorker \cup inMask = {} THEN "pull" ELSE "write"
    /\ UNCHANGED <<batching, cap, written, request>>
\* fail_fast stops at the first failure, and the rest of the chunk is dropped
AbandonChunk(item) ==
    /\ ~token /\ phase = "perturbed" /\ Take
    /\ rows' = Marked(<<item>>, "prepare_failed")
    /\ pc' = "write"
    /\ UNCHANGED <<ready, batching, cap, written, request>>

Prepare == Pulling /\
    \/ SeeCancel \/ LoadFails \/ LoadSample
    \/ \E inWorker, inMask \in SUBSET Elements(NextUnit) :
          /\ inWorker \cap inMask = {}
          /\ fail_fast => inWorker \cup inMask = {}
          /\ PrepareChunk(inWorker, inMask)
    \/ \E item \in Elements(NextUnit) : fail_fast /\ AbandonChunk(item)

-----------------------------------------------------------------------------
(* The Rebatcher.                                                          *)

Fits == buffer # <<>> => Shape[Head(ready)] = Shape[Head(buffer)]

Buffer ==
    /\ pc = "pull" /\ Len(buffer) < cap /\ ready # <<>> /\ Fits
    /\ buffer' = Append(buffer, Head(ready)) /\ ready' = Tail(ready)
    /\ UNCHANGED <<pc, phase, taken, batch, stack, cap, rows, written, request>>

Submit(items, rest) ==
    /\ batch' = items /\ stack' = <<items>> /\ buffer' = rest
    /\ pc' = "predict"
    /\ UNCHANGED <<stream, cap, rows, written, request>>

SubmitFull ==
    /\ pc = "pull" /\ Len(buffer) >= cap
    /\ Submit(SubSeq(buffer, 1, cap), Suffix(buffer, cap))
SubmitBeforeNewShape ==
    /\ pc = "pull" /\ Len(buffer) < cap /\ ready # <<>> /\ ~Fits
    /\ Submit(buffer, <<>>)
SubmitRest ==
    /\ pc = "pull" /\ Len(buffer) < cap /\ buffer # <<>>
    /\ ready = <<>> /\ Exhausted
    /\ Submit(buffer, <<>>)

-----------------------------------------------------------------------------
(* BatchSplitter.predict on the part at the head of the stack.             *)

Part == Head(stack)

Predicted(status) ==
    /\ rows' = rows \o Marked(Part, status)
    /\ stack' = Tail(stack)
    /\ pc' = IF Tail(stack) = <<>> THEN "outcome" ELSE "predict"

PredictOk ==
    /\ pc = "predict" /\ Predicted("ok")
    /\ UNCHANGED <<stream, buffer, batch, cap, written, request>>
\* any ordinary exception fails the whole part
PredictRaises ==
    /\ pc = "predict" /\ Predicted("predict_failed")
    /\ UNCHANGED <<stream, buffer, batch, cap, written, request>>

\* faulty: a batch of one halves to none
FaultyRecordOom == cap' = Smaller(cap, Len(Part) \div 2)
RecordOom == cap' = LET half == Len(Part) \div 2
                    IN  Smaller(cap, IF half > 1 THEN half ELSE 1)
OomAlone ==
    /\ pc = "predict" /\ Len(Part) = 1 /\ RecordOom
    /\ Predicted("skipped_oom")
    /\ UNCHANGED <<stream, buffer, batch, written, request>>
\* faulty: the right half first
FaultyOomSplit ==
    /\ pc = "predict" /\ Len(Part) > 1 /\ RecordOom
    /\ LET midpoint == Len(Part) \div 2
       IN  stack' = <<Suffix(Part, midpoint), SubSeq(Part, 1, midpoint)>>
                    \o Tail(stack)
    /\ UNCHANGED <<pc, stream, buffer, batch, rows, written, request>>
OomSplit ==
    /\ pc = "predict" /\ Len(Part) > 1 /\ RecordOom
    /\ LET midpoint == Len(Part) \div 2
       IN  stack' = <<SubSeq(Part, 1, midpoint), Suffix(Part, midpoint)>>
                    \o Tail(stack)
    /\ UNCHANGED <<pc, stream, buffer, batch, rows, written, request>>

\* cleanup_after_oom raises, which leaves the recursion: results of other
\* parts are lost, and the whole batch fails
CleanupRaises ==
    /\ pc = "predict"
    /\ rows' = Marked(batch, "predict_failed") /\ stack' = <<>>
    /\ pc' = "outcome"
    /\ UNCHANGED <<stream, buffer, batch, cap, written, request>>

-----------------------------------------------------------------------------
(* Outcomes and preparation failures are recorded.                         *)

\* faulty: the token is not looked at
FaultyOutcome ==
    /\ pc = "outcome" /\ pc' = "write"
    /\ UNCHANGED <<stream, batching, cap, rows, written, request>>
\* a cancellation drops the batch that was just predicted
Outcome ==
    /\ pc = "outcome"
    /\ pc' = IF token THEN "cancelled" ELSE "write"
    /\ UNCHANGED <<stream, batching, cap, rows, written, request>>

\* the rows are written in order
Write ==
    /\ pc = "write" /\ done < Len(rows)
    /\ record' = [record EXCEPT ![rows[done + 1].work] = rows[done + 1].status]
    /\ done' = done + 1
    /\ UNCHANGED <<pc, stream, batching, cap, rows, request>>

AfterRows(stop) ==
    /\ pc = "write" /\ done = Len(rows)
    /\ pc' = IF fail_fast /\ stop THEN "failed" ELSE "pull"
    /\ rows' = <<>> /\ done' = 0 /\ batch' = <<>>
    /\ UNCHANGED <<stream, buffer, stack, cap, record, request>>

\* faulty: preparation failures do not
FaultyWrittenUnprepared ==
    AfterRows(\E k \in 1..Len(rows) :
                  rows[k].status \in {"predict_failed", "skipped_oom"})
\* and fail_fast looks at all of them, afterwards
Written ==
    AfterRows(\E k \in 1..Len(rows) : rows[k].status # "ok")

-----------------------------------------------------------------------------
(* The end of a phase, of the run, and what else may happen to it.         *)

Drained == pc = "pull" /\ Exhausted /\ ready = <<>> /\ buffer = <<>>

\* faulty: the batch size starts again with the perturbed items
FaultyEndClean ==
    /\ Drained /\ phase = "clean"
    /\ phase' = "perturbed" /\ taken' = 0 /\ cap' = InitialBatchSize
    /\ UNCHANGED <<pc, ready, batching, rows, written, request>>
EndClean ==
    /\ Drained /\ phase = "clean"
    /\ phase' = "perturbed" /\ taken' = 0
    /\ UNCHANGED <<pc, ready, batching, cap, rows, written, request>>

Finish ==
    /\ Drained /\ phase = "perturbed"
    /\ pc' = IF token THEN "cancelled" ELSE "completed"
    /\ UNCHANGED <<stream, batching, cap, rows, written, request>>

\* a worker or the adapter breaks its contract, a batch cannot be stacked, or
\* a flush raises: the last one, or the one before a cancellation
Break ==
    /\ pc \in {"pull", "predict"} \/ (pc = "outcome" /\ token)
    /\ pc' = "failed"
    /\ UNCHANGED <<stream, batching, cap, rows, written, request>>

\* the writer raises, before or after it has taken the row
WriterRaises ==
    /\ pc = "write" /\ done < Len(rows)
    /\ record' \in {record,
          [record EXCEPT ![rows[done + 1].work] = rows[done + 1].status]}
    /\ pc' = "failed"
    /\ UNCHANGED <<stream, batching, cap, rows, done, request>>

\* CancellationToken.cancel, from any thread
Cancel ==
    /\ ~token /\ token' = TRUE
    /\ UNCHANGED <<pc, stream, batching, cap, rows, written, fail_fast>>

Answer == PredictOk \/ PredictRaises \/ OomAlone \/ OomSplit
Rebatch == Buffer \/ SubmitFull \/ SubmitBeforeNewShape \/ SubmitRest
Advance == Prepare \/ Rebatch \/ Outcome \/ Write \/ Written \/ EndClean \/ Finish
Proceed == Advance \/ Answer \/ CleanupRaises
Disturb == Break \/ WriterRaises \/ Cancel
Next == Proceed \/ Disturb

Spec == Init /\ [][Next]_vars
\* run_audit is one thread that waits for nothing but its own calls, and
\* those return or raise
FairSpec == Spec /\ WF_vars(Proceed)

-----------------------------------------------------------------------------
(* Properties.                                                             *)

Failures == {"load_failed", "prepare_failed", "predict_failed", "skipped_oom"}
Statuses == {"ok"} \cup Failures
ASSUME AbsentAssumption == Absent \notin Statuses
Ended == {"completed", "cancelled", "failed"}

\* Every variable holds a value of its type.
TypeOK ==
    /\ pc \in {"pull", "predict", "outcome", "write"} \cup Ended
    /\ phase \in {"clean", "perturbed"} /\ taken \in 0..Len(Units)
    /\ {ready, buffer, batch} \subseteq Seq(Work)
    /\ stack \in Seq(Seq(Work)) /\ cap \in 1..InitialBatchSize
    /\ rows \in Seq([work: Work, status: Statuses]) /\ done \in 0..Len(rows)
    /\ record \in [Work -> Statuses \cup {Absent}]
    /\ token \in BOOLEAN /\ fail_fast \in FailFastModes

\* work that no worker has yielded yet
Untaken == (UNION {Elements(Units[k]) : k \in (taken + 1)..Len(Units)})
           \cup IF phase = "clean" THEN Perturbed ELSE {}
RowsOf(w) == {k \in (done + 1)..Len(rows) : rows[k].work = w}
Occurrences(s, w) == {k \in 1..Len(s) : s[k] = w}
OnStack(w) == UNION {{p} \X Occurrences(stack[p], w) : p \in 1..Len(stack)}

\* Places where w is: to be taken, prepared, buffered, in a part of the batch
\* still to be predicted, among the rows to be written, or recorded.
Places(w) ==
    {<<"untaken", 0>> : n \in IF w \in Untaken THEN {0} ELSE {}}
    \cup {<<"ready", k>> : k \in Occurrences(ready, w)}
    \cup {<<"buffer", k>> : k \in Occurrences(buffer, w)}
    \cup {<<"stack", k>> : k \in OnStack(w)}
    \cup {<<"rows", k>> : k \in RowsOf(w)}
    \cup {<<"record", 0>> : n \in IF record[w] # Absent THEN {0} ELSE {}}

Abandoning == fail_fast /\ \E k \in 1..Len(rows) : rows[k].status # "ok"

\* Rebatching, splitting and failing neither lose nor duplicate work: while
\* the run goes on, every sample and item is in exactly one place.
NothingLostOrDoubled ==
    pc \notin Ended /\ ~Abandoning
    => \A w \in Work : \E p \in Places(w) : Places(w) = {p}

\* the place of w in the plan: clean samples, then chunk by chunk
Earlier(v, w) ==
    \/ v \in Clean /\ w \in Perturbed
    \/ \E j, k \in 1..Len(Samples) : j < k /\ Samples[j] = v /\ Samples[k] = w
    \/ \E j, k \in 1..Len(Chunks) :
          j < k /\ v \in Elements(Chunks[j]) /\ w \in Elements(Chunks[k])
    \/ \E c \in Elements(Chunks) : \E j, k \in 1..Len(c) :
          j < k /\ c[j] = v /\ c[k] = w
InPlanOrder(s) == \A j, k \in 1..Len(s) : j < k => Earlier(s[j], s[k])

\* Everything is predicted in plan order, and however a batch was split, its
\* results are those of its items, one by one and in order.
PredictedInOrder ==
    /\ pc \notin Ended \cup {"write"} => InPlanOrder(batch \o buffer \o ready)
    /\ pc = "outcome" => /\ Len(rows) = Len(batch)
                         /\ \A k \in 1..Len(batch) : rows[k].work = batch[k]

\* The model never sees an empty batch, a batch of mixed shapes, or one that
\* exceeds the configured size or its own limit, whatever was split.
PartsFitTheModel ==
    \A p \in 1..Len(stack) :
        /\ stack[p] # <<>> /\ Len(stack[p]) <= TargetBatchSize
        /\ MaxBatchSize # NoLimit => Len(stack[p]) <= MaxBatchSize
        /\ \A v, w \in Elements(stack[p]) : Shape[v] = Shape[w]

\* The cap never grows again, and every batch submitted after it shrank is
\* within it.
SubmissionsFollowTheCap ==
    [][/\ cap' <= cap
       /\ pc = "pull" /\ pc' = "predict" => Len(batch') <= cap]_vars

\* Under fail_fast the run asks the model for nothing more once it has
\* recorded a failure.
FailFastStops ==
    fail_fast /\ pc \notin Ended \cup {"write"}
    => \A w \in Work : record[w] \in {"ok", Absent}

\* Once cancelled, a run finishes writing at most the rows it is at, and
\* never reports completion.
CancelIsObserved ==
    [][token => /\ record' # record => pc = "write"
                /\ pc' = "write" => pc = "write"
                /\ pc' = "completed" => pc = "completed"]_vars

\* The run ends, with every piece of work recorded if it completes.
RunEnds == <>(pc \in Ended)

\* Each piece of work is recorded at most once, clean samples first, and
\* completion means that all of it was.
List == INSTANCE WorkList WITH
    Values <- Statuses, None <- Absent, recorded <- record,
    state <- IF pc \in {"cancelled", "failed"} THEN "stopped"
             ELSE IF pc = "completed" THEN "completed" ELSE "running"
ImplementsWorkList == List!Spec

\* Whatever fails, splits or is given up, batches are pieces of the plan in its
\* order, fit the model, and hold every piece of work once.
BatchesAreSound ==
    /\ TypeOK /\ NothingLostOrDoubled /\ PredictedInOrder
    /\ PartsFitTheModel /\ FailFastStops
=============================================================================
