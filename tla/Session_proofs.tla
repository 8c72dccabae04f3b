--------------------------- MODULE Session_proofs ---------------------------
(***************************************************************************)
(* Theorems about Session, for every number of processes, threads,         *)
(* rebuilders, edits and publications.                                     *)
(***************************************************************************)
EXTENDS Session, TLAPS

-----------------------------------------------------------------------------
(* The invariant.  Every conjunct is about what an unlocked preparation    *)
(* may still rely on once an execution has the lock.                       *)

Holds == {"check", "open", "manifest", "record", "rebuild"}

\* threads execute prepared runs, rebuilders rebuild
Control ==
    /\ \A r \in Rebuilders : pc[r] \in {"idle", "rebuild"}
    /\ \A t \in Threads : /\ pc[t] # "rebuild"
                          /\ pc[t] # "idle" => prep[Owner[t]].stage = "ready"

\* whoever reads or writes the dump as a writer has the lock
Exclusion == \A a \in Actors : pc[a] \in Holds => lock = a

\* only a dump has publications
Versioned == /\ out.kind # "dump" => out.version = 0
             /\ out.kind = "dump" => out.version > 0

\* a token that was not masked pins what the preflight saw, and is used up by
\* the first publication of the run that opens a writer with it
PinnedBy(p) ==
    /\ prep[p].stage # "ready" => prep[p].opened = 0 /\ Masked(p)
    /\ ~Masked(p) =>
         /\ prep[p].seen.file = prep[p].hash
         /\ prep[p].token.version = prep[p].seen.version
         /\ prep[p].seen.version <= out.version
         /\ prep[p].opened <= 1
         /\ prep[p].opened = 1 => prep[p].seen.version < out.version
Pinned == \A p \in Processes : PinnedBy(p)

Opening == \A t \in Threads :
    /\ pc[t] = "open" /\ ~Masked(Owner[t])
       => at[t] = prep[Owner[t]].seen /\ out.version = at[t].version
    /\ pc[t] = "manifest" => out.kind = "bare"
    /\ pc[t] = "record" => out.kind = "dump" /\ out.from = Resolved(Owner[t])

Rebuilding == \A r \in Rebuilders : pc[r] = "rebuild" => out.kind = "dump"

IInv == TypeOK /\ Control /\ Exclusion /\ Versioned /\ Pinned /\ Opening /\ Rebuilding

-----------------------------------------------------------------------------
(* Types.                                                                  *)

\* the markers for nothing are of their types
LEMMA InputsType ==
    /\ NoInputs \in InputContents /\ NoView \in Views /\ NoToken \in Tokens
    /\ NoPrep \in PreparedRuns
BY SessionAssumption DEF NoInputs, InputContents, NoView, Views, NoToken, Tokens,
   NoPrep, PreparedRuns, Contents, Versions, Stages, Modes, Verdicts

\* what a process sees is a view
LEMMA ViewType == ASSUME TypeOK PROVE View \in Views
BY DEF TypeOK, View, Views, Dumps

\* a fingerprint is a token
LEMMA TokenType ==
    ASSUME TypeOK, NEW p \in Processes
    PROVE  Fingerprint(p) \in Tokens
<1>1. Verdict(p) \in Verdicts
  BY DEF Verdict, Verdicts
<1>2. Mode \in Modes /\ Snapshot \in Versions
  BY SessionAssumption DEF Mode, Modes, Snapshot, TypeOK, Dumps, Versions
<1> QED BY <1>1, <1>2, InputsType DEF Fingerprint, Tokens, Verdicts, NoToken

\* what a process resolves are contents
LEMMA ResolvedType ==
    ASSUME TypeOK, NEW p \in Processes
    PROVE  Resolved(p) \in [config: Contents, source: Contents]
<1>1. prep[p] \in PreparedRuns
  BY DEF TypeOK
<1> QED BY <1>1 DEF Resolved, PreparedRuns, InputContents, Inputs

\* every step keeps the types
LEMMA StepTyped ==
    ASSUME TypeOK, [Next]_vars
    PROVE  TypeOK'
<1> USE SessionAssumption DEF Actors
<1>1. ASSUME NEW p \in Processes, StartPrepare(p) PROVE TypeOK'
  BY <1>1, InputsType DEF StartPrepare, TypeOK, PreparedRuns, Stages
<1>2. ASSUME NEW p \in Processes, NEW f \in Inputs, ReadInput(p, f) PROVE TypeOK'
  <2>1. file[f] \in Contents /\ HashStage[f] \in Stages
    BY DEF TypeOK, InputContents, HashStage, Stages, Inputs
  <2>2. prep[p] \in PreparedRuns
    BY DEF TypeOK
  <2>3. [prep[p].used EXCEPT ![f] = file[f]] \in InputContents
    BY <2>1, <2>2 DEF PreparedRuns, InputContents
  <2>4. [prep[p] EXCEPT !.used = [prep[p].used EXCEPT ![f] = file[f]],
                        !.stage = HashStage[f]] \in PreparedRuns
    BY <2>1, <2>2, <2>3 DEF PreparedRuns
  <2> QED BY <1>2, <2>4 DEF ReadInput, TypeOK
<1>3. ASSUME NEW p \in Processes, NEW f \in Inputs, HashInput(p, f) PROVE TypeOK'
  <2>1. file[f] \in Contents
    BY DEF TypeOK, InputContents
  <2>2. prep[p] \in PreparedRuns
    BY DEF TypeOK
  <2>3. [prep[p].hash EXCEPT ![f] = file[f]] \in InputContents
    BY <2>1, <2>2 DEF PreparedRuns, InputContents
  <2> DEFINE next == IF f = "config" THEN "read_source" ELSE "output_mode"
  <2>4. [prep[p] EXCEPT !.hash = [prep[p].hash EXCEPT ![f] = file[f]],
                        !.stage = next] \in PreparedRuns
    BY <2>2, <2>3 DEF PreparedRuns, Stages
  <2> QED BY <1>3, <2>4 DEF HashInput, TypeOK
<1>4. ASSUME NEW p \in Processes, OutputMode(p) PROVE TypeOK'
  BY <1>4, InputsType DEF OutputMode, TypeOK, PreparedRuns, Stages, Mode, Modes
<1>5. ASSUME NEW p \in Processes, OpenResumeIndex(p) PROVE TypeOK'
  BY <1>5, InputsType DEF OpenResumeIndex, TypeOK, PreparedRuns, Stages
<1>6. ASSUME NEW p \in Processes, TakeFingerprint(p) PROVE TypeOK'
  BY <1>6, InputsType, TokenType, ViewType
     DEF TakeFingerprint, TypeOK, PreparedRuns, Stages
<1>7. ASSUME NEW p \in Processes, ClosePrepared(p) PROVE TypeOK'
  BY <1>7 DEF ClosePrepared, TypeOK, PreparedRuns
<1>8. ASSUME NEW p \in Processes, Kill(p) PROVE TypeOK'
  BY <1>8, InputsType DEF Kill, TypeOK, Pcs
<1>9. ASSUME NEW t \in Threads, Executing(t) PROVE TypeOK'
  <2> DEFINE p == Owner[t]
  <2>1. p \in Processes /\ prep[p] \in PreparedRuns
    BY DEF TypeOK
  <2>2. /\ \A x \in Pcs : Goto(t, x) => pc' \in [Actors -> Pcs]
        /\ Leave(t) => lock' = Nobody /\ pc' \in [Actors -> Pcs]
        /\ Forget(t) => at' \in [Threads -> Views]
        /\ Opened(t) => prep' \in [Processes -> PreparedRuns]
    <3>1. [prep[p] EXCEPT !.opened = @ + 1] \in PreparedRuns
      BY <2>1 DEF PreparedRuns
    <3>2. Opened(t) => prep' \in [Processes -> PreparedRuns]
      BY <2>1, <3>1 DEF Opened, TypeOK
    <3> QED BY <3>2, InputsType DEF Goto, Leave, Forget, TypeOK, Pcs
  <2>3. /\ [prep[p] EXCEPT !.consumed = TRUE] \in PreparedRuns
        /\ [prep EXCEPT ![p].consumed = TRUE] \in [Processes -> PreparedRuns]
    <3>1. [prep[p] EXCEPT !.consumed = TRUE] \in PreparedRuns
      BY <2>1 DEF PreparedRuns
    <3> QED BY <2>1, <3>1 DEF TypeOK
  <2>4. Publishing => out.version + 1 \in Versions
    BY DEF Publishing, TypeOK, Dumps, Versions
  <2>5. CASE Call(t)
    BY <2>5, <2>2 DEF Call, TypeOK, Pcs
  <2>6. CASE CancelCall(t)
    BY <2>6, <2>2, <2>3 DEF CancelCall, TypeOK, Pcs
  <2>7. CASE TakeLock(t)
    BY <2>7, <2>2 DEF TakeLock, TypeOK, Pcs
  <2>8. CASE Check(t)
    <3>1. at' \in [Threads -> Views]
      BY <2>8, ViewType DEF Check, TypeOK
    <3>2. prep' \in [Processes -> PreparedRuns]
      BY <2>8, <2>3 DEF Check, TypeOK
    <3> QED BY <2>8, <2>2, <3>1, <3>2 DEF Check, TypeOK, Pcs
  <2>9. CASE OpenFails(t)
    BY <2>9, <2>2 DEF OpenFails, TypeOK
  <2>10. CASE MakeRoot(t)
    <3>1. out' \in Dumps
      BY <2>10 DEF MakeRoot, TypeOK, Dumps
    <3> QED BY <2>10, <2>2, <3>1 DEF MakeRoot, TypeOK, Pcs
  <2>11. CASE PublishManifest(t)
    <3>1. out' \in Dumps
      BY <2>11, <2>1, <2>4, ResolvedType DEF PublishManifest, TypeOK, Dumps
    <3> QED BY <2>11, <2>2, <3>1 DEF PublishManifest, TypeOK, Pcs
  <2>12. CASE OpenResumed(t)
    <3>1. out' \in Dumps
      BY <2>12, <2>4 DEF OpenResumed, TypeOK, Dumps
    <3> QED BY <2>12, <2>2, <3>1 DEF OpenResumed, TypeOK, Pcs
  <2>13. CASE Record(t)
    <3>1. prep[p].used["source"] \in Contents
      BY <2>1 DEF PreparedRuns, InputContents, Inputs
    <3>2. out' \in Dumps
      BY <2>13, <2>4, <3>1 DEF Record, TypeOK, Dumps
    <3> QED BY <2>13, <3>2 DEF Record, TypeOK
  <2>14. CASE EndRun(t)
    <3>1. out' \in Dumps
      BY <2>14, <2>4 DEF EndRun, TypeOK, Dumps
    <3> QED BY <2>14, <2>2, <3>1 DEF EndRun, TypeOK
  <2> QED BY <1>9, <2>5, <2>6, <2>7, <2>8, <2>9, <2>10, <2>11, <2>12, <2>13, <2>14
          DEF Executing
<1>10. ASSUME NEW r \in Rebuilders, StartRebuild(r) \/ Rebuild(r) PROVE TypeOK'
  BY <1>10 DEF StartRebuild, Rebuild, Leave, Goto, TypeOK, Pcs, Publishing, Dumps,
     Versions
<1>11. ASSUME NEW f \in Inputs, EditInput(f) PROVE TypeOK'
  BY <1>11 DEF EditInput, TypeOK, InputContents, Contents
<1>12. CASE UNCHANGED vars
  BY <1>12 DEF vars, TypeOK
<1> QED BY <1>1, <1>2, <1>3, <1>4, <1>5, <1>6, <1>7, <1>8, <1>9, <1>10, <1>11, <1>12
        DEF Next, Preparing

-----------------------------------------------------------------------------
(* One lemma per conjunct of the invariant.                                *)

\* the system starts in the invariant
LEMMA Initially == ASSUME Init PROVE IInv
<1> USE SessionAssumption DEF Actors, Init
<1>1. TypeOK
  BY InputsType DEF TypeOK, InputContents, NoInputs, Contents, Dumps, Versions, Pcs
<1>2. Control /\ Exclusion /\ Versioned /\ Opening /\ Rebuilding
  BY DEF Control, Exclusion, Holds, Versioned, Opening, Rebuilding
<1>3. Pinned
  BY DEF Pinned, PinnedBy, Masked, NoPrep, NoToken
<1> QED BY <1>1, <1>2, <1>3 DEF IInv

\* An execution leaves the preparations where they are: it sets flags of its
\* own one (Check, CancelCall) or counts the writer it opens.
LEMMA SameStage ==
    ASSUME prep \in [Processes -> PreparedRuns], NEW p \in Processes,
           \/ UNCHANGED prep
           \/ prep' = [prep EXCEPT ![p].consumed = TRUE]
           \/ prep' = [prep EXCEPT ![p].opened = @ + 1]
    PROVE  \A u \in Processes : prep'[u].stage = prep[u].stage
BY DEF PreparedRuns

\* what a step does to the program counters, the preparations and the lock
LEMMA ControlStep ==
    ASSUME TypeOK, Control, [Next]_vars
    PROVE  Control'
<1> USE SessionAssumption DEF TypeOK, Actors, Control
<1>1. ASSUME NEW p \in Processes, Preparing(p) PROVE Control'
  <2>1. pc' = pc /\ \A u \in Processes \ {p} : prep'[u] = prep[u]
    BY <1>1 DEF Preparing, StartPrepare, ReadInput, HashInput, OutputMode,
       OpenResumeIndex, TakeFingerprint, ClosePrepared
  <2>2. prep[p].stage = "ready" => prep'[p].stage = "ready" \/ ~Busy(p)
    <3>1. CASE StartPrepare(p)
      BY <3>1 DEF StartPrepare
    <3>2. CASE OutputMode(p) \/ OpenResumeIndex(p) \/ TakeFingerprint(p)
      BY <3>2 DEF OutputMode, OpenResumeIndex, TakeFingerprint
    <3>3. CASE ClosePrepared(p)
      BY <3>3 DEF ClosePrepared
    <3>4. ASSUME NEW f \in Inputs, ReadInput(p, f) \/ HashInput(p, f)
          PROVE  prep[p].stage # "ready"
      BY <3>4 DEF ReadInput, HashInput, ReadStage, HashStage, Inputs
    <3> QED BY <1>1, <3>1, <3>2, <3>3, <3>4 DEF Preparing
  <2>3. ASSUME NEW t \in Threads, pc[t] # "idle"
        PROVE  prep'[Owner[t]].stage = "ready"
    <3>1. Owner[t] \in Processes /\ prep[Owner[t]].stage = "ready"
      BY <2>3
    <3>2. CASE Owner[t] = p
      BY <3>1, <3>2, <2>2, <2>3 DEF Busy
    <3>3. CASE Owner[t] # p
      BY <3>1, <3>3, <2>1
    <3> QED BY <3>2, <3>3
  <2> QED BY <2>1, <2>3
<1>2. ASSUME NEW p \in Processes, Kill(p) PROVE Control'
  BY <1>2 DEF Kill
<1>3. ASSUME NEW t \in Threads, Executing(t) PROVE Control'
  <2>1. \A u \in Processes : prep'[u].stage = prep[u].stage
    <3>1. \/ UNCHANGED prep
          \/ prep' = [prep EXCEPT ![Owner[t]].consumed = TRUE]
          \/ prep' = [prep EXCEPT ![Owner[t]].opened = @ + 1]
      BY <1>3 DEF Executing, Call, CancelCall, TakeLock, Check, OpenFails, MakeRoot,
         PublishManifest, OpenResumed, Record, EndRun, Opened
    <3> QED BY <3>1, SameStage
  <2>2. /\ pc' \in [Actors -> Pcs] /\ \A a \in Actors \ {t} : pc'[a] = pc[a]
        /\ pc'[t] # "rebuild"
        /\ pc'[t] # "idle" => prep[Owner[t]].stage = "ready"
    BY <1>3, Z3 DEF Executing, Call, CancelCall, TakeLock, Check, OpenFails, MakeRoot,
       PublishManifest, OpenResumed, Record, EndRun, Goto, Leave, Pcs
  <2>3. ASSUME NEW u \in Threads
        PROVE  pc'[u] # "rebuild" /\ (pc'[u] # "idle" => prep'[Owner[u]].stage = "ready")
    <3>1. Owner[u] \in Processes
      OBVIOUS
    <3> QED BY <3>1, <2>1, <2>2
  <2> QED BY <2>2, <2>3
<1>4. ASSUME NEW r \in Rebuilders, StartRebuild(r) \/ Rebuild(r) PROVE Control'
  BY <1>4 DEF StartRebuild, Rebuild, Goto, Leave
<1>5. CASE UNCHANGED vars \/ \E f \in Inputs : EditInput(f)
  BY <1>5 DEF vars, EditInput
<1> QED BY <1>1, <1>2, <1>3, <1>4, <1>5 DEF Next

\* who is past the lock stays its owner
LEMMA ExclusionStep ==
    ASSUME TypeOK, Control, Exclusion, [Next]_vars
    PROVE  Exclusion'
<1> USE SessionAssumption DEF TypeOK, Actors, Exclusion, Holds
<1>1. ASSUME NEW p \in Processes, Preparing(p) PROVE Exclusion'
  BY <1>1 DEF Preparing, StartPrepare, ReadInput, HashInput, OutputMode,
     OpenResumeIndex, TakeFingerprint, ClosePrepared
<1>2. ASSUME NEW p \in Processes, Kill(p) PROVE Exclusion'
  BY <1>2 DEF Kill, Control
<1>3. ASSUME NEW t \in Threads, Executing(t) PROVE Exclusion'
  BY <1>3 DEF Executing, Call, CancelCall, TakeLock, Check, OpenFails, MakeRoot,
     PublishManifest, OpenResumed, Record, EndRun, Goto, Leave
<1>4. ASSUME NEW r \in Rebuilders, StartRebuild(r) \/ Rebuild(r) PROVE Exclusion'
  BY <1>4 DEF StartRebuild, Rebuild, Goto, Leave
<1>5. CASE UNCHANGED vars \/ \E f \in Inputs : EditInput(f)
  BY <1>5 DEF vars, EditInput
<1> QED BY <1>1, <1>2, <1>3, <1>4, <1>5 DEF Next

\* every step either leaves the dump alone, creates its directories, or
\* publishes in it, and who publishes has the lock
Writing(a) ==
    \/ /\ a \in Threads /\ pc[a] = "open" /\ pc'[a] = "manifest"
       /\ out.kind = "empty" /\ out' = [out EXCEPT !.kind = "bare"]
    \/ /\ a \in Threads /\ pc[a] = "manifest" /\ pc'[a] = "record"
       /\ out'.kind = "dump" /\ out'.from = Resolved(Owner[a])
       /\ out'.version = out.version + 1
    \/ /\ a \in Threads /\ pc[a] = "open" /\ pc'[a] = "record"
       /\ out.kind = "dump" /\ out.from = Resolved(Owner[a])
       /\ out'.kind = out.kind /\ out'.from = out.from
       /\ out'.version = out.version + 1
    \/ /\ pc[a] \in {"record", "rebuild"} /\ pc'[a] \in {pc[a], "idle"}
       /\ out'.kind = out.kind /\ out'.from = out.from
       /\ out'.version = out.version + 1

\* only an owner of the lock changes the dump
LEMMA DumpSteps ==
    ASSUME TypeOK, Control, [Next]_vars
    PROVE  out' = out \/ \E a \in Actors : Writing(a)
<1> USE SessionAssumption DEF TypeOK, Actors
<1>1. ASSUME NEW p \in Processes, Preparing(p) \/ Kill(p) PROVE out' = out
  BY <1>1 DEF Preparing, StartPrepare, ReadInput, HashInput, OutputMode,
     OpenResumeIndex, TakeFingerprint, ClosePrepared, Kill
<1>2. ASSUME NEW t \in Threads, Executing(t) PROVE out' = out \/ Writing(t)
  BY <1>2 DEF Executing, Call, CancelCall, TakeLock, Check, OpenFails, MakeRoot,
     PublishManifest, OpenResumed, Record, EndRun, Writing, Dumps, Goto, Leave
<1>3. ASSUME NEW r \in Rebuilders, StartRebuild(r) \/ Rebuild(r)
      PROVE  out' = out \/ Writing(r)
  BY <1>3 DEF StartRebuild, Rebuild, Writing, Dumps, Goto, Leave
<1>4. CASE UNCHANGED vars \/ \E f \in Inputs : EditInput(f)
  BY <1>4 DEF vars, EditInput
<1> QED BY <1>1, <1>2, <1>3, <1>4 DEF Next

\* versions of the dump only grow, and a dump keeps its origin
LEMMA VersionedStep ==
    ASSUME IInv, [Next]_vars
    PROVE  /\ Versioned' /\ out'.version >= out.version
           /\ out.kind = "dump" => out'.kind = "dump" /\ out'.from = out.from
<1>1. CASE out' = out
  BY <1>1 DEF IInv, TypeOK, Dumps, Versions, Versioned
<1>2. ASSUME NEW a \in Actors, Writing(a)
      PROVE  /\ Versioned' /\ out'.version >= out.version
             /\ out.kind = "dump" => out'.kind = "dump" /\ out'.from = out.from
  <2>1. pc[a] \in {"record", "rebuild"} => out.kind = "dump"
    BY DEF IInv, Opening, Rebuilding, Control, Actors
  <2>2. out.version \in Nat /\ out \in Dumps
    BY SessionAssumption DEF IInv, TypeOK, Dumps, Versions
  <2> QED BY <1>2, <2>1, <2>2
          DEF Writing, IInv, Versioned, Opening, Dumps
<1> QED BY <1>1, <1>2, DumpSteps DEF IInv
\* what a step that does not touch the token of p leaves true of it
Untouched(p) ==
    /\ prep'[p].stage = prep[p].stage /\ prep'[p].opened = prep[p].opened
    /\ prep'[p].token = prep[p].token /\ prep'[p].seen = prep[p].seen
    /\ prep'[p].hash = prep[p].hash

\* a preparation keeps tokens tied to what was seen
LEMMA PreparingPinned ==
    ASSUME IInv, [Next]_vars, NEW p \in Processes, Preparing(p)
    PROVE  Pinned'
<1>1. prep \in [Processes -> PreparedRuns] /\ out' = out
  BY DEF IInv, TypeOK, Preparing, StartPrepare, ReadInput, HashInput, OutputMode,
     OpenResumeIndex, TakeFingerprint, ClosePrepared
<1>2. ASSUME NEW u \in Processes, u # p PROVE PinnedBy(u)'
  <2>1. prep'[u] = prep[u]
    BY <1>1, <1>2 DEF Preparing, StartPrepare, ReadInput, HashInput, OutputMode,
       OpenResumeIndex, TakeFingerprint, ClosePrepared
  <2> QED BY <1>1, <2>1 DEF IInv, Pinned, PinnedBy, Masked
<1>3. ASSUME prep'[p] = NoPrep \/ prep'[p] = [NoPrep EXCEPT !.stage = "read_config"]
      PROVE  PinnedBy(p)'
  BY <1>3 DEF PinnedBy, Masked, NoPrep, NoToken
<1>4. ASSUME prep[p].stage # "ready", prep'[p].opened = prep[p].opened,
             prep'[p].token = prep[p].token
      PROVE  PinnedBy(p)'
  BY <1>4 DEF IInv, Pinned, PinnedBy, Masked
<1>5. ASSUME NEW f \in Inputs, ReadInput(p, f) \/ HashInput(p, f) PROVE PinnedBy(p)'
  <2>1. prep[p].stage # "ready"
    BY <1>5 DEF ReadInput, HashInput, ReadStage, HashStage, Inputs
  <2>2. prep'[p].opened = prep[p].opened /\ prep'[p].token = prep[p].token
    BY <1>5, <1>1 DEF ReadInput, HashInput, PreparedRuns
  <2> QED BY <2>1, <2>2, <1>4
<1>6. ASSUME OutputMode(p) \/ OpenResumeIndex(p) PROVE PinnedBy(p)'
  <2>1. prep[p].stage # "ready"
    BY <1>6 DEF OutputMode, OpenResumeIndex
  <2>2. \/ prep'[p] = NoPrep
        \/ prep'[p].opened = prep[p].opened /\ prep'[p].token = prep[p].token
    BY <1>6, <1>1 DEF OutputMode, OpenResumeIndex, PreparedRuns
  <2> QED BY <2>1, <2>2, <1>3, <1>4
<1>7. ASSUME StartPrepare(p) PROVE PinnedBy(p)'
  BY <1>7, <1>1, <1>3 DEF StartPrepare
<1>8. ASSUME ClosePrepared(p) PROVE PinnedBy(p)'
  <2>1. Untouched(p)
    BY <1>8, <1>1 DEF ClosePrepared, Untouched, PreparedRuns
  <2> QED BY <1>1, <2>1 DEF IInv, Pinned, PinnedBy, Masked, Untouched
<1>9. ASSUME TakeFingerprint(p) PROVE PinnedBy(p)'
  <2>1. CASE Unreadable(p)
    BY <1>9, <2>1, <1>1, <1>3 DEF TakeFingerprint
  <2>2. CASE ~Unreadable(p)
    <3>1. /\ prep'[p].stage = "ready" /\ prep'[p].opened = 0
          /\ prep'[p].token = Fingerprint(p) /\ prep'[p].seen = View
          /\ prep'[p].hash = prep[p].hash
      BY <1>9, <2>2, <1>1 DEF TakeFingerprint, PreparedRuns, IInv, Pinned, PinnedBy
    <3>2. CASE Verdict(p) = "unchanged"
      <4>1. file = prep[p].hash
        BY <1>1, <3>2 DEF Verdict, PreparedRuns, InputContents, Inputs, IInv, TypeOK
      <4>2. Fingerprint(p).version = out.version /\ out.version \in Nat
        BY <3>2, SessionAssumption
           DEF Fingerprint, Snapshot, Mode, IInv, Versioned, TypeOK, Dumps, Versions
      <4> QED BY <1>1, <3>1, <4>1, <4>2 DEF PinnedBy, View
    <3>3. CASE Verdict(p) # "unchanged"
      BY <3>1, <3>3 DEF PinnedBy, Masked, Fingerprint, NoToken
    <3> QED BY <3>2, <3>3
  <2> QED BY <2>1, <2>2
<1> QED BY <1>2, <1>5, <1>6, <1>7, <1>8, <1>9 DEF Preparing, Pinned

\* a token survives every publication, and the run that opens a writer with it
\* publishes past it
LEMMA PinnedStep ==
    ASSUME IInv, [Next]_vars
    PROVE  Pinned'
<1>1. /\ prep \in [Processes -> PreparedRuns] /\ out'.version >= out.version
      /\ out.version \in Nat /\ out'.version \in Nat
  BY VersionedStep, StepTyped, SessionAssumption DEF IInv, TypeOK, Dumps, Versions
<1>2. ASSUME NEW u \in Processes, Untouched(u) PROVE PinnedBy(u)'
  <2>1. prep[u].seen.version \in Nat
    BY <1>1, SessionAssumption DEF PreparedRuns, Views, Versions
  <2> QED BY <1>1, <1>2, <2>1 DEF IInv, Pinned, PinnedBy, Masked, Untouched
<1>3. ASSUME NEW p \in Processes, Preparing(p) PROVE Pinned'
  BY <1>3, PreparingPinned
<1>4. ASSUME NEW p \in Processes, Kill(p) PROVE Pinned'
  <2>1. PinnedBy(p)'
    BY <1>1, <1>4 DEF Kill, PinnedBy, Masked, NoPrep, NoToken
  <2>2. ASSUME NEW u \in Processes, u # p PROVE Untouched(u)
    BY <1>1, <1>4, <2>2 DEF Kill, Untouched
  <2> QED BY <2>1, <2>2, <1>2 DEF Pinned
<1>5. ASSUME NEW t \in Threads, Executing(t) PROVE Pinned'
  <2> DEFINE p == Owner[t]
  <2>1. p \in Processes /\ prep[p] \in PreparedRuns
    BY <1>1, SessionAssumption
  <2>2. CASE PublishManifest(t) \/ OpenResumed(t)
    <3>1. \A u \in Processes \ {p} : Untouched(u)
      BY <1>1, <2>1, <2>2 DEF PublishManifest, OpenResumed, Opened, Untouched
    <3>2. /\ prep'[p].stage = prep[p].stage /\ prep'[p].opened = prep[p].opened + 1
          /\ prep'[p].token = prep[p].token /\ prep'[p].seen = prep[p].seen
          /\ prep'[p].hash = prep[p].hash /\ out'.version = out.version + 1
      <4>1. out'.version = out.version + 1
        BY <2>2 DEF PublishManifest, OpenResumed, IInv, TypeOK, Dumps
      <4>2. Opened(t)
        BY <2>2 DEF PublishManifest, OpenResumed
      <4> QED BY <1>1, <2>1, <4>1, <4>2 DEF Opened, PreparedRuns
    <3>3. prep[p].stage = "ready" /\ PinnedBy(p)
      BY <2>1, <2>2 DEF PublishManifest, OpenResumed, IInv, Control, Pinned
    <3>4. prep[p].opened \in Nat /\ prep[p].seen.version \in Nat
      BY <2>1, SessionAssumption DEF PreparedRuns, Views, Versions
    <3>5. ~Masked(p) => prep[p].seen.version >= out.version
      <4>1. CASE PublishManifest(t)
        BY <4>1, <3>4 DEF PublishManifest, IInv, Opening, Versioned
      <4>2. CASE OpenResumed(t)
        BY <4>2, <1>1 DEF OpenResumed, IInv, Opening
      <4> QED BY <2>2, <4>1, <4>2
    <3>6. PinnedBy(p)'
      BY <1>1, <3>2, <3>3, <3>4, <3>5 DEF PinnedBy, Masked
    <3> QED BY <1>2, <3>1, <3>6 DEF Pinned
  <2>3. CASE ~(PublishManifest(t) \/ OpenResumed(t))
    <3>1. \A u \in Processes : Untouched(u)
      BY <1>1, <1>5, <2>1, <2>3 DEF Executing, Call, CancelCall, TakeLock, Check,
         OpenFails, MakeRoot, Record, EndRun, Untouched, PreparedRuns
    <3> QED BY <1>2, <3>1 DEF Pinned
  <2> QED BY <2>2, <2>3
<1>6. CASE \/ UNCHANGED vars \/ \E f \in Inputs : EditInput(f)
           \/ \E r \in Rebuilders : StartRebuild(r) \/ Rebuild(r)
  <2>1. prep' = prep
    BY <1>6 DEF vars, EditInput, StartRebuild, Rebuild
  <2> QED BY <1>2, <2>1 DEF Pinned, Untouched
<1> QED BY <1>3, <1>4, <1>5, <1>6 DEF Next
Kept(p) ==
    /\ prep'[p].token = prep[p].token /\ prep'[p].seen = prep[p].seen
    /\ prep'[p].hash = prep[p].hash /\ prep'[p].used = prep[p].used

\* a thread that is executing keeps its PreparedRun
LEMMA PreparationKept ==
    ASSUME IInv, [Next]_vars, NEW t \in Threads, pc'[t] # "idle", pc[t] # "idle"
    PROVE  Kept(Owner[t])
<1> DEFINE p == Owner[t]
<1>1. p \in Processes /\ prep \in [Processes -> PreparedRuns]
  BY SessionAssumption DEF IInv, TypeOK
<1>2. prep' = prep => Kept(p)
  BY DEF Kept
<1>3. ASSUME NEW u \in Processes, Preparing(u) PROVE Kept(p)
  <2>1. u # p => prep'[p] = prep[p]
    BY <1>1, <1>3 DEF Preparing, StartPrepare, ReadInput, HashInput, OutputMode,
       OpenResumeIndex, TakeFingerprint, ClosePrepared
  <2>2. Busy(p) /\ prep[p].stage = "ready"
    BY <1>1 DEF Busy, IInv, Control
  <2>3. CASE u # p
    BY <2>1, <2>3 DEF Kept
  <2>4. CASE u = p
    <3>1. \A f \in Inputs : ReadStage[f] # "ready" /\ HashStage[f] # "ready"
      BY DEF ReadStage, HashStage, Inputs
    <3>2. ClosePrepared(p)
      BY <1>3, <2>2, <2>4, <3>1 DEF Preparing, StartPrepare, ReadInput, HashInput,
         OutputMode, OpenResumeIndex, TakeFingerprint
    <3> QED BY <1>1, <3>2 DEF ClosePrepared, Kept, PreparedRuns
  <2> QED BY <2>3, <2>4
<1>4. ASSUME NEW u \in Processes, Kill(u) PROVE Kept(p)
  <2>1. u # p
    BY <1>4 DEF Kill, Actors
  <2> QED BY <1>1, <1>4, <2>1 DEF Kill, Kept
<1>5. ASSUME NEW s \in Threads, Executing(s) PROVE Kept(p)
  <2>1. \/ prep' = prep
        \/ prep' = [prep EXCEPT ![Owner[s]].consumed = TRUE]
        \/ Opened(s)
    BY <1>5 DEF Executing, Call, CancelCall, TakeLock, Check, OpenFails, MakeRoot,
       PublishManifest, OpenResumed, Record, EndRun
  <2> QED BY <1>1, <1>2, <2>1 DEF Opened, Kept, PreparedRuns
<1>6. CASE \/ UNCHANGED vars \/ \E f \in Inputs : EditInput(f)
           \/ \E r \in Rebuilders : StartRebuild(r) \/ Rebuild(r)
  BY <1>2, <1>6 DEF vars, EditInput, StartRebuild, Rebuild
<1> QED BY <1>3, <1>4, <1>5, <1>6 DEF Next

\* how a thread comes to open a writer, to have created the directories, and
\* to record
LEMMA Entering ==
    ASSUME IInv, [Next]_vars, NEW t \in Threads
    PROVE  /\ pc'[t] = "open" /\ pc[t] # "open" => Check(t) /\ ~Stale(Owner[t])
           /\ pc'[t] = "open" /\ pc[t] = "open" => at'[t] = at[t]
           /\ pc'[t] = "manifest" /\ pc[t] # "manifest" => MakeRoot(t)
           /\ pc'[t] = "record" /\ pc[t] # "record"
              => PublishManifest(t) \/ OpenResumed(t)
<1> USE SessionAssumption DEF IInv, TypeOK, Actors
<1> DEFINE Goal ==
      /\ pc'[t] = "open" /\ pc[t] # "open" => Check(t) /\ ~Stale(Owner[t])
      /\ pc'[t] = "open" /\ pc[t] = "open" => at'[t] = at[t]
      /\ pc'[t] = "manifest" /\ pc[t] # "manifest" => MakeRoot(t)
      /\ pc'[t] = "record" /\ pc[t] # "record"
         => PublishManifest(t) \/ OpenResumed(t)
<1>1. pc'[t] = pc[t] /\ at'[t] = at[t] => Goal
  OBVIOUS
<1>2. ASSUME NEW p \in Processes, Preparing(p) PROVE Goal
  BY <1>1, <1>2 DEF Preparing, StartPrepare, ReadInput, HashInput, OutputMode,
     OpenResumeIndex, TakeFingerprint, ClosePrepared
<1>3. ASSUME NEW p \in Processes, Kill(p) PROVE Goal
  BY <1>3 DEF Kill
<1>4. ASSUME NEW s \in Threads, Executing(s), s # t PROVE Goal
  <2>1. pc'[t] = pc[t]
    BY <1>4 DEF Executing, Call, CancelCall, TakeLock, Check, OpenFails, MakeRoot,
       PublishManifest, OpenResumed, Record, EndRun, Goto, Leave
  <2>2. at'[t] = at[t]
    BY <1>4 DEF Executing, Call, CancelCall, TakeLock, Check, OpenFails, MakeRoot,
       PublishManifest, OpenResumed, Record, EndRun, Forget
  <2> QED BY <1>1, <2>1, <2>2
<1>5. CASE Executing(t)
  BY <1>5 DEF Executing, Call, CancelCall, TakeLock, Check, OpenFails, MakeRoot,
     PublishManifest, OpenResumed, Record, EndRun, Goto, Leave
<1>6. CASE \/ UNCHANGED vars \/ \E f \in Inputs : EditInput(f)
           \/ \E r \in Rebuilders : StartRebuild(r) \/ Rebuild(r)
  BY <1>6, <1>1 DEF vars, EditInput, StartRebuild, Rebuild, Goto, Leave
<1> QED BY <1>2, <1>3, <1>4, <1>5, <1>6 DEF Next

\* whoever has the lock has the dump to itself
LEMMA Undisturbed ==
    ASSUME IInv, [Next]_vars, NEW a \in Actors, pc[a] \in Holds, pc'[a] = pc[a]
    PROVE  /\ out'.kind = out.kind /\ out'.from = out.from
           /\ pc[a] \notin {"record", "rebuild"} => out' = out
<1>1. CASE out' = out
  BY <1>1
<1>2. ASSUME NEW b \in Actors, Writing(b)
      PROVE  /\ out'.kind = out.kind /\ out'.from = out.from
             /\ pc[a] \notin {"record", "rebuild"} => out' = out
  <2>1. a = b
    BY <1>2 DEF Writing, IInv, Exclusion, Holds
  <2> QED BY <1>2, <2>1 DEF Writing
<1> QED BY <1>1, <1>2, DumpSteps DEF IInv

\* nothing moves between check and publication
LEMMA OpeningStep ==
    ASSUME IInv, [Next]_vars
    PROVE  Opening'
<1> SUFFICES ASSUME NEW t \in Threads
             PROVE  /\ pc'[t] = "open" /\ ~Masked(Owner[t])'
                       => /\ at'[t] = prep'[Owner[t]].seen
                          /\ out'.version = at'[t].version
                    /\ pc'[t] = "manifest" => out'.kind = "bare"
                    /\ pc'[t] = "record"
                       => out'.kind = "dump" /\ out'.from = Resolved(Owner[t])'
  BY DEF Opening
<1> DEFINE p == Owner[t]
<1>1. p \in Processes /\ prep[p] \in PreparedRuns /\ t \in Actors
  BY SessionAssumption DEF IInv, TypeOK, Actors
<1>2. ASSUME pc'[t] = "open", ~Masked(p)'
      PROVE  at'[t] = prep'[p].seen /\ out'.version = at'[t].version
  <2>1. CASE pc[t] = "open"
    <3>1. Kept(p) /\ out' = out /\ at'[t] = at[t]
      BY <1>1, <1>2, <2>1, PreparationKept, Undisturbed, Entering DEF Holds
    <3> QED BY <1>2, <2>1, <3>1 DEF Kept, Masked, IInv, Opening
  <2>2. CASE pc[t] # "open"
    <3>1. Check(t) /\ ~Stale(p) /\ pc[t] = "check"
      BY <1>2, <2>2, Entering DEF Check
    <3>2. Kept(p) /\ out' = out /\ at'[t] = View
      BY <1>2, <3>1, PreparationKept DEF Check, IInv, TypeOK
    <3>3. prep[p].token = Fingerprint(p) /\ ~Masked(p) /\ PinnedBy(p)
      BY <1>1, <1>2, <3>1, <3>2 DEF Stale, Kept, Masked, IInv, Pinned
    <3>4. Verdict(p) = "unchanged" /\ Fingerprint(p).version = out.version
      BY <3>3 DEF Masked, Fingerprint, NoToken, Snapshot, Mode, IInv, Versioned
    <3>5. file = prep[p].hash
      BY <1>1, <3>4 DEF Verdict, PreparedRuns, InputContents, Inputs, IInv, TypeOK
    <3>6. prep[p].seen \in Views
      BY <1>1 DEF PreparedRuns
    <3>7. prep[p].seen.file = file /\ prep[p].seen.version = out.version
      BY <3>3, <3>4, <3>5 DEF PinnedBy
    <3>8. prep[p].seen = View
      BY <3>6, <3>7 DEF Views, View
    <3> QED BY <3>2, <3>8 DEF Kept, View
  <2> QED BY <2>1, <2>2
<1>3. ASSUME pc'[t] = "manifest" PROVE out'.kind = "bare"
  <2>1. CASE pc[t] = "manifest"
    BY <1>1, <1>3, <2>1, Undisturbed DEF IInv, Opening, Holds
  <2>2. CASE pc[t] # "manifest"
    BY <1>3, <2>2, Entering DEF MakeRoot, IInv, TypeOK, Dumps
  <2> QED BY <2>1, <2>2
<1>4. ASSUME pc'[t] = "record"
      PROVE  out'.kind = "dump" /\ out'.from = Resolved(p)'
  <2>1. pc[t] # "idle"
    BY <1>4, Entering DEF PublishManifest, OpenResumed
  <2>2. Resolved(p)' = Resolved(p)
    BY <1>4, <2>1, PreparationKept DEF Kept, Resolved
  <2>3. CASE pc[t] = "record"
    BY <1>1, <1>4, <2>2, <2>3, Undisturbed DEF IInv, Opening, Holds
  <2>4. CASE pc[t] # "record"
    BY <1>4, <2>2, <2>4, Entering DEF PublishManifest, OpenResumed, IInv, TypeOK, Dumps
  <2> QED BY <2>3, <2>4
<1> QED BY <1>2, <1>3, <1>4

\* nothing moves while an index is rebuilt
LEMMA RebuildingStep ==
    ASSUME IInv, [Next]_vars
    PROVE  Rebuilding'
<1> SUFFICES ASSUME NEW r \in Rebuilders, pc'[r] = "rebuild"
             PROVE  out'.kind = "dump"
  BY DEF Rebuilding
<1>1. CASE out.kind = "dump"
  BY <1>1, VersionedStep
<1>2. CASE pc[r] = "rebuild"
  BY <1>2, VersionedStep DEF IInv, Rebuilding
<1>3. ASSUME pc[r] # "rebuild" PROVE out.kind = "dump"
  <2> USE <1>3, SessionAssumption DEF IInv, TypeOK, Actors
  <2>1. \A s \in Rebuilders : StartRebuild(s) => out.kind = "dump"
    BY DEF StartRebuild
  <2>2. \A s \in Rebuilders : ~Rebuild(s)
    BY DEF Rebuild, Leave, Goto
  <2>3. \A p \in Processes : ~Preparing(p)
    BY DEF Preparing, StartPrepare, ReadInput, HashInput, OutputMode,
       OpenResumeIndex, TakeFingerprint, ClosePrepared
  <2>4. \A p \in Processes : ~Kill(p)
    BY DEF Kill
  <2>5. \A t \in Threads : ~Executing(t)
    BY DEF Executing, Call, CancelCall, TakeLock, Check, OpenFails, MakeRoot,
       PublishManifest, OpenResumed, Record, EndRun, Goto, Leave
  <2>6. \A f \in Inputs : ~EditInput(f)
    BY DEF EditInput
  <2>7. ~UNCHANGED vars
    BY DEF vars
  <2> QED BY <2>1, <2>2, <2>3, <2>4, <2>5, <2>6, <2>7 DEF Next
<1> QED BY <1>1, <1>2, <1>3

-----------------------------------------------------------------------------
(* The theorems.                                                           *)

\* every step keeps the invariant
LEMMA Inductive == ASSUME IInv, [Next]_vars PROVE IInv'
<1>1. TypeOK' /\ Control' /\ Exclusion'
  BY StepTyped, ControlStep, ExclusionStep DEF IInv
<1>2. Versioned' /\ Pinned' /\ Opening' /\ Rebuilding'
  BY VersionedStep, PinnedStep, OpeningStep, RebuildingStep
<1> QED BY <1>1, <1>2 DEF IInv

\* so it always holds
LEMMA Invariance == Spec => []IInv
<1>1. Init => IInv
  BY Initially
<1>2. IInv /\ [Next]_vars => IInv'
  BY Inductive
<1> QED BY <1>1, <1>2, PTL DEF Spec

\* Every variable of Session keeps its type.
THEOREM SessionTypeCorrect == Spec => []TypeOK
<1>1. IInv => TypeOK
  BY DEF IInv
<1> QED BY <1>1, Invariance, PTL

\* The stale-state check of execute_run keeps its promise for every token
\* that was taken of unchanged inputs: the writer is opened on the
\* configuration, the source manifest and the dump of the preflight.
THEOREM CheckKeepsItsPromise == Spec => []CheckedIsUnchanged
<1>1. IInv => CheckedIsUnchanged
  BY DEF IInv, Opening, CheckedIsUnchanged
<1> QED BY <1>1, Invariance, PTL

\* A PreparedRun opens at most one writer, although its consumed flag is
\* tested before the output lock is taken.
THEOREM PreparedRunIsOneShot == Spec => []OneWriterPerPreparation
<1>1. IInv => OneWriterPerPreparation
  BY DEF IInv, Pinned, PinnedBy, OneWriterPerPreparation
<1> QED BY <1>1, Invariance, PTL

\* A run records only into a dump of its own resolved configuration, and the
\* output lock leaves it alone with it.
THEOREM WriterIsAlone == Spec => []WritesItsOwnDump
<1>1. IInv => WritesItsOwnDump
  BY DEF IInv, Opening, Exclusion, Holds, WritesItsOwnDump
<1> QED BY <1>1, Invariance, PTL

\* No run starts a published dump anew, whenever it was prepared.
THEOREM DumpOutlivesRuns == Spec => DumpIsNeverRestarted
<1>1. IInv /\ [Next]_vars =>
        [out.kind = "dump" => /\ out'.kind = "dump" /\ out'.from = out.from
                              /\ out'.version >= out.version]_vars
  BY VersionedStep
<1> QED BY <1>1, Invariance, PTL DEF Spec, DumpIsNeverRestarted
=============================================================================
