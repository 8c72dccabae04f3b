------------------------------ MODULE Session ------------------------------
(***************************************************************************)
(* Two-stage execution (ssat/application): prepare_run reads the           *)
(* configuration and the source manifest, estimates the work and takes a   *)
(* preflight fingerprint, all without a lock; execute_run takes the output *)
(* lock, repeats the fingerprint and opens the dump writer.                *)
(*                                                                         *)
(* Several processes share one output.  A process has one PreparedRun at a *)
(* time, which any of its threads may execute.  The dump is reduced to     *)
(* what a fingerprint and a resume tell apart: whether there is one, its   *)
(* resolved configuration, and a version that every publication advances   *)
(* (sizes and mtimes of its files); AuditDump models what is inside.       *)
(***************************************************************************)
EXTENDS Integers

CONSTANTS
    Processes,   \* processes running `ssat run` on the output
    Threads,     \* callers of execute_run
    Owner,       \* the process of a thread, and so the PreparedRun it executes
    Rebuilders,  \* processes running `ssat rebuild-index`
    Nobody,      \* the output lock is free
    MaxEdits,    \* bound: edits of each input file
    MaxVersion   \* bound: publications in the dump

Actors == Threads \cup Rebuilders
ASSUME SessionAssumption ==
    /\ Owner \in [Threads -> Processes]
    /\ Threads \cap Rebuilders = {} /\ Nobody \notin Actors
    /\ MaxEdits \in Nat /\ MaxVersion \in Nat

VARIABLES
    file,   \* content of the configuration file and of the source manifest
    out,    \* the dump
    lock,   \* the actor that holds the output lock
    prep,   \* the PreparedRun of each process, finished or in preparation
    pc,     \* where each actor is
    at      \* history: what the check of a thread that opens its writer saw

vars == <<file, out, lock, prep, pc, at>>

-----------------------------------------------------------------------------
Inputs == {"config", "source"}
Contents == 0..MaxEdits
Versions == 0..MaxVersion

Resolved(p) == [config |-> prep[p].used["config"],
                source |-> prep[p].hash["source"]]
Mode == IF out.kind = "dump" THEN "resume" ELSE "create"

\* a changed input ends the fingerprint before the dump is looked at
Verdict(p) ==
    IF file["source"] # prep[p].hash["source"] THEN "source-manifest-changed"
    ELSE IF file["config"] # prep[p].hash["config"] THEN "configuration-changed"
    ELSE "unchanged"
Unreadable(p) == Verdict(p) = "unchanged" /\ out.kind = "bare"
Snapshot == IF Mode = "resume" THEN out.version ELSE 0
NoToken == [verdict |-> "none", mode |-> "create", version |-> 0]

\* faulty: the fingerprint leaves out the snapshot of the dump's files
FingerprintOfInputs(p) == [NoToken EXCEPT !.verdict = Verdict(p)]

Fingerprint(p) ==
    IF Verdict(p) = "unchanged"
    THEN [verdict |-> "unchanged", mode |-> Mode, version |-> Snapshot]
    ELSE [NoToken EXCEPT !.verdict = Verdict(p)]

ReadStage == [config |-> "read_config", source |-> "read_source"]
HashStage == [config |-> "hash_config", source |-> "hash_source"]

NoInputs == [f \in Inputs |-> 0]
NoView == [file |-> NoInputs, version |-> 0]
View == [file |-> file, version |-> out.version]
NoPrep == [stage |-> "none", used |-> NoInputs, hash |-> NoInputs,
           mode |-> "create", token |-> NoToken, seen |-> NoView,
           consumed |-> FALSE, closed |-> FALSE, opened |-> 0]

Init ==
    /\ file = NoInputs
    /\ out = [kind |-> "empty", version |-> 0,
              from |-> [config |-> 0, source |-> 0], sources |-> {}]
    /\ lock = Nobody
    /\ prep = [p \in Processes |-> NoPrep]
    /\ pc = [a \in Actors |-> "idle"]
    /\ at = [t \in Threads |-> NoView]

Busy(p) == \E t \in Threads : Owner[t] = p /\ pc[t] # "idle"

-----------------------------------------------------------------------------
(* prepare_run: nothing is locked, so other actors run between its steps.  *)

\* a new preparation replaces the previous PreparedRun
StartPrepare(p) ==
    /\ prep[p].stage = "none" \/ (prep[p].stage = "ready" /\ ~Busy(p))
    /\ prep' = [prep EXCEPT ![p] = [NoPrep EXCEPT !.stage = "read_config"]]
    /\ UNCHANGED <<file, out, lock, pc, at>>

\* the content is parsed first, and the file is hashed afterwards
ReadInput(p, f) ==
    /\ prep[p].stage = ReadStage[f]
    /\ prep' = [prep EXCEPT ![p].used[f] = file[f],
                            ![p].stage = HashStage[f]]
    /\ UNCHANGED <<file, out, lock, pc, at>>
HashInput(p, f) ==
    /\ prep[p].stage = HashStage[f]
    /\ prep' = [prep EXCEPT
          ![p].hash[f] = file[f],
          ![p].stage = IF f = "config" THEN "read_source" ELSE "output_mode"]
    /\ UNCHANGED <<file, out, lock, pc, at>>

OutputMode(p) ==
    /\ prep[p].stage = "output_mode"
    /\ prep' = IF out.kind = "bare"
               THEN [prep EXCEPT ![p] = NoPrep]
               ELSE [prep EXCEPT ![p].mode = Mode,
                                 ![p].stage = IF Mode = "resume"
                                              THEN "resume_index" ELSE "fingerprint"]
    /\ UNCHANGED <<file, out, lock, pc, at>>

\* the pending work that is estimated comes from this reading of the dump
OpenResumeIndex(p) ==
    /\ prep[p].stage = "resume_index"
    /\ prep' = IF out.from = Resolved(p)
               THEN [prep EXCEPT ![p].stage = "fingerprint"]
               ELSE [prep EXCEPT ![p] = NoPrep]
    /\ UNCHANGED <<file, out, lock, pc, at>>

TakeFingerprint(p) ==
    /\ prep[p].stage = "fingerprint"
    /\ prep' = IF Unreadable(p)
               THEN [prep EXCEPT ![p] = NoPrep]
               ELSE [prep EXCEPT ![p].token = Fingerprint(p), ![p].seen = View,
                                 ![p].stage = "ready"]
    /\ UNCHANGED <<file, out, lock, pc, at>>

\* PreparedRun.close, also while another thread is executing it
ClosePrepared(p) ==
    /\ prep[p].stage = "ready"
    /\ prep' = [prep EXCEPT ![p].closed = TRUE]
    /\ UNCHANGED <<file, out, lock, pc, at>>

-----------------------------------------------------------------------------
(* execute_run.                                                            *)

Goto(a, where) == pc' = [pc EXCEPT ![a] = where]
Leave(a) == lock' = Nobody /\ Goto(a, "idle")

\* confirmation and the one-shot flags are tested before the lock is taken
Call(t) ==
    LET p == Owner[t] IN
    /\ pc[t] = "idle" /\ prep[p].stage = "ready"
    /\ ~prep[p].closed /\ ~prep[p].consumed
    /\ Goto(t, "called")
    /\ UNCHANGED <<file, out, lock, prep, at>>

\* the cancellation token was set before the run began
CancelCall(t) ==
    /\ pc[t] = "called"
    /\ prep' = [prep EXCEPT ![Owner[t]].consumed = TRUE]
    /\ Goto(t, "idle")
    /\ UNCHANGED <<file, out, lock, at>>

\* faulty: a held lock is taken over
TakeHeldLock(t) ==
    /\ pc[t] = "called"
    /\ lock' = t /\ Goto(t, "check")
    /\ UNCHANGED <<file, out, prep, at>>

\* nonblocking: a held lock is reported to the caller
TakeLock(t) ==
    /\ pc[t] = "called"
    /\ IF lock = Nobody
       THEN lock' = t /\ Goto(t, "check")
       ELSE lock' = lock /\ Goto(t, "idle")
    /\ UNCHANGED <<file, out, prep, at>>

Stale(p) == prep[p].closed \/ Unreadable(p) \/ Fingerprint(p) # prep[p].token

\* faulty: the one-shot flags are all that is tested under the lock
CheckFlags(t) ==
    LET p == Owner[t] IN
    /\ pc[t] = "check"
    /\ IF prep[p].closed
       THEN Leave(t) /\ UNCHANGED <<prep, at>>
       ELSE /\ prep' = [prep EXCEPT ![p].consumed = TRUE]
            /\ at' = [at EXCEPT ![t] = View]
            /\ Goto(t, "open") /\ UNCHANGED lock
    /\ UNCHANGED <<file, out>>

Check(t) ==
    LET p == Owner[t] IN
    /\ pc[t] = "check"
    /\ IF Stale(p)
       THEN Leave(t) /\ UNCHANGED <<prep, at>>
       ELSE /\ prep' = [prep EXCEPT ![p].consumed = TRUE]
            /\ at' = [at EXCEPT ![t] = View]
            /\ Goto(t, "open") /\ UNCHANGED lock
    /\ UNCHANGED <<file, out>>

Publishing == out.version < MaxVersion   \* BOUND
Forget(t) == at' = [at EXCEPT ![t] = NoView]
Opened(t) == prep' = [prep EXCEPT ![Owner[t]].opened = @ + 1]

\* the writer is opened in the prepared mode and verifies it for itself
OpenFails(t) ==
    LET p == Owner[t] IN
    /\ pc[t] = "open"
    /\ \/ prep[p].closed
       \/ prep[p].mode = "create" /\ out.kind # "empty"
       \/ prep[p].mode = "resume" /\ (out.kind # "dump" \/ out.from # Resolved(p))
    /\ Leave(t) /\ Forget(t)
    /\ UNCHANGED <<file, out, prep>>

\* faulty: the writer creates its directories in whatever is there
MakeRootAnyway(t) ==
    LET p == Owner[t] IN
    /\ pc[t] = "open" /\ ~prep[p].closed
    /\ prep[p].mode = "create"
    /\ out' = [out EXCEPT !.kind = "bare"]
    /\ Goto(t, "manifest") /\ Forget(t)
    /\ UNCHANGED <<file, lock, prep>>

MakeRoot(t) ==
    LET p == Owner[t] IN
    /\ pc[t] = "open" /\ ~prep[p].closed
    /\ prep[p].mode = "create" /\ out.kind = "empty"
    /\ out' = [out EXCEPT !.kind = "bare"]
    /\ Goto(t, "manifest") /\ Forget(t)
    /\ UNCHANGED <<file, lock, prep>>

PublishManifest(t) ==
    /\ pc[t] = "manifest" /\ Publishing
    /\ out' = [out EXCEPT !.kind = "dump", !.version = @ + 1,
                          !.from = Resolved(Owner[t])]
    /\ Opened(t) /\ Goto(t, "record")
    /\ UNCHANGED <<file, lock, at>>

OpenResumed(t) ==
    LET p == Owner[t] IN
    /\ pc[t] = "open" /\ Publishing /\ ~prep[p].closed
    /\ prep[p].mode = "resume" /\ out.kind = "dump" /\ out.from = Resolved(p)
    /\ out' = [out EXCEPT !.version = @ + 1]
    /\ Opened(t) /\ Goto(t, "record") /\ Forget(t)
    /\ UNCHANGED <<file, lock>>

Record(t) ==
    /\ pc[t] = "record" /\ Publishing
    /\ out' = [out EXCEPT !.version = @ + 1,
                          !.sources = @ \cup {prep[Owner[t]].used["source"]}]
    /\ UNCHANGED <<file, lock, prep, pc, at>>

\* completed, cancelled or failed: the writer is closed, which publishes the
\* manifest unless it raises, too
EndRun(t) ==
    /\ pc[t] = "record"
    /\ \/ Publishing /\ out' = [out EXCEPT !.version = @ + 1]
       \/ UNCHANGED out
    /\ Leave(t)
    /\ UNCHANGED <<file, prep, at>>

-----------------------------------------------------------------------------
(* The other users of the output and of the input files.                   *)

StartRebuild(r) ==
    /\ pc[r] = "idle" /\ lock = Nobody /\ out.kind = "dump"
    /\ lock' = r /\ Goto(r, "rebuild")
    /\ UNCHANGED <<file, out, prep, at>>
Rebuild(r) ==
    /\ pc[r] = "rebuild"
    /\ \/ Publishing /\ out' = [out EXCEPT !.version = @ + 1]
       \/ UNCHANGED out
    /\ Leave(r)
    /\ UNCHANGED <<file, prep, at>>

EditInput(f) ==
    /\ file[f] < MaxEdits
    /\ file' = [file EXCEPT ![f] = @ + 1]
    /\ UNCHANGED <<out, lock, prep, pc, at>>

\* the operating system releases the lock of a process that dies
Kill(p) ==
    /\ prep[p].stage # "none"
    /\ prep' = [prep EXCEPT ![p] = NoPrep]
    /\ pc' = [a \in Actors |-> IF a \in Threads /\ Owner[a] = p
                               THEN "idle" ELSE pc[a]]
    /\ lock' = IF lock \in Threads /\ Owner[lock] = p THEN Nobody ELSE lock
    /\ at' = [t \in Threads |-> IF Owner[t] = p THEN NoView ELSE at[t]]
    /\ UNCHANGED <<file, out>>

Preparing(p) ==
    \/ StartPrepare(p) \/ OutputMode(p) \/ OpenResumeIndex(p)
    \/ TakeFingerprint(p) \/ ClosePrepared(p)
    \/ \E f \in Inputs : ReadInput(p, f) \/ HashInput(p, f)
Executing(t) ==
    \/ Call(t) \/ CancelCall(t) \/ TakeLock(t) \/ Check(t)
    \/ OpenFails(t) \/ MakeRoot(t) \/ PublishManifest(t) \/ OpenResumed(t)
    \/ Record(t) \/ EndRun(t)

Next == \/ \E p \in Processes : Preparing(p) \/ Kill(p)
        \/ \E t \in Threads : Executing(t)
        \/ \E r \in Rebuilders : StartRebuild(r) \/ Rebuild(r)
        \/ \E f \in Inputs : EditInput(f)
Spec == Init /\ [][Next]_vars

-----------------------------------------------------------------------------
(* Properties.                                                             *)

Stages == {"none", "read_config", "hash_config", "read_source", "hash_source",
           "output_mode", "resume_index", "fingerprint", "ready"}
Modes == {"create", "resume"}
Verdicts == {"none", "unchanged", "source-manifest-changed",
             "configuration-changed"}
InputContents == [Inputs -> Contents]
Views == [file: InputContents, version: Versions]
Tokens == [verdict: Verdicts, mode: Modes, version: Versions]
PreparedRuns == [stage: Stages, used: InputContents, hash: InputContents,
                 mode: Modes, token: Tokens, seen: Views,
                 consumed: BOOLEAN, closed: BOOLEAN, opened: Nat]
Dumps == [kind: {"empty", "bare", "dump"}, version: Versions,
          from: [config: Contents, source: Contents], sources: SUBSET Contents]
Pcs == {"idle", "called", "check", "open", "manifest", "record", "rebuild"}

\* Every variable holds a value of its type.
TypeOK ==
    /\ file \in InputContents
    /\ out \in Dumps
    /\ lock \in Actors \cup {Nobody}
    /\ prep \in [Processes -> PreparedRuns]
    /\ pc \in [Actors -> Pcs]
    /\ at \in [Threads -> Views]

\* the inputs were edited while the run was being prepared, so its
\* fingerprint is one of the two constants and says nothing of the dump
Masked(p) == prep[p].token.verdict # "unchanged"

\* What the stale-state check of execute_run promises: the run that opens
\* its writer finds the configuration, the source manifest and the dump as
\* the preflight did, and keeps the dump so until it writes.
CheckedIsUnchanged ==
    \A t \in Threads :
        pc[t] = "open" /\ ~Masked(Owner[t])
        => /\ at[t] = prep[Owner[t]].seen
           /\ out.version = at[t].version

\* A PreparedRun is a one-shot object: however many threads pass its
\* unlocked consumed test, at most one writer is opened from it.
OneWriterPerPreparation ==
    \A p \in Processes : ~Masked(p) => prep[p].opened <= 1

\* A dump, once there, is never started anew, never changes its
\* configuration and never loses a publication, whatever runs were prepared
\* while the output was still empty.
DumpIsNeverRestarted ==
    [][out.kind = "dump" => /\ out'.kind = "dump" /\ out'.from = out.from
                            /\ out'.version >= out.version]_vars

\* A run records only into a dump of its own resolved configuration, and
\* only one actor at a time has a dump open for writing.
WritesItsOwnDump ==
    /\ \A t \in Threads : pc[t] = "record" => out.from = Resolved(Owner[t])
    /\ \A a, b \in Actors :
          {pc[a], pc[b]} \subseteq {"open", "manifest", "record", "rebuild"} => a = b

\* Immediately before execution the inputs and the dump are verified to be
\* what they were at preflight (docs/APPLICATION_API.md).
UnchangedSincePreflight ==
    \A t \in Threads : pc[t] = "open" => at[t] = prep[Owner[t]].seen
=============================================================================
