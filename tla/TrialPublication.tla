-------------------------- MODULE TrialPublication --------------------------
(***************************************************************************)
(* How a finished Harbor job becomes evidence: HarborBackend.execute and   *)
(* reconcile down to the files that _publish_result writes, and the        *)
(* scheduler's use of their outcome.  The worker of a trial's attempt and  *)
(* any number of resuming processes may publish the same trial at once:    *)
(* a lease that expires under a slow worker makes its work reconcilable.   *)
(*                                                                         *)
(* A file is linked into the cache and reaches the disk when its directory *)
(* is flushed, or earlier; rows of the operational store are durable when  *)
(* written (synchronous = FULL), and artifacts when publish_bytes returns  *)
(* (ReturnedIsDurable in ImmutableByteStoreProofs).  A trial has one       *)
(* attempt here: only an attempt without a submission is ever retried by   *)
(* a scheduler with this backend, and such an attempt publishes nothing.   *)
(***************************************************************************)
EXTENDS Integers, FiniteSets

CONSTANTS
    Trials,
    Resumes,      \* the processes that will run `run resume`, one reconcile each
    MaxBoots,     \* bound on power losses
    Run           \* stands for the trial in the name of the run's manifest

ASSUME PublicationConstants ==
    Trials \cap Resumes = {} /\ Run \notin Trials /\ MaxBoots \in Nat

Actors == Trials \cup Resumes       \* a trial names the worker of its attempt

VARIABLES
    work, attempt,    \* [Trials -> state]: the rows of work item and attempt
    submission,       \* [Trials -> {"none", "recorded", "bound"}]
    job,              \* [Trials -> state]: the external job
    cache, disk,      \* sets of Files
    act,              \* [Actors -> Activity]
    faulty,           \* trials that a publisher left between record and finalization
    boots

rows == <<work, attempt, submission>>
files == <<cache, disk>>
vars == <<work, attempt, submission, job, cache, disk, act, faulty, boots>>

Outcomes == {"succeeded", "failed"}
RowStates == Outcomes \cup {"running", "unknown"}

(* The artifacts of a trial, the run's manifest, the record, receipts (of  *)
(* a status each) and the finalization.                                    *)
Kinds == {"artifacts", "manifest", "record", "receipt", "final"}
Files == [kind : Kinds, trial : Trials \cup {Run}, by : Actors,
          status : Outcomes \cup {"unknown"}]

Pcs == {"idle", "submit", "collect", "unknown", "unknownRow", "artifacts", "manifest", "record",
        "receipt", "final", "row", "raised", "read", "settle", "done"}
Activity == [pc : Pcs, trial : Trials \cup {Run},
             linked : BOOLEAN,          \* the file of this step is linked, not yet flushed
             found : Outcomes \cup {"unknown", "raised"}]
Idle == [pc |-> "idle", trial |-> Run, linked |-> FALSE, found |-> "unknown"]

At(a, pc) == act[a].pc = pc
Trial(a) == act[a].trial
IsWorker(a) == a \in Trials
Goto(a, pc) == act' = [act EXCEPT ![a].pc = pc, ![a].linked = FALSE]
Leave(a, found) ==       \* a worker's outcome goes to its dispatcher
    act' = [act EXCEPT ![a].pc = IF IsWorker(a) THEN "read" ELSE "done",
                       ![a].linked = FALSE, ![a].found = found]

OfTrial(kind, t) == {f \in cache : f.kind = kind /\ f.trial = t}
Present(kind, t) == OfTrial(kind, t) # {}
Terminal(t) == {f \in OfTrial("receipt", t) : f.status \in Outcomes}

(* The file that step pc of actor a writes.                                *)
File(a, kind) ==
    [kind |-> kind, trial |-> IF kind = "manifest" THEN Run ELSE Trial(a), by |-> a,
     status |-> IF kind = "receipt" THEN act[a].found ELSE "unknown"]

(* Between the link of the record and the flush of the finalization.       *)
Midway(a) == act[a].pc \in {"receipt", "final"} \/ (At(a, "record") /\ act[a].linked)
Broken(a) == IF Midway(a) THEN {Trial(a)} ELSE {}

Init ==
    /\ work = [t \in Trials |-> "running"]
    /\ attempt = [t \in Trials |-> "running"]
    /\ submission = [t \in Trials |-> "none"]
    /\ job = [t \in Trials |-> "none"]
    /\ cache = {} /\ disk = {}
    /\ act = [a \in Actors |-> Idle]
    /\ faulty = {} /\ boots = 0

-----------------------------------------------------------------------------
(* HarborBackend.execute up to the submission row and the transport file.  *)
Execute(t) ==
    /\ At(t, "idle")
    /\ work[t] = "running" /\ attempt[t] = "running" /\ submission[t] = "none"
    /\ ~Present("record", t) /\ ~Present("final", t)
    /\ submission' = [submission EXCEPT ![t] = "recorded"]
    /\ act' = [act EXCEPT ![t].pc = "submit", ![t].trial = t]
    /\ UNCHANGED <<work, attempt, job, files, faulty, boots>>

(* client.submit returns, or raises although the job may have started.     *)
Submit(t) ==
    /\ At(t, "submit")
    /\ \/ /\ job' = [job EXCEPT ![t] = "running"]
          /\ submission' = [submission EXCEPT ![t] = "bound"]
          /\ Goto(t, "collect")
       \/ /\ job' \in {job, [job EXCEPT ![t] = "running"]}
          /\ Goto(t, "unknown")
          /\ UNCHANGED submission
    /\ UNCHANGED <<work, attempt, files, faulty, boots>>

JobEnds(t) ==
    /\ job[t] = "running"
    /\ \E o \in Outcomes : job' = [job EXCEPT ![t] = o]
    /\ UNCHANGED <<rows, files, act, faulty, boots>>

(* inspect and collect: a result to publish, or no terminal result.        *)
Collect(a) ==
    /\ At(a, "collect")
    /\ \/ /\ job[Trial(a)] \in Outcomes
          /\ act' = [act EXCEPT ![a].pc = "artifacts", ![a].found = job[Trial(a)]]
       \/ Goto(a, "unknown")
    /\ UNCHANGED <<rows, job, files, faulty, boots>>

(* reconcile of a trial whose work is unknown.  It validates the attempt;  *)
(* with nothing published it goes to the job, if it knows it by name ...   *)
Reconcilable(r, t) == At(r, "idle") /\ work[t] = "unknown" /\ submission[t] # "none"
Valid(t) == attempt[t] \in {"running", "unknown"}
Unpublished(t) == ~Present("record", t) /\ ~Present("final", t)
Published(t) == /\ Present("record", t) /\ Present("final", t) /\ Present("manifest", Run)
                /\ Cardinality(Terminal(t)) = 1

ReconcileJob(r, t) ==
    /\ Reconcilable(r, t) /\ Valid(t) /\ Unpublished(t)
    /\ act' = [act EXCEPT ![r].trial = t,
                          ![r].pc = IF submission[t] = "bound" THEN "collect" ELSE "unknown"]
    /\ UNCHANGED <<rows, job, files, faulty, boots>>

(* ... a published outcome is taken from its receipt ...                   *)
ReconcilePublished(r, t) ==
    /\ Reconcilable(r, t) /\ Valid(t) /\ Published(t)
    /\ \E f \in Terminal(t) :
          act' = [act EXCEPT ![r].pc = "row", ![r].trial = t, ![r].found = f.status]
    /\ UNCHANGED <<rows, job, files, faulty, boots>>

(* ... and anything else is an error: "trial publication is incomplete".   *)
ReconcileRefused(r, t) ==
    /\ Reconcilable(r, t)
    /\ ~Valid(t) \/ (~Unpublished(t) /\ ~Published(t))
    /\ act' = [act EXCEPT ![r].pc = "done", ![r].trial = t]
    /\ UNCHANGED <<rows, job, files, faulty, boots>>

(* An unknown outcome leaves a receipt of its own, except that reconcile   *)
(* is content with one that is there.                                      *)
UnknownReceipt(a) ==
    /\ At(a, "unknown") /\ ~act[a].linked
    /\ IF ~IsWorker(a) /\ \E f \in OfTrial("receipt", Trial(a)) : f.status = "unknown"
       THEN Leave(a, "unknown") /\ UNCHANGED cache
       ELSE /\ cache' = cache \cup {File(a, "receipt")}
            /\ act' = [act EXCEPT ![a].linked = TRUE]
    /\ UNCHANGED <<rows, job, disk, faulty, boots>>

UnknownRow(a) ==
    /\ At(a, "unknownRow")
    /\ attempt' = [attempt EXCEPT ![Trial(a)] = "unknown"]
    /\ Leave(a, "unknown")
    /\ UNCHANGED <<work, submission, job, files, faulty, boots>>

-----------------------------------------------------------------------------
(* _publish_result.  materialize_trial_record publishes the artifacts,     *)
(* whose names are their contents.                                         *)
PublishArtifacts(a) ==
    /\ At(a, "artifacts")
    /\ LET f == [File(a, "artifacts") EXCEPT !.by = Trial(a)]
       IN cache' = cache \cup {f} /\ disk' = disk \cup {f}
    /\ Goto(a, "manifest")
    /\ UNCHANGED <<rows, job, faulty, boots>>

(* _write_run_manifest_path: a manifest that is there is left alone, and   *)
(* so is its directory.                                                    *)
ManifestExists(a) ==
    /\ At(a, "manifest") /\ ~act[a].linked
    /\ Present("manifest", Run)
    /\ Goto(a, "record")
    /\ UNCHANGED <<rows, job, files, faulty, boots>>

(* Variant: the name is replaced.                                          *)
LinkReplaces(a) ==
    /\ act[a].pc \in {"manifest", "record", "receipt", "final"} /\ ~act[a].linked
    /\ cache' = {f \in cache : f.kind # act[a].pc \/ f.kind = "receipt"
                               \/ f.trial # File(a, act[a].pc).trial} \cup {File(a, act[a].pc)}
    /\ act' = [act EXCEPT ![a].linked = TRUE]
    /\ disk' = disk \cap cache'
    /\ UNCHANGED <<rows, job, faulty, boots>>

(* os.link of a temporary file, already flushed, to its final name.        *)
Link(a) ==
    /\ act[a].pc \in {"manifest", "record", "receipt", "final"} /\ ~act[a].linked
    /\ act[a].pc = "receipt" \/ ~Present(act[a].pc, File(a, act[a].pc).trial)
    /\ cache' = cache \cup {File(a, act[a].pc)}
    /\ act' = [act EXCEPT ![a].linked = TRUE]
    /\ UNCHANGED <<rows, job, disk, faulty, boots>>

(* Variant: the finalization is written before the receipt.                *)
AfterFinalFirst(pc) ==
    CASE pc = "manifest" -> "record" [] pc = "record" -> "final" [] pc = "final" -> "receipt"
      [] pc = "receipt" -> "row" [] pc = "unknown" -> "unknownRow"

(* Variant: the finalization is forgotten.                                 *)
AfterUnfinalized(pc) ==
    CASE pc = "manifest" -> "record" [] pc = "record" -> "receipt" [] pc \in {"receipt", "final"} -> "row"
      [] pc = "unknown" -> "unknownRow"

(* The step after the flush: record, receipt, finalization, rows.          *)
After(pc) ==
    CASE pc = "manifest" -> "record" [] pc = "record" -> "receipt" [] pc = "receipt" -> "final"
      [] pc = "final" -> "row" [] pc = "unknown" -> "unknownRow"

(* Variant: the directory of the records is not flushed.                   *)
FlushNotRecord(a) ==
    /\ act[a].linked
    /\ LET kind == IF At(a, "unknown") THEN "receipt" ELSE act[a].pc
       IN disk' = disk \cup {f \in cache : f.kind = kind /\ kind # "record"}
    /\ Goto(a, After(act[a].pc))
    /\ UNCHANGED <<rows, job, cache, faulty, boots>>

(* fsync_directory makes durable whatever the directory holds by now.      *)
Flush(a) ==
    /\ act[a].linked
    /\ LET kind == IF At(a, "unknown") THEN "receipt" ELSE act[a].pc
       IN disk' = disk \cup {f \in cache : f.kind = kind}
    /\ Goto(a, After(act[a].pc))
    /\ UNCHANGED <<rows, job, cache, faulty, boots>>

(* DuplicateTrialRecordError and DuplicateAppendOnlyFileError.             *)
Duplicate(a) ==
    /\ act[a].pc \in {"record", "final"} /\ ~act[a].linked
    /\ Present(act[a].pc, Trial(a))
    /\ attempt' = [attempt EXCEPT ![Trial(a)] = "failed"]       \* _mark_failed
    /\ Goto(a, "raised")
    /\ UNCHANGED <<work, submission, job, files, faulty, boots>>

(* Any other error, between two steps; reconcile does not handle the ones  *)
(* outside the try statement of _publish_result.                           *)
Fail(a) ==
    /\ \/ act[a].pc \in {"submit", "collect", "unknown", "artifacts"} /\ UNCHANGED attempt
       \/ /\ act[a].pc \in {"manifest", "record", "receipt", "final"}
          /\ attempt' = [attempt EXCEPT ![Trial(a)] = "failed"]
    /\ Goto(a, "raised")
    /\ faulty' = faulty \cup Broken(a)
    /\ UNCHANGED <<work, submission, job, files, boots>>

(* The except clause of execute; reconcile_unknown counts it as unknown.   *)
Raised(a) ==
    /\ At(a, "raised")
    /\ IF IsWorker(a) THEN attempt' = [attempt EXCEPT ![Trial(a)] = "failed"]
       ELSE UNCHANGED attempt
    /\ Leave(a, "raised")
    /\ UNCHANGED <<work, submission, job, files, faulty, boots>>

(* transition_attempt of a published outcome, by its publisher or by a     *)
(* reconcile that found it.                                                *)
WriteRow(a) ==
    /\ At(a, "row")
    /\ attempt' = [attempt EXCEPT ![Trial(a)] = act[a].found]
    /\ Goto(a, IF IsWorker(a) THEN "read" ELSE "settle")
    /\ UNCHANGED <<work, submission, job, files, faulty, boots>>

-----------------------------------------------------------------------------
(* What dispatch_once makes of a worker that raised: the worker had a      *)
(* submission.                                                             *)
OutcomeOf(t) ==
    CASE act[t].found # "raised" -> act[t].found
      [] attempt[t] = "failed" -> "failed"
      [] OTHER -> "unknown"

(* dispatch_once looks at the work item before it writes what the worker   *)
(* returned or raised, or that the lease was lost.                         *)
Read(t) ==
    /\ At(t, "read")
    /\ \/ work[t] = "unknown" /\ Goto(t, "done")
       \/ /\ work[t] # "unknown"
          /\ \E outcome \in {"unknown", OutcomeOf(t)} :
                act' = [act EXCEPT ![t].pc = "settle", ![t].found = outcome]
    /\ UNCHANGED <<rows, job, files, faulty, boots>>

(* The attempt and the work item get the outcome, of a worker or of a      *)
(* reconcile.                                                              *)
Settle(a) ==
    /\ At(a, "settle")
    /\ attempt' = [attempt EXCEPT ![Trial(a)] = act[a].found]
    /\ work' = [work EXCEPT ![Trial(a)] = act[a].found]
    /\ Goto(a, "done")
    /\ UNCHANGED <<submission, job, files, faulty, boots>>

(* _expire_leases, while the worker is slow or dead.                       *)
Expire(t) ==
    /\ work[t] = "running"
    /\ work' = [work EXCEPT ![t] = "unknown"]
    /\ attempt' = [attempt EXCEPT ![t] = IF @ = "running" THEN "unknown" ELSE @]
    /\ UNCHANGED <<submission, job, files, act, faulty, boots>>

Kill(a) ==
    /\ act[a].pc \notin {"idle", "done"}
    /\ Goto(a, "done")
    /\ faulty' = faulty \cup Broken(a)
    /\ UNCHANGED <<rows, job, files, boots>>

(* Names that were not flushed may be lost, everything under way is.       *)
PowerLoss ==
    /\ boots < MaxBoots
    /\ boots' = boots + 1
    /\ \E lost \in SUBSET (cache \ disk) : cache' = cache \ lost
    /\ disk' = cache'
    /\ act' = [a \in Actors |-> IF a \in Resumes /\ At(a, "idle") THEN act[a]
                                ELSE [act[a] EXCEPT !.pc = "done", !.linked = FALSE]]
    /\ faulty' = faulty \cup UNION {Broken(a) : a \in Actors}
    /\ UNCHANGED <<rows, job>>

Backend(a) ==
    \/ Collect(a) \/ UnknownReceipt(a) \/ UnknownRow(a)
    \/ PublishArtifacts(a) \/ ManifestExists(a) \/ Link(a) \/ Flush(a)
    \/ Duplicate(a) \/ Fail(a) \/ Raised(a) \/ WriteRow(a) \/ Settle(a) \/ Kill(a)

Next ==
    \/ \E a \in Actors : Backend(a)
    \/ \E t \in Trials : Execute(t) \/ Submit(t) \/ JobEnds(t) \/ Read(t) \/ Expire(t)
    \/ \E r \in Resumes, t \in Trials :
          ReconcileJob(r, t) \/ ReconcilePublished(r, t) \/ ReconcileRefused(r, t)
    \/ PowerLoss

Spec == Init /\ [][Next]_vars

-----------------------------------------------------------------------------
(* Whatever was interrupted and whoever raced, a finalization stands on    *)
(* evidence that is on the disk: record and receipt by its own publisher,  *)
(* and the artifacts.                                                      *)
FinalizedHasEvidence ==
    \A f \in cache : f.kind = "final" =>
        /\ [f EXCEPT !.kind = "record"] \in disk
        /\ [f EXCEPT !.kind = "artifacts", !.by = f.trial] \in disk
        /\ \E o \in Outcomes : [f EXCEPT !.kind = "receipt", !.status = o] \in disk

(* The condition reconcile insists on can be met: two publishers never     *)
(* leave two terminal receipts, and the one there is tells the job's end.  *)
OneTerminalReceipt ==
    \A t \in Trials : /\ Cardinality(Terminal(t)) <= 1
                      /\ \A f \in Terminal(t) : f.status = job[t]

(* Success in a row means that the job succeeded and that a record and the *)
(* receipt of its publisher are on the disk.  The finalization need not be *)
(* there: reconcile believes one that its writer has not flushed.          *)
SuccessHasEvidence ==
    \A t \in Trials : "succeeded" \in {attempt[t], work[t]} =>
        /\ job[t] = "succeeded"
        /\ \E f \in disk : /\ f.kind = "record" /\ f.trial = t
                           /\ [f EXCEPT !.kind = "receipt", !.status = "succeeded"] \in disk

(* The incomplete publication that reconcile refuses for ever comes from   *)
(* an error or an interruption of one publisher between record and         *)
(* finalization, never from a race of publishers or from a fault of one    *)
(* that had not linked the record.                                         *)
IncompleteNeedsFault ==
    \A t \in Trials \ faulty :
        Present("record", t) /\ ~Present("final", t) => \E a \in Actors : Trial(a) = t /\ Midway(a)
=============================================================================
