--------------------------- MODULE LocalScheduler ---------------------------
(***************************************************************************)
(* Processes running `aec-bench run start`, `run resume` and `run cancel`  *)
(* against one operational store: LocalScheduler of execution/scheduler.py *)
(* driven by start_or_resume_run of harness/run_control.py, the worker     *)
(* threads it starts (harness/harbor_backend.py) and the external jobs     *)
(* those submit.                                                           *)
(*                                                                         *)
(* A process is sequential code whose every store call is a transaction of *)
(* its own, so the steps of two processes interleave between any two       *)
(* calls.  proc[p].pc names the next call.  A process may be killed at any *)
(* point; its threads die with it, its leases and external jobs do not.    *)
(*                                                                         *)
(* Initially the plan has been enqueued: every trial planned, every work   *)
(* item queued.                                                            *)
(***************************************************************************)
EXTENDS OperationalStore

CONSTANTS
    Procs,          \* operating-system processes
    RunServed,      \* [Procs -> Runs], the run named on the command line
    Commands,       \* [Procs -> SUBSET CommandNames], what p may be asked to do
    Owner,          \* start_or_resume_run's owner: one string for every process
    HasBackend,     \* is the work items' backend in the "backends" mapping?
    MaxAttempts,    \* retry_policy.maximum_attempts
    Backoff,        \* retry_policy.backoff_seconds
    RetryUnknown,   \* unknown_state_policy = "reconcile_before_retry"
    MaxCrashes      \* bound on process crashes

CommandNames == {"start", "resume", "cancel", "cancel_trial", "cancel_active"}

ASSUME SchedulerConstants ==
    /\ RunServed \in [Procs -> Runs]
    /\ Commands \in [Procs -> SUBSET CommandNames]
    /\ Owner \in Owners
    /\ HasBackend \in BOOLEAN /\ RetryUnknown \in BOOLEAN
    /\ MaxAttempts \in Nat \ {0} /\ Backoff \in Nat /\ MaxCrashes \in Nat
    /\ ExternalIds = AttemptIds
    /\ 1 \in CandidateIndexes

VARIABLES
    proc,       \* control state of each process
    worker,     \* worker thread of each attempt
    job,        \* the external job of each attempt
    started,    \* has the evidence run been started? (EvidenceRunStore)
    crashes     \* process crashes so far

procVars == <<proc, worker, job, started, crashes>>
vars == <<storeVars, procVars>>

(* The fields of a process: the next call, the "now" captured when its     *)
(* command or dispatch began, whether it then read a ready evidence run,   *)
(* the heartbeat's "now", the leases not yet started, the rows a loop has  *)
(* still to visit, the attempt at hand, the unfinished futures, the leases *)
(* its heartbeat lost, and the result it is writing.                       *)
NoResult == [state |-> None, failure |-> None, recon |-> None, retry |-> FALSE]
IdleProc == [pc |-> "idle", now |-> 0, ready |-> FALSE, beat |-> 0, batch |-> {}, todo |-> {},
             cur |-> None, pend |-> {}, done |-> {}, lost |-> {}, res |-> NoResult]

Finished == {"raised", "succeeded", "failed", "retryable", "unknown"}
WorkerStates == Finished \cup {"none", "ready", "recorded", "submitted", "bound",
                               "uncertain", "dead"}
JobStates == {"none", "running", "succeeded", "failed", "cancelled"}

Init ==
    /\ clock = 0
    /\ runStatus = [r \in Runs |-> "ready"]
    /\ cancelRequested = [r \in Runs |-> FALSE]
    /\ planState = [p \in Plans |-> "ready"]
    /\ trialState = [w \in Work |-> "planned"]
    /\ workState = [w \in Work |-> "queued"]
    /\ availableAt = CreatedAt
    /\ lease = [l \in LeaseIds |-> NoLease]
    /\ attempt = [a \in AttemptIds |-> NoAttempt]
    /\ submission = [a \in AttemptIds |-> NoSubmission]
    /\ proc = [p \in Procs |-> IdleProc]
    /\ worker = [a \in AttemptIds |-> "none"]
    /\ job = [a \in AttemptIds |-> "none"]
    /\ started = [r \in Runs |-> FALSE]
    /\ crashes = 0

-----------------------------------------------------------------------------
At(p, label) == proc[p].pc = label
Cur(p) == proc[p].cur
CurWork(p) == attempt[Cur(p)].work
CurLease(p) == attempt[Cur(p)].lease

Goto(p, label) == proc' = [proc EXCEPT ![p].pc = label]
Quit(p) == proc' = [proc EXCEPT ![p] = IdleProc]

OnlyProc == UNCHANGED <<worker, job, started, crashes>>
NoStoreCall == UNCHANGED storeVars

Result(s, f, rc, retry) == [state |-> s, failure |-> f, recon |-> rc, retry |-> retry]

IsLatestAttempt(a, w) ==
    a \in AttemptsOf(w) /\ \A b \in AttemptsOf(w) : attempt[b].number <= attempt[a].number

(* max(retry_number) + 1 over the attempts of w, 0 if there is none.       *)
IsNextRetry(w, k) ==
    /\ \A a \in AttemptsOf(w) : attempt[a].retry < k
    /\ k = 0 \/ \E a \in AttemptsOf(w) : attempt[a].retry = k - 1

(* transition_attempt then transition_backend_submission, when there is a  *)
(* submission.  The two transactions are one step: no code reads a         *)
(* submission's state.                                                     *)
WriteOutcome(a, s, f, rc, sub) ==
    /\ attempt' = [attempt EXCEPT ![a] =
          [attempt[a] EXCEPT !.state = s,
             !.failure = IF s \in {"succeeded", "cancelled"} THEN None
                         ELSE IF f = None THEN attempt[a].failure ELSE f,
             !.recon = IF rc = None THEN attempt[a].recon ELSE rc]]
    /\ submission' = [submission EXCEPT ![a].state = IF @ = "absent" THEN @ ELSE sub]
    /\ UNCHANGED <<clock, runStatus, cancelRequested, planState, trialState,
                   workState, availableAt, lease>>

-----------------------------------------------------------------------------
(* Commands.                                                               *)

BeginDispatch(p, rec) == [rec EXCEPT !.pc = "lease", !.ready = FALSE, !.batch = {}, !.lost = {}]

(* A plan that is still ready is enqueued again, which is refused once one *)
(* of its work items has left the queue; enqueueing queued items changes   *)
(* nothing.                                                                *)
Enqueueable(r) ==
    \A w \in WorkOfRun(r) : planState[PlanOf[w]] = "ready" => workState[w] = "queued"

(* run start: an evidence run that is ready, started before dispatching.   *)
StartRun(p) ==
    /\ At(p, "idle") /\ "start" \in Commands[p]
    /\ ~started[RunServed[p]] /\ Enqueueable(RunServed[p])
    /\ started' = [started EXCEPT ![RunServed[p]] = TRUE]
    /\ proc' = [proc EXCEPT ![p] = BeginDispatch(p, [IdleProc EXCEPT !.now = clock])]
    /\ NoStoreCall /\ UNCHANGED <<worker, job, crashes>>

(* run resume: expire_leases(run), then reconcile_unknown, then dispatch.  *)
ResumeRun(p) ==
    /\ At(p, "idle") /\ "resume" \in Commands[p]
    /\ ExpireLeases(WorkOfRun(RunServed[p]), clock)
    /\ proc' = [proc EXCEPT ![p].pc = "unknown_list", ![p].now = clock,
                            ![p].ready = ~started[RunServed[p]]]
    /\ OnlyProc

(* run cancel, a trial-level cancellation, or LocalScheduler.cancel_active *)
Cancel(p) ==
    LET r == RunServed[p]
    IN  /\ At(p, "idle")
        /\ \/ /\ "cancel" \in Commands[p]
              /\ RequestCancellation(r, WorkOfRun(r), TRUE)
              /\ UNCHANGED proc
           \/ /\ "cancel_trial" \in Commands[p]
              /\ \E w \in WorkOfRun(r) : RequestCancellation(r, {w}, FALSE)
              /\ UNCHANGED proc
           \/ /\ "cancel_active" \in Commands[p]
              /\ \/ RequestCancellation(r, WorkOfRun(r), TRUE)
                 \/ runStatus[r] \in RunTerminal /\ NoStoreCall
              /\ proc' = [proc EXCEPT ![p].pc = "cancel_list", ![p].now = clock]
        /\ OnlyProc

-----------------------------------------------------------------------------
(* dispatch_once, first half: lease a batch, then create and mark the      *)
(* attempts.  selected_now is captured once.                               *)

LeaseOne(p) ==
    /\ At(p, "lease")
    /\ \E l \in LeaseIds : \E w \in Work :
          /\ LeaseNextWorkItem(l, w, Owner, proc[p].now)
          /\ LET batch == proc[p].batch \cup {l}
             IN  proc' = [proc EXCEPT ![p].batch = batch,
                    ![p].pc = IF Cardinality(batch) = GlobalLimit THEN "batch" ELSE "lease"]
    /\ OnlyProc

LeaseNone(p) ==
    /\ At(p, "lease")
    /\ LeaseNextNothing(proc[p].now)
    /\ IF proc[p].batch = {} THEN Quit(p) ELSE Goto(p, "batch")
    /\ OnlyProc

(* The unique index refuses the lease: the command ends with an error and  *)
(* leaves the leases of its batch behind.                                  *)
LeaseRefused(p) ==
    /\ At(p, "lease")
    /\ LeaseNextRaises(proc[p].now)
    /\ Quit(p)
    /\ NoStoreCall /\ OnlyProc

BatchRuns(p) == {RunOf(lease[l].work) : l \in proc[p].batch}
BatchPlans(p) == {PlanOf[lease[l].work] : l \in proc[p].batch}

ListRuns(p) ==
    /\ At(p, "batch")
    /\ proc' = [proc EXCEPT ![p].pc = "run_running", ![p].todo = BatchRuns(p)]
    /\ NoStoreCall /\ OnlyProc

MarkRun(p) ==
    /\ At(p, "run_running")
    /\ \E r \in proc[p].todo :
          /\ UpdateRun(r, "running")
          /\ proc' = IF proc[p].todo = {r}
                     THEN [proc EXCEPT ![p].pc = "plan_started", ![p].todo = BatchPlans(p)]
                     ELSE [proc EXCEPT ![p].todo = @ \ {r}]
    /\ OnlyProc

MarkPlan(p) ==
    /\ At(p, "plan_started")
    /\ \E q \in proc[p].todo :
          /\ UpdatePlan(q, "started")
          /\ proc' = [proc EXCEPT ![p].todo = @ \ {q},
                         ![p].pc = IF proc[p].todo = {q} THEN "create" ELSE @]
    /\ OnlyProc

(* The leases of a batch are started in the order they were taken.         *)
NextLease(p, l) == l \in proc[p].batch /\ \A k \in proc[p].batch : l <= k

(* Variant: the started lease stays in the batch.                          *)
CreateNextKeepingLease(p) ==
    /\ At(p, "create")
    /\ \E l \in LeaseIds : \E a \in AttemptIds : \E k \in 0 .. MaxNumber - 1 :
          /\ NextLease(p, l)
          /\ IsNextRetry(lease[l].work, k)
          /\ CreateAttemptForLease(a, lease[l].work, 1, k, l, proc[p].now)
          /\ proc' = [proc EXCEPT ![p].pc = "work_running", ![p].cur = a]
    /\ OnlyProc

CreateNext(p) ==
    /\ At(p, "create")
    /\ \E l \in LeaseIds : \E a \in AttemptIds : \E k \in 0 .. MaxNumber - 1 :
          /\ NextLease(p, l)
          /\ IsNextRetry(lease[l].work, k)
          /\ CreateAttemptForLease(a, lease[l].work, 1, k, l, proc[p].now)
          /\ proc' = [proc EXCEPT ![p].pc = "work_running", ![p].cur = a,
                                  ![p].batch = @ \ {l}]
    /\ OnlyProc

(* The lease was released or expired meanwhile: dispatch_once raises.      *)
CreateRefused(p) ==
    /\ At(p, "create")
    /\ \E l \in LeaseIds : NextLease(p, l) /\ ~LeaseHolds(l, lease[l].work, proc[p].now)
    /\ Quit(p)
    /\ NoStoreCall /\ OnlyProc

WorkRunning(p) ==
    /\ At(p, "work_running")
    /\ UpdateWorkItem(CurWork(p), "running")
    /\ Goto(p, "trial_running")
    /\ OnlyProc

TrialRunning(p) ==
    /\ At(p, "trial_running")
    /\ UpdatePlannedTrial(CurWork(p), "running")
    /\ Goto(p, "attempt_running")
    /\ OnlyProc

(* Variant: the last attempt of a batch gets no worker thread.             *)
AttemptRunningUnstarted(p) ==
    LET last == proc[p].batch = {}
    IN  /\ At(p, "attempt_running")
        /\ TransitionAttempt(Cur(p), "running", None, None)
        /\ proc' = [proc EXCEPT ![p].pc = IF last THEN "wait" ELSE "create",
                                ![p].cur = None, ![p].pend = @ \cup {Cur(p)}]
        /\ worker' = [a \in AttemptIds |-> IF last /\ a \in proc[p].pend THEN "ready" ELSE worker[a]]
        /\ UNCHANGED <<job, started, crashes>>

(* After the last attempt the thread pool starts one worker per attempt.   *)
AttemptRunning(p) ==
    LET pend == proc[p].pend \cup {Cur(p)}
        last == proc[p].batch = {}
    IN  /\ At(p, "attempt_running")
        /\ TransitionAttempt(Cur(p), "running", None, None)
        /\ proc' = [proc EXCEPT ![p].pc = IF last THEN "wait" ELSE "create",
                                ![p].cur = None, ![p].pend = pend]
        /\ worker' = [a \in AttemptIds |-> IF last /\ a \in pend THEN "ready" ELSE worker[a]]
        /\ UNCHANGED <<job, started, crashes>>

-----------------------------------------------------------------------------
(* dispatch_once, second half: wait for the workers, record what they      *)
(* return, renew the leases of the others.                                 *)

(* wait(pending, timeout=heartbeat) returns when all futures are done or   *)
(* the heartbeat interval is over, whichever comes first.                  *)
Wake(p) ==
    /\ At(p, "wait")
    /\ LET done == {a \in proc[p].pend : worker[a] \in Finished}
       IN  proc' = [proc EXCEPT ![p].pc = "handle", ![p].done = done, ![p].pend = @ \ done]
    /\ NoStoreCall /\ OnlyProc

(* What the scheduler decides to write for a finished worker, from the     *)
(* rows as it reads them now.                                              *)
RaisedResult(a) ==
    LET submitted == submission[a].state # "absent"
        failure == IF attempt[a].failure # None THEN attempt[a].failure
                   ELSE IF submitted THEN "unknown" ELSE "infrastructure"
        state == IF attempt[a].state = "failed" \/ ~submitted THEN "failed" ELSE "unknown"
    IN  Result(state, failure, IF submitted THEN "pending" ELSE "not_required",
               state = "failed")

OutcomeResult(a) ==
    CASE worker[a] = "raised"    -> RaisedResult(a)
      [] worker[a] = "succeeded" -> Result("succeeded", None, "reconciled", FALSE)
      [] worker[a] = "failed"    -> Result("failed", "final", "reconciled", FALSE)
      [] worker[a] = "retryable" -> Result("failed", "infrastructure", "reconciled", TRUE)
      [] worker[a] = "unknown"   -> Result("unknown", "unknown", "pending", FALSE)

LeaseLost(p, a) == attempt[a].lease \in proc[p].lost

HandleDone(p, a) ==
    /\ At(p, "handle") /\ a \in proc[p].done
    /\ proc' = [proc EXCEPT
          ![p].cur = a, ![p].done = @ \ {a},
          ![p].pc = IF workState[attempt[a].work] \in {"cancelled", "unknown"}
                    THEN "release_quietly" ELSE "write_attempt",
          ![p].res = IF workState[attempt[a].work] \in {"cancelled", "unknown"} THEN NoResult
                     ELSE IF LeaseLost(p, a) THEN Result("unknown", "unknown", "pending", FALSE)
                     ELSE OutcomeResult(a)]
    /\ NoStoreCall /\ OnlyProc

ReleaseQuietly(p) ==
    /\ At(p, "release_quietly")
    /\ \/ ReleaseLease(CurLease(p), Owner)
       \/ ~Releasable(CurLease(p), Owner) /\ NoStoreCall
    /\ proc' = [proc EXCEPT ![p].pc = "handle", ![p].cur = None]
    /\ OnlyProc

WriteAttempt(p) ==
    /\ At(p, "write_attempt")
    /\ TransitionAttempt(Cur(p), proc[p].res.state, proc[p].res.failure, proc[p].res.recon)
    /\ Goto(p, "write_trial")
    /\ OnlyProc

(* Variant: the planned trial's update is forgotten.                       *)
WriteTrialForgotten(p) ==
    /\ At(p, "write_trial")
    /\ Goto(p, "write_work")
    /\ NoStoreCall /\ OnlyProc

WriteTrial(p) ==
    /\ At(p, "write_trial")
    /\ UpdatePlannedTrial(CurWork(p), proc[p].res.state)
    /\ Goto(p, "write_work")
    /\ OnlyProc

WriteWork(p) ==
    /\ At(p, "write_work")
    /\ UpdateWorkItem(CurWork(p), proc[p].res.state)
    /\ Goto(p, IF LeaseLost(p, Cur(p)) THEN "complete"
               ELSE IF proc[p].res.retry THEN "retry" ELSE "release")
    /\ OnlyProc

(* Variants: any failure is retried; the budget is off by one.             *)
MayRetryAnything(w, failure) ==
    \A a \in AttemptsOf(w) : attempt[a].retry + 1 < MaxAttempts

MayRetryOnceMore(w, failure) ==
    failure = "infrastructure" /\ \A a \in AttemptsOf(w) : attempt[a].retry < MaxAttempts

(* _schedule_retry: the failure must be retryable and an attempt left ...  *)
MayRetry(w, failure) ==
    failure = "infrastructure" /\ \A a \in AttemptsOf(w) : attempt[a].retry + 1 < MaxAttempts

RetryCheck(p) ==
    /\ At(p, "retry")
    /\ Goto(p, IF MayRetry(CurWork(p), proc[p].res.failure) THEN "requeue" ELSE "release")
    /\ NoStoreCall /\ OnlyProc

Requeue(p) ==
    /\ At(p, "requeue")
    /\ ScheduleRetry(CurWork(p), proc[p].now + Backoff)
    /\ Goto(p, "release")
    /\ OnlyProc

(* ... and schedule_retry raises once cancellation was requested, which    *)
(* ends the dispatch: the thread pool still waits for its workers.         *)
RequeueRefused(p) ==
    /\ At(p, "requeue")
    /\ ~RetryAllowed(CurWork(p))
    /\ Goto(p, "abort")
    /\ NoStoreCall /\ OnlyProc

Abort(p) ==
    /\ At(p, "abort")
    /\ \A a \in proc[p].pend : worker[a] \in Finished
    /\ Quit(p)
    /\ NoStoreCall /\ OnlyProc

Release(p) ==
    /\ At(p, "release")
    /\ ReleaseLease(CurLease(p), Owner)
    /\ Goto(p, "complete")
    /\ OnlyProc

(* The lease is no longer ours: whatever was recorded becomes unknown.     *)
ReleaseRefused(p) ==
    /\ At(p, "release")
    /\ ~Releasable(CurLease(p), Owner)
    /\ TransitionAttempt(Cur(p), "unknown", "unknown", "pending")
    /\ Goto(p, "unknown_trial")
    /\ OnlyProc

UnknownTrial(p) ==
    /\ At(p, "unknown_trial")
    /\ UpdatePlannedTrial(CurWork(p), "unknown")
    /\ Goto(p, "unknown_work")
    /\ OnlyProc

UnknownWork(p) ==
    /\ At(p, "unknown_work")
    /\ UpdateWorkItem(CurWork(p), "unknown")
    /\ Goto(p, "complete")
    /\ OnlyProc

CompletePlan(p) ==
    /\ At(p, "complete")
    /\ CompletePlanIfTerminal(PlanOf[CurWork(p)])
    /\ proc' = [proc EXCEPT ![p].pc = "handle", ![p].cur = None, ![p].res = NoResult]
    /\ OnlyProc

(* Variant: the command ends after its first batch.                        *)
HandleEndAndQuit(p) ==
    /\ At(p, "handle") /\ proc[p].done = {}
    /\ proc' = IF proc[p].pend = {}
               THEN [proc EXCEPT ![p] = IdleProc]
               ELSE [proc EXCEPT ![p].pc = "renew", ![p].beat = clock, ![p].todo = proc[p].pend]
    /\ NoStoreCall /\ OnlyProc

(* Nothing left to record: renew the leases of unfinished workers, or let  *)
(* _dispatch_until_quiet call dispatch_once again with a new "now".        *)
HandleEnd(p) ==
    /\ At(p, "handle") /\ proc[p].done = {}
    /\ proc' = IF proc[p].pend = {}
               THEN [proc EXCEPT ![p] = BeginDispatch(p, [IdleProc EXCEPT !.now = clock])]
               ELSE [proc EXCEPT ![p].pc = "renew", ![p].beat = clock, ![p].todo = proc[p].pend]
    /\ NoStoreCall /\ OnlyProc

Renew(p) ==
    /\ At(p, "renew")
    /\ \E a \in proc[p].todo :
          LET l == attempt[a].lease
              rest == [proc[p] EXCEPT !.todo = @ \ {a}]
          IN  \/ /\ ~LeaseLost(p, a)
                 /\ RenewLease(l, Owner, proc[p].beat)
                 /\ proc' = [proc EXCEPT ![p] = rest]
              \/ /\ ~LeaseLost(p, a) /\ ~Renewable(l, Owner, proc[p].beat)
                 /\ proc' = [proc EXCEPT ![p] = [rest EXCEPT !.lost = @ \cup {l}]]
                 /\ NoStoreCall
              \/ /\ LeaseLost(p, a)
                 /\ proc' = [proc EXCEPT ![p] = rest]
                 /\ NoStoreCall
    /\ OnlyProc

RenewEnd(p) ==
    /\ At(p, "renew") /\ proc[p].todo = {}
    /\ proc' = [proc EXCEPT ![p].pc = "wait", ![p].beat = 0]
    /\ NoStoreCall /\ OnlyProc

-----------------------------------------------------------------------------
(* reconcile_unknown, during a resume.                                     *)

UnknownList(p) ==
    /\ At(p, "unknown_list")
    /\ proc' = [proc EXCEPT ![p].pc = "reconcile",
                   ![p].todo = {w \in WorkOfRun(RunServed[p]) : workState[w] = "unknown"}]
    /\ NoStoreCall /\ OnlyProc

(* backend.reconcile accepts only a running or unknown attempt and finds a *)
(* job only by its external id; an infrastructure failure may carry no     *)
(* finalization.                                                           *)
Reconcilable(a) ==
    attempt[a].state \in {"running", "unknown"} /\ submission[a].external # None

Reconciled(a) ==
    CASE ~Reconcilable(a)     -> {}
      [] job[a] = "succeeded" -> {Result("succeeded", None, "reconciled", FALSE)}
      [] job[a] = "failed"    -> {Result("failed", "final", "reconciled", FALSE),
                                  Result("failed", "infrastructure", "reconciled", TRUE)}
      [] OTHER -> {}

ReconcileItem(p) ==
    /\ At(p, "reconcile")
    /\ \E w \in proc[p].todo :
          \/ \* no attempt, no submission, no backend, or no answer: still unknown
             proc' = [proc EXCEPT ![p].todo = @ \ {w}] /\ NoStoreCall
          \/ \E a \in AttemptIds :
                /\ IsLatestAttempt(a, w)
                /\ HasBackend /\ submission[a].state # "absent"
                /\ \E res \in Reconciled(a) :
                      /\ WriteOutcome(a, res.state, None, None,
                                      IF res.state = "succeeded" THEN "completed" ELSE "failed")
                      /\ proc' = [proc EXCEPT ![p].todo = @ \ {w}, ![p].cur = a, ![p].res = res,
                                              ![p].pc = "settle_attempt"]
    /\ OnlyProc

SettleAttempt(p) ==
    /\ At(p, "settle_attempt")
    /\ TransitionAttempt(Cur(p), proc[p].res.state, proc[p].res.failure, proc[p].res.recon)
    /\ Goto(p, "settle_trial")
    /\ OnlyProc

SettleTrial(p) ==
    /\ At(p, "settle_trial")
    /\ UpdatePlannedTrial(CurWork(p), proc[p].res.state)
    /\ Goto(p, "settle_work")
    /\ OnlyProc

SettleWork(p) ==
    /\ At(p, "settle_work")
    /\ UpdateWorkItem(CurWork(p), proc[p].res.state)
    /\ Goto(p, IF proc[p].res.retry /\ RetryUnknown THEN "settle_retry" ELSE "settle_plan")
    /\ OnlyProc

SettleRetry(p) ==
    /\ At(p, "settle_retry")
    /\ Goto(p, IF MayRetry(CurWork(p), proc[p].res.failure) THEN "settle_requeue"
               ELSE "settle_plan")
    /\ NoStoreCall /\ OnlyProc

SettleRequeue(p) ==
    /\ At(p, "settle_requeue")
    /\ \/ /\ ScheduleRetry(CurWork(p), proc[p].now + Backoff)
          /\ proc' = [proc EXCEPT ![p].pc = "reconcile", ![p].cur = None, ![p].res = NoResult]
       \/ /\ ~RetryAllowed(CurWork(p))
          /\ Quit(p) /\ NoStoreCall
    /\ OnlyProc

SettlePlan(p) ==
    /\ At(p, "settle_plan")
    /\ CompletePlanIfTerminal(PlanOf[CurWork(p)])
    /\ proc' = [proc EXCEPT ![p].pc = "reconcile", ![p].cur = None, ![p].res = NoResult]
    /\ OnlyProc

(* Resume is blocked by unknown work and by work another process holds, by *)
(* enqueueing, and by an evidence run that another process started since.  *)
ReconcileEnd(p) ==
    LET W == WorkOfRun(RunServed[p])
    IN  /\ At(p, "reconcile") /\ proc[p].todo = {}
        /\ IF \/ \E w \in W : workState[w] \in {"unknown", "leased", "running"}
              \/ ~Enqueueable(RunServed[p])
              \/ proc[p].ready /\ started[RunServed[p]]
           THEN Quit(p) /\ UNCHANGED started
           ELSE /\ proc' = [proc EXCEPT ![p] = BeginDispatch(p, @)]
                /\ started' = [started EXCEPT ![RunServed[p]] = TRUE]
        /\ NoStoreCall /\ UNCHANGED <<worker, job, crashes>>

-----------------------------------------------------------------------------
(* cancel_active, after request_cancellation.                              *)

CancelList(p) ==
    /\ At(p, "cancel_list")
    /\ proc' = [proc EXCEPT ![p].pc = "cancel",
           ![p].todo = {w \in WorkOfRun(RunServed[p]) : workState[w] = "cancel_requested"}]
    /\ NoStoreCall /\ OnlyProc

Confirmed == Result("cancelled", None, None, FALSE)
Unconfirmed == Result("unknown", "unknown", "pending", FALSE)

CancelSkip(p) ==
    /\ At(p, "cancel")
    /\ \E w \in proc[p].todo :
          AttemptsOf(w) = {} /\ proc' = [proc EXCEPT ![p].todo = @ \ {w}]
    /\ NoStoreCall /\ OnlyProc

(* No submission row: confirmed without asking.  Otherwise the backend may *)
(* confirm that it stopped the job, or anything else.                      *)
CancelItem(p) ==
    /\ At(p, "cancel")
    /\ \E w \in proc[p].todo : \E a \in AttemptIds :
          /\ IsLatestAttempt(a, w)
          /\ \/ /\ submission[a].state = "absent"
                /\ proc' = [proc EXCEPT ![p].pc = "cancel_attempt", ![p].cur = a,
                               ![p].todo = @ \ {w}, ![p].res = Confirmed]
                /\ UNCHANGED job
             \/ /\ submission[a].state # "absent"
                /\ HasBackend /\ submission[a].external # None /\ job[a] = "running"
                /\ job' = [job EXCEPT ![a] = "cancelled"]
                /\ proc' = [proc EXCEPT ![p].pc = "cancel_attempt", ![p].cur = a,
                               ![p].todo = @ \ {w}, ![p].res = Confirmed]
             \/ /\ submission[a].state # "absent"
                /\ proc' = [proc EXCEPT ![p].pc = "cancel_attempt", ![p].cur = a,
                               ![p].todo = @ \ {w}, ![p].res = Unconfirmed]
                /\ UNCHANGED job
    /\ NoStoreCall /\ UNCHANGED <<worker, started, crashes>>

CancelAttempt(p) ==
    /\ At(p, "cancel_attempt")
    /\ WriteOutcome(Cur(p), proc[p].res.state, proc[p].res.failure, proc[p].res.recon,
                    proc[p].res.state)
    /\ Goto(p, "cancel_work")
    /\ OnlyProc

CancelWork(p) ==
    /\ At(p, "cancel_work")
    /\ UpdateWorkItem(CurWork(p), proc[p].res.state)
    /\ Goto(p, "cancel_trial")
    /\ OnlyProc

CancelTrial(p) ==
    /\ At(p, "cancel_trial")
    /\ UpdatePlannedTrial(CurWork(p), proc[p].res.state)
    /\ Goto(p, "cancel_complete")
    /\ OnlyProc

CancelComplete(p) ==
    /\ At(p, "cancel_complete")
    /\ CompletePlanIfTerminal(PlanOf[CurWork(p)])
    /\ Goto(p, "cancel_release")
    /\ OnlyProc

CancelRelease(p) ==
    /\ At(p, "cancel_release")
    /\ \/ \E l \in LeaseIds : lease[l].work = CurWork(p) /\ ReleaseLease(l, Owner)
       \/ ~HasActiveLease(CurWork(p), lease) /\ NoStoreCall
    /\ proc' = [proc EXCEPT ![p].pc = "cancel", ![p].cur = None, ![p].res = NoResult]
    /\ OnlyProc

CancelEnd(p) ==
    /\ At(p, "cancel") /\ proc[p].todo = {}
    /\ Quit(p)
    /\ NoStoreCall /\ OnlyProc

-----------------------------------------------------------------------------
(* Worker threads and external jobs (HarborBackend.execute).               *)

Threads(p) == proc[p].pend \cup proc[p].done
ServedByOwnRun(a) == \A p \in Procs : a \in Threads(p) => RunServed[p] = RunOf(attempt[a].work)

(* A check before the submission fails; the items of another run always    *)
(* fail it ("work item does not belong to the authoritative run plan").    *)
WorkerRejects(a) ==
    /\ worker[a] = "ready"
    /\ worker' = [worker EXCEPT ![a] = "raised"]
    /\ NoStoreCall /\ UNCHANGED <<proc, job, started, crashes>>

WorkerRecords(a) ==
    /\ worker[a] = "ready" /\ ServedByOwnRun(a)
    /\ RecordBackendSubmission(a, None)
    /\ worker' = [worker EXCEPT ![a] = "recorded"]
    /\ UNCHANGED <<proc, job, started, crashes>>

(* client.submit starts the job, or raises without saying whether it did.  *)
WorkerSubmits(a) ==
    /\ worker[a] = "recorded"
    /\ \/ /\ job' = [job EXCEPT ![a] = "running"]
          /\ worker' = [worker EXCEPT ![a] = "submitted"]
       \/ /\ job' \in {job, [job EXCEPT ![a] = "running"]}
          /\ worker' = [worker EXCEPT ![a] = "uncertain"]
    /\ NoStoreCall /\ UNCHANGED <<proc, started, crashes>>

(* The external identifier of an attempt's job is the attempt's own.  The  *)
(* row's state moves in a transaction of its own, merged like WriteOutcome. *)
WorkerBinds(a) ==
    /\ worker[a] = "submitted"
    /\ submission' = [submission EXCEPT ![a].external = a, ![a].state = "running"]
    /\ UNCHANGED <<clock, runStatus, cancelRequested, planState, trialState,
                   workState, availableAt, lease, attempt>>
    /\ worker' = [worker EXCEPT ![a] = "bound"]
    /\ UNCHANGED <<proc, job, started, crashes>>

JobFinishes(a) ==
    /\ job[a] = "running"
    /\ \E s \in {"succeeded", "failed"} : job' = [job EXCEPT ![a] = s]
    /\ NoStoreCall /\ UNCHANGED <<proc, worker, started, crashes>>

(* Inspect and collect: publish a terminal job and record its outcome.     *)
WorkerCollects(a) ==
    /\ worker[a] = "bound"
    /\ \/ /\ job[a] = "succeeded"
          /\ WriteOutcome(a, "succeeded", None, None, "completed")
          /\ worker' = [worker EXCEPT ![a] = "succeeded"]
       \/ /\ job[a] = "failed"
          /\ WriteOutcome(a, "failed", None, None, "failed")
          /\ \E s \in {"failed", "retryable"} : worker' = [worker EXCEPT ![a] = s]
    /\ UNCHANGED <<proc, job, started, crashes>>

(* Any other observation, or none.                                         *)
WorkerGivesUp(a) ==
    /\ worker[a] = "bound"
    /\ worker' = [worker EXCEPT ![a] = "uncertain"]
    /\ NoStoreCall /\ UNCHANGED <<proc, job, started, crashes>>

(* _unknown_outcome                                                        *)
WorkerUncertain(a) ==
    /\ worker[a] = "uncertain"
    /\ WriteOutcome(a, "unknown", "unknown", "pending", "unknown")
    /\ worker' = [worker EXCEPT ![a] = "unknown"]
    /\ UNCHANGED <<proc, job, started, crashes>>

(* Any exception after the submission row: the attempt is marked failed.   *)
WorkerBreaks(a) ==
    /\ worker[a] \in {"recorded", "submitted", "bound"}
    /\ WriteOutcome(a, "failed", None, None, "failed")
    /\ worker' = [worker EXCEPT ![a] = "raised"]
    /\ UNCHANGED <<proc, job, started, crashes>>

-----------------------------------------------------------------------------
(* The process is killed.                                                  *)
Crash(p) ==
    /\ crashes < MaxCrashes /\ ~At(p, "idle")
    /\ crashes' = crashes + 1
    /\ worker' = [a \in AttemptIds |-> IF a \in Threads(p) /\ worker[a] \notin Finished
                                       THEN "dead" ELSE worker[a]]
    /\ Quit(p)
    /\ NoStoreCall /\ UNCHANGED <<job, started>>

Dispatch(p) ==
    \/ LeaseOne(p) \/ LeaseNone(p) \/ LeaseRefused(p)
    \/ ListRuns(p) \/ MarkRun(p) \/ MarkPlan(p)
    \/ CreateNext(p) \/ CreateRefused(p)
    \/ WorkRunning(p) \/ TrialRunning(p) \/ AttemptRunning(p)
    \/ Wake(p) \/ \E a \in AttemptIds : HandleDone(p, a)
    \/ ReleaseQuietly(p) \/ WriteAttempt(p) \/ WriteTrial(p) \/ WriteWork(p)
    \/ RetryCheck(p) \/ Requeue(p) \/ RequeueRefused(p) \/ Abort(p)
    \/ Release(p) \/ ReleaseRefused(p) \/ UnknownTrial(p) \/ UnknownWork(p)
    \/ CompletePlan(p) \/ HandleEnd(p) \/ Renew(p) \/ RenewEnd(p)

Reconcile(p) ==
    \/ UnknownList(p) \/ ReconcileItem(p) \/ SettleAttempt(p) \/ SettleTrial(p)
    \/ SettleWork(p) \/ SettleRetry(p) \/ SettleRequeue(p) \/ SettlePlan(p)
    \/ ReconcileEnd(p)

CancelActive(p) ==
    \/ CancelList(p) \/ CancelSkip(p) \/ CancelItem(p) \/ CancelAttempt(p)
    \/ CancelWork(p) \/ CancelTrial(p) \/ CancelComplete(p) \/ CancelRelease(p)
    \/ CancelEnd(p)

WorkerStep(a) ==
    \/ WorkerRejects(a) \/ WorkerRecords(a) \/ WorkerSubmits(a) \/ WorkerBinds(a)
    \/ WorkerCollects(a) \/ WorkerGivesUp(a) \/ WorkerUncertain(a) \/ WorkerBreaks(a)

Command(p) == StartRun(p) \/ ResumeRun(p) \/ Cancel(p)

Next ==
    \/ Tick /\ UNCHANGED procVars
    \/ \E p \in Procs : Command(p) \/ Dispatch(p) \/ Reconcile(p) \/ CancelActive(p) \/ Crash(p)
    \/ \E a \in AttemptIds : WorkerStep(a) \/ JobFinishes(a)

Spec == Init /\ [][Next]_vars

(* A machine that stays up: the processes and their threads keep running,  *)
(* and the run is started.  Commands, crashes, the clock and the end of an *)
(* external job are not obliged to happen.                                 *)
Fairness ==
    /\ \A p \in Procs : /\ WF_vars(StartRun(p)) /\ WF_vars(Dispatch(p))
                        /\ WF_vars(Reconcile(p)) /\ WF_vars(CancelActive(p))
    /\ \A a \in AttemptIds : WF_vars(WorkerStep(a))

LiveSpec == Spec /\ Fairness

-----------------------------------------------------------------------------
(* max_concurrency and every scoped limit bound the active leases, however *)
(* many processes lease: lease_next_work_item counts and inserts in one    *)
(* transaction.                                                            *)
CapRespected ==
    /\ Cardinality(Active(lease)) <= GlobalLimit
    /\ \A s \in Scopes : Cardinality(ActiveIn(lease, s)) <= ScopeLimit[s]

(* A lease carries one attempt: whoever dispatches, a work item that is    *)
(* tried again was leased again.                                           *)
OneAttemptPerLease ==
    \A a, b \in AttemptIds :
        attempt[a].work # None /\ attempt[b].work # None /\ a # b => attempt[a].lease # attempt[b].lease

(* An uncertain external effect is never repeated: of the jobs submitted   *)
(* for one work item, at most one is running or has succeeded.             *)
NoDuplicateEffect ==
    \A a, b \in AttemptIds :
        a # b /\ attempt[a].work = attempt[b].work /\ attempt[a].work # None =>
            ~(job[a] \in {"running", "succeeded"} /\ job[b] \in {"running", "succeeded"})

(* A running external job is always accounted for: its work item is not    *)
(* queued again, and not recorded as succeeded or cancelled.               *)
NoOrphanJob ==
    \A a \in AttemptIds : job[a] = "running" =>
        workState[attempt[a].work] \in {"running", "cancel_requested", "unknown", "failed"}

(* retry_policy.maximum_attempts bounds the attempts of a work item, over  *)
(* crashes, expiries and reconciliations.                                  *)
AttemptBudget ==
    \A w \in Work : Cardinality(AttemptsOf(w)) <= MaxAttempts

(* A terminal work item and its planned trial tell the same story: the     *)
(* trial row is written first, so whatever falls between the two writes a  *)
(* finished work item is never seen beside an unfinished trial.            *)
TrialAgrees ==
    \A w \in Work : workState[w] \in Terminal => trialState[w] = workState[w]

(* A run that reads completed or cancelled, and a closed plan, have no     *)
(* work item that could still run.                                         *)
ClosedMeansTerminal ==
    /\ \A r \in Runs : runStatus[r] \in RunTerminal => AllTerminal(WorkOfRun(r), trialState, workState)
    /\ \A p \in Plans : planState[p] = "closed" => AllTerminal(WorkOfPlan(p), trialState, workState)

(* Unknown work leaves that state only after its latest attempt has been   *)
(* reconciled: neither expiry, nor leasing, nor cancellation decides it.   *)
UnknownStep ==
    \A w \in Work : workState[w] = "unknown" /\ workState'[w] # "unknown" =>
        \E a \in AttemptIds : IsLatestAttempt(a, w) /\ attempt[a].recon = "reconciled"

UnknownIsReconciled == [][UnknownStep]_vars

(* Cancellation is final.  Work that was cancelled before it ran stays     *)
(* cancelled and starts no job, also when only its trial was cancelled and *)
(* the run's flag, which leasing and retry look at, is not set; and what   *)
(* has ended in a cancelled run stays as it ended: no retry decided before *)
(* the request, late write, release, expiry or reconciliation revives it.  *)
CancelledWork(w) == workState[w] = "cancelled"
EndedInCancelledRun(w) == cancelRequested[RunOf(w)] /\ workState[w] \in Terminal

CancelStep ==
    /\ \A w \in Work : CancelledWork(w) \/ EndedInCancelledRun(w) => workState'[w] = workState[w]
    /\ \A a \in AttemptIds : attempt[a].work # None /\ job[a] = "none" /\ job'[a] # "none" =>
          ~CancelledWork(attempt[a].work) /\ ~EndedInCancelledRun(attempt[a].work)

CancellationIsFinal == [][CancelStep]_vars

(* Without a crash, a started run comes to rest with every work item       *)
(* terminal or explicitly unknown: none is left queued, leased or running. *)
Settles == <>[](\A w \in Work : workState[w] \in Terminal \cup {"unknown"})

(* ... and every command returns: no process waits for ever.               *)
CommandsReturn == \A p \in Procs : []<>At(p, "idle")
=============================================================================
