------------------------ MODULE SoleDispatcherProofs ------------------------
(***************************************************************************)
(* What LocalScheduler guarantees when at most one process starts and      *)
(* resumes runs, while any number of others request cancellations, the     *)
(* process may be killed at any point and started again, and nobody uses   *)
(* cancel_active: an external effect is never repeated.  Then, for a       *)
(* machine that stays up, that the tables agree with each other: a work    *)
(* item with its planned trial, a closed run or plan with its work.        *)
(***************************************************************************)
EXTENDS LocalSchedulerProofs

Dispatches(p) == Commands[p] \cap {"start", "resume"} # {}

SoleDispatcher ==
    /\ \A p \in Procs : "cancel_active" \notin Commands[p]
    /\ \A p, q \in Procs : Dispatches(p) /\ Dispatches(q) => p = q

-----------------------------------------------------------------------------
(* An attempt whose external job has not succeeded, is not running and     *)
(* will never start; and a work item that may be tried again.              *)
Harmless(a) ==
    worker[a] \notin {"none", "ready", "recorded"} /\ job[a] \notin {"running", "succeeded"}

Free(w) == \A a \in AttemptIds :
    attempt[a].work = w => Harmless(a) /\ attempt[a].retry + 1 < MaxAttempts

IsActive(a) == lease[attempt[a].lease].state = "active"
IsLast(a) == \A b \in AttemptIds :
    attempt[b].work = attempt[a].work => attempt[b].number <= attempt[a].number

(* All attempts of a work item but the last are harmless; an attempt under *)
(* an active lease is the last; attempts stay within the budget; a failure *)
(* that may be retried left nothing behind.                                *)
HistoryInv ==
    /\ \A a \in Existing, b \in Existing :
          attempt[a].work = attempt[b].work /\ attempt[a].number < attempt[b].number => Harmless(a)
    /\ \A a \in Existing : IsActive(a) => IsLast(a)
    /\ \A a \in Existing : attempt[a].candidate = 1 /\ attempt[a].retry < MaxAttempts
    /\ \A a \in Existing : attempt[a].failure = "infrastructure" => Harmless(a)

(* Work that is queued, or leased and not attempted, may be tried again.   *)
FreeInv ==
    /\ \A w \in Work : workState[w] = "queued" => Free(w)
    /\ \A l \in Unused : lease[l].state = "active" => Free(lease[l].work)

(* A worker, its job and its submission row.                               *)
Alive == {"ready", "recorded", "submitted", "bound", "uncertain"}
JobInv ==
    \A a \in AttemptIds :
        /\ job[a] # "none" => worker[a] \notin {"none", "ready", "recorded"}
        /\ job[a] # "none" \/ worker[a] = "recorded" => submission[a].state # "absent"
        /\ worker[a] = "succeeded" => job[a] = "succeeded"
        /\ worker[a] \in {"failed", "retryable"} => job[a] = "failed"
        /\ worker[a] \in Alive => \E p \in Procs : a \in proc[p].pend

OwnerInv == \A l \in LeaseIds : lease[l].state # "absent" => lease[l].owner = Owner

-----------------------------------------------------------------------------
(* What the dispatching process knows at each label.  It rests, prepares a *)
(* batch, or works one off.                                                *)
Resting == {"idle", "unknown_list", "reconcile"} \cup Settling
Preparing == {"lease", "batch", "run_running", "plan_started", "create"} \cup Starting
Recording == {"write_attempt", "write_trial", "write_work", "retry", "requeue", "release"}
Working == {"wait", "renew", "handle", "abort", "complete"} \cup Recording
Reporting == {"write_attempt", "write_trial", "write_work", "retry", "settle_attempt",
              "settle_trial", "settle_work", "settle_retry"}

WorkStateOf(a) == workState[attempt[a].work]

(* The leases it has taken and the attempts it is running are its own.     *)
BatchDuty(r) ==
    \A l \in r.batch : /\ lease[l].state = "active" /\ lease[l].expires > r.now
                       /\ workState[lease[l].work] \in {"leased", "cancel_requested"}

Busy(r) == r.pend \cup r.done \cup
    {a \in AttemptIds : a = r.cur /\ r.pc \in {"trial_running", "attempt_running", "write_attempt",
                                               "write_trial", "write_work"}}

BusyDuty(r) ==
    \A a \in Busy(r) : IsActive(a) /\ WorkStateOf(a) \in {"running", "cancel_requested"}

HandDuty(r) ==
    /\ r.pend \cap r.done = {}
    /\ r.pc \in Starting \cup Recording => IsActive(r.cur) /\ r.cur \notin r.pend \cup r.done

(* Its threads have not started, or it waits for them.                     *)
PhaseDuty(r) ==
    /\ r.pc \in Resting \cup Preparing \cup Working
    /\ r.pc \notin Preparing => r.batch = {}
    /\ r.pc \in Resting \cup {"lease"} => r.pend = {}
    /\ r.pc \in Preparing => \A a \in r.pend : worker[a] = "none"
    /\ r.pc \in Starting => worker[r.cur] = "none"

(* The state of the work item at hand, and the result it is writing.       *)
WorkDuty(r) ==
    /\ r.pc = "work_running" => WorkStateOf(r.cur) \in {"leased", "cancel_requested"}
    /\ r.pc \in {"retry", "requeue"} => WorkStateOf(r.cur) = "failed"
    /\ r.pc = "release" => WorkStateOf(r.cur) \notin {"leased", "running"}
    /\ r.pc \in {"requeue", "settle_requeue"} => Free(attempt[r.cur].work)

ResultDuty(r) ==
    /\ r.pc \in Reporting =>
          /\ r.res.failure = "infrastructure" => Harmless(r.cur)
          /\ r.res.state = "succeeded" => job[r.cur] = "succeeded"
          /\ r.res.retry => r.res.state = "failed"
          /\ r.res.state # "cancelled"
    /\ r.pc \in Settling => IsLast(r.cur)
    /\ r.pc = "settle_attempt" => r.res.recon = "reconciled"
    /\ r.pc \in {"settle_trial", "settle_work", "settle_retry", "settle_requeue"} =>
          attempt[r.cur].recon = "reconciled"

Duty(r) ==
    BatchDuty(r) /\ BusyDuty(r) /\ HandDuty(r) /\ PhaseDuty(r) /\ WorkDuty(r) /\ ResultDuty(r)

DutyInv == \A p \in Procs : Duty(proc[p]) /\ (Dispatches(p) \/ proc[p].pc = "idle")

SoleInv == SchedulerInv /\ HistoryInv /\ FreeInv /\ JobInv /\ OwnerInv /\ NoOrphanJob /\ DutyInv

-----------------------------------------------------------------------------
(* A submission row stays.                                                 *)
SubmissionsLast ==
    \A a \in AttemptIds : submission[a].state # "absent" => submission'[a].state # "absent"

(* No store call removes a submission row.                                 *)
LEMMA SubmissionsStay == ASSUME StoreTypeOK, StoreCall PROVE SubmissionsLast
<1>1. \A a \in AttemptIds : submission[a] \in SubmissionRows
  BY DEF StoreTypeOK
<1>2. ASSUME NEW D, submission' = ExpiredSubmissions(D) PROVE SubmissionsLast
  <2>1. ASSUME NEW row \in SubmissionRows PROVE [row EXCEPT !.state = "unknown"].state = "unknown"
    BY DEF SubmissionRows
  <2> QED BY <1>1, <1>2, <2>1 DEF ExpiredSubmissions, SubmissionsLast
<1>3. ASSUME NEW a \in AttemptIds, NEW sub \in SubmissionStates,
             submission' = [submission EXCEPT ![a].state = IF @ = "absent" THEN @ ELSE sub]
      PROVE  SubmissionsLast
  <2>1. sub # "absent"
    BY DEF SubmissionStates
  <2> QED BY <1>1, <1>3, <2>1 DEF SubmissionsLast, StoreTypeOK, SubmissionRows
<1>4. ASSUME NEW a \in AttemptIds,
             submission' = [submission EXCEPT ![a] = [state |-> "submitted", external |-> None]]
      PROVE  SubmissionsLast
  BY <1>1, <1>4 DEF SubmissionsLast, StoreTypeOK, SubmissionRows
<1>5. ASSUME NEW a \in AttemptIds,
             submission' = [submission EXCEPT ![a].external = a, ![a].state = "running"]
      PROVE  SubmissionsLast
  BY <1>1, <1>5 DEF SubmissionsLast, StoreTypeOK, SubmissionRows
<1>6. \/ UNCHANGED submission
      \/ \E D : submission' = ExpiredSubmissions(D)
      \/ \E a \in AttemptIds, sub \in SubmissionStates :
            submission' = [submission EXCEPT ![a].state = IF @ = "absent" THEN @ ELSE sub]
      \/ \E a \in AttemptIds :
            submission' = [submission EXCEPT ![a] = [state |-> "submitted", external |-> None]]
      \/ \E a \in AttemptIds :
            submission' = [submission EXCEPT ![a].external = a, ![a].state = "running"]
  <2>1. CASE QuietCall
    BY <2>1 DEF QuietCall, UpdateRun, UpdatePlan, UpdatePlannedTrial, UpdateWorkItem,
       RequestCancellation, CompletePlanIfTerminal, ScheduleRetry, ExpireLeases, RenewLease,
       ReleaseLease, TransitionAttempt, WriteOutcome, RecordBackendSubmission, WorkerBinds, Tick,
       storeVars
  <2>2. CASE LeaseCall
    BY <2>2 DEF LeaseCall, LeaseNextWorkItem
  <2>3. CASE InsertCall
    BY <2>3 DEF InsertCall, CreateAttemptForLease, InsertAttempt
  <2> QED BY <2>1, <2>2, <2>3 DEF StoreCall
<1>7. CASE UNCHANGED submission
  BY <1>7 DEF SubmissionsLast
<1> QED BY <1>2, <1>3, <1>4, <1>5, <1>6, <1>7

-----------------------------------------------------------------------------
(* Steps that insert no attempt and grant no lease.  Harmless attempts     *)
(* stay harmless, jobs do not start, a failure is recorded as retryable    *)
(* only when nothing is left behind, and a work item is                    *)
(* queued only when it is free and leaves the states that account for a    *)
(* running job only when there is none.                                    *)
HarmStays == \A a \in AttemptIds : Harmless(a) => Harmless(a)'
JobsStay == \A a \in AttemptIds : job'[a] = "running" => job[a] = "running"
FailuresKept ==
    \A a \in AttemptIds : attempt'[a].failure = "infrastructure" =>
        attempt[a].failure = "infrastructure" \/ Harmless(a)
Allowed(w) ==
    \/ workState'[w] \in {workState[w], "running", "cancel_requested", "unknown", "failed"}
    \/ Free(w)
    \/ /\ workState'[w] # "queued"
       /\ \A a \in AttemptIds : attempt[a].work = w => job[a] # "running"

(* A free work item stays free.                                            *)
LEMMA FreeStays == ASSUME Steady, HarmStays, NEW w, Free(w) PROVE Free(w)'
<1>1. \A a \in AttemptIds : attempt'[a].work = attempt[a].work /\ attempt'[a].retry = attempt[a].retry
  BY DEF Steady, AttemptKept, SameIdentity
<1> QED BY <1>1 DEF Free, HarmStays

(* Histories last.                                                         *)
LEMMA HistoryStays ==
    ASSUME SoleInv, Steady, HarmStays, FailuresKept,
           \A a \in Existing : IsActive(a)' => IsActive(a)
    PROVE  HistoryInv'
<1>1. \A a \in AttemptIds :
         /\ attempt'[a].work = attempt[a].work /\ attempt'[a].number = attempt[a].number
         /\ attempt'[a].retry = attempt[a].retry /\ attempt'[a].candidate = attempt[a].candidate
  BY DEF Steady, AttemptKept, SameIdentity
<1>2. Existing' = Existing
  BY DEF Steady, AttemptKept, Existing
<1>3. \A a \in Existing : IsLast(a) => IsLast(a)'
  BY <1>1 DEF IsLast, Existing
<1>4. \A a \in Existing' : IsActive(a)' => IsLast(a)'
  BY <1>2, <1>3 DEF SoleInv, HistoryInv
<1>5. \A a \in Existing : Harmless(a) => Harmless(a)'
  BY DEF HarmStays, Existing
<1>6. \A a \in Existing', b \in Existing' :
         attempt'[a].work = attempt'[b].work /\ attempt'[a].number < attempt'[b].number => Harmless(a)'
  BY <1>1, <1>2, <1>5 DEF SoleInv, HistoryInv, Existing
<1>7. \A a \in Existing' : attempt'[a].candidate = 1 /\ attempt'[a].retry < MaxAttempts
  BY <1>1, <1>2 DEF SoleInv, HistoryInv, Existing
<1>8. \A a \in Existing' : attempt'[a].failure = "infrastructure" => Harmless(a)'
  BY <1>2, <1>5 DEF SoleInv, HistoryInv, FailuresKept, Existing
<1> QED BY <1>4, <1>6, <1>7, <1>8 DEF HistoryInv

(* Queued work stays free, and jobs stay accounted for.                    *)
LEMMA AllowedKeeps ==
    ASSUME SoleInv, Steady, HarmStays, JobsStay, \A w \in Work : Allowed(w)
    PROVE  NoOrphanJob' /\ \A w \in Work : workState'[w] = "queued" => Free(w)'
<1>1. ASSUME NEW w \in Work, workState'[w] = "queued" PROVE Free(w)'
  <2>1. Free(w)
    BY <1>1 DEF Allowed, SoleInv, FreeInv
  <2> QED BY <2>1, FreeStays
<1>2. ASSUME NEW a \in AttemptIds, job'[a] = "running"
      PROVE  workState'[attempt'[a].work] \in {"running", "cancel_requested", "unknown", "failed"}
  <2>1. job[a] = "running" /\ attempt'[a].work = attempt[a].work
    BY <1>2 DEF JobsStay, Steady, AttemptKept, SameIdentity
  <2>2. a \in Existing
    BY <2>1 DEF SoleInv, JobInv, SchedulerInv, RowInv
  <2>3. PICK w \in Work : w = attempt[a].work
    BY <2>2 DEF SoleInv, SchedulerInv, RowInv
  <2>4. ~Free(w)
    BY <2>1, <2>3 DEF Free, Harmless
  <2>5. workState[w] \in {"running", "cancel_requested", "unknown", "failed"}
    BY <2>1, <2>3 DEF SoleInv, NoOrphanJob
  <2> QED BY <2>1, <2>3, <2>4, <2>5 DEF Allowed
<1> QED BY <1>1, <1>2 DEF NoOrphanJob

(* A lease that carries no attempt stays the lease of free work.           *)
LEMMA UnusedStays ==
    ASSUME SoleInv, Steady, LeasesEnd(lease'), HarmStays
    PROVE  \A l \in Unused' : lease'[l].state = "active" => Free(lease[l].work)'
<1>1. \A a \in AttemptIds : attempt'[a].lease = attempt[a].lease
  BY DEF Steady, AttemptKept, SameIdentity
<1>2. ASSUME NEW l \in Unused', lease'[l].state = "active" PROVE Free(lease[l].work)'
  <2>1. l \in LeaseIds /\ lease'[l].work = lease[l].work /\ lease[l].state = "active"
    BY <1>2 DEF Unused, LeasesEnd
  <2>2. LeaseAttempts(l)' = LeaseAttempts(l)
    BY <1>1 DEF LeaseAttempts
  <2>3. Free(lease[l].work)
    BY <2>1, <2>2 DEF Unused, SoleInv, FreeInv
  <2>4. PICK w : w = lease[l].work
    OBVIOUS
  <2>5. Free(w)'
    BY <2>3, <2>4, FreeStays
  <2> QED BY <2>1, <2>4, <2>5 DEF Free
<1> QED BY <1>2

(* An attempt is under an active lease after a step only if it was before. *)
LEMMA ActiveBefore ==
    ASSUME SoleInv, Steady, LeasesEnd(lease'), NEW a \in Existing, IsActive(a)' PROVE IsActive(a)
<1>1. a \in AttemptIds /\ attempt[a].lease \in LeaseIds
  BY DEF SoleInv, SchedulerInv, RowInv, Existing
<1>2. attempt'[a].lease = attempt[a].lease
  BY <1>1 DEF Steady, AttemptKept, SameIdentity
<1> QED BY <1>1, <1>2 DEF IsActive, LeasesEnd

(* Such steps keep the histories, the freedom of queued work and the       *)
(* account of running jobs.                                                *)
LEMMA QuietKeeps ==
    ASSUME SoleInv, Steady, LeasesEnd(lease'), HarmStays, JobsStay, FailuresKept,
           \A w \in Work : Allowed(w)
    PROVE  HistoryInv' /\ FreeInv' /\ OwnerInv' /\ NoOrphanJob'
<1>1. OwnerInv'
  BY DEF SoleInv, OwnerInv, LeasesEnd
<1>2. HistoryInv'
  BY ActiveBefore, HistoryStays
<1> QED BY <1>1, <1>2, UnusedStays, AllowedKeeps DEF FreeInv

-----------------------------------------------------------------------------
(* Steps of the dispatching process.                                       *)

(* The label sets are disjoint.                                            *)
LEMMA Phases ==
    /\ Resting \cap Preparing = {} /\ Resting \cap Working = {} /\ Preparing \cap Working = {}
    /\ Starting \subseteq Preparing /\ Recording \subseteq Working /\ Settling \subseteq Resting
    /\ Resting \cap Handling = {} /\ Preparing \cap Handling = {}
BY DEF Resting, Preparing, Working, Recording, Settling, Starting, Handling

(* A process with nothing in hand has no duties.                           *)
LEMMA EmptyDuty ==
    ASSUME NEW r, r.pend = {}, r.done = {}, r.batch = {},
           r.pc \in {"idle", "lease", "unknown_list", "reconcile"}
    PROVE  Duty(r) /\ Duty(r)'
<1>1. /\ r.pc \notin Starting /\ r.pc \notin Recording /\ r.pc \notin Reporting /\ r.pc \notin Settling
      /\ r.pc \in Resting \cup Preparing /\ (r.pc \in Preparing => r.pc = "lease")
      /\ r.pc \notin {"work_running", "retry", "requeue", "release", "settle_requeue",
                      "trial_running", "attempt_running", "write_attempt", "write_trial",
                      "write_work", "settle_attempt", "settle_trial", "settle_work", "settle_retry"}
  BY DEF Starting, Recording, Reporting, Settling, Resting, Preparing
<1>2. Busy(r) = {} /\ Busy(r)' = {}
  BY <1>1 DEF Busy
<1>3. BatchDuty(r) /\ BusyDuty(r) /\ HandDuty(r) /\ PhaseDuty(r) /\ WorkDuty(r) /\ ResultDuty(r)
  BY <1>1, <1>2 DEF BatchDuty, BusyDuty, HandDuty, PhaseDuty, WorkDuty, ResultDuty
<1>4. BatchDuty(r)' /\ BusyDuty(r)' /\ HandDuty(r)' /\ PhaseDuty(r)' /\ WorkDuty(r)' /\ ResultDuty(r)'
  BY <1>1, <1>2 DEF BatchDuty, BusyDuty, HandDuty, PhaseDuty, WorkDuty, ResultDuty
<1> QED BY <1>3, <1>4 DEF Duty

(* An idle process has nothing in hand.                                    *)
LEMMA IdleEmpty ==
    ASSUME SoleInv, NEW q \in Procs, proc[q].pc = "idle"
    PROVE  proc[q].pend = {} /\ proc[q].done = {} /\ proc[q].batch = {}
<1>1. Good(proc[q]) /\ Duty(proc[q])
  BY DEF SoleInv, SchedulerInv, ProcInv, DutyInv
<1>2. "idle" \notin Handling /\ "idle" \in Resting /\ "idle" \notin Preparing
  BY Phases DEF Resting
<1> QED BY <1>1, <1>2 DEF Good, Fits, Duty, PhaseDuty

(* The duties of a record that a process has.                              *)
LEMMA DutyOf == ASSUME NEW q, NEW r, r = proc'[q], Duty(r)' PROVE Duty(proc[q])'
BY DEF Duty, BatchDuty, BusyDuty, Busy, HandDuty, PhaseDuty, WorkDuty, ResultDuty

(* The invariant after a step of p, when every other process is idle.      *)
LEMMA DutiesKept ==
    ASSUME SoleInv, NEW p \in Procs, Dispatches(p), \A q \in Procs \ {p} : proc[q].pc = "idle",
           NEW r, NEW n, r = proc[p], n = proc'[p], proc' = [proc EXCEPT ![p] = n], Duty(n)'
    PROVE  DutyInv'
<1>1. \A q \in Procs \ {p} : proc'[q] = proc[q]
  BY DEF SoleInv, SchedulerInv, SchedulerTypeOK
<1>2. ASSUME NEW q \in Procs \ {p} PROVE Duty(proc[q])' /\ proc'[q].pc = "idle"
  <2>1. PICK s : s = proc[q]
    OBVIOUS
  <2>2. Duty(s)'
    BY <2>1, IdleEmpty, EmptyDuty
  <2> QED BY <1>1, <2>1, <2>2, DutyOf
<1>3. Duty(proc[p])'
  BY DutyOf
<1> QED BY <1>2, <1>3 DEF DutyInv

(* What a step of p that leaves workers and jobs alone has to show.        *)
Plain(p, n) ==
    /\ QuietCall /\ UNCHANGED <<worker, job>>
    /\ n = proc'[p] /\ proc' = [proc EXCEPT ![p] = n]
    /\ \A a \in proc[p].pend : worker[a] \in Alive => a \in n.pend

(* Such a step keeps the invariant.                                        *)
LEMMA PlainKeeps ==
    ASSUME SoleInv, SchedulerInv', NEW p \in Procs, Dispatches(p),
           \A q \in Procs \ {p} : proc[q].pc = "idle",
           NEW n, Plain(p, n), Duty(n)', FailuresKept, \A w \in Work : Allowed(w)
    PROVE  SoleInv'
<1>1. StoreTypeOK
  BY DEF SoleInv, SchedulerInv, SchedulerTypeOK
<1>2. Steady /\ LeasesEnd(lease') /\ SubmissionsLast
  BY <1>1, QuietLeases, QuietAttempts, SubmissionsStay DEF Plain, StoreCall
<1>3. HarmStays /\ JobsStay
  BY DEF Plain, HarmStays, JobsStay, Harmless
<1>4. HistoryInv' /\ FreeInv' /\ OwnerInv' /\ NoOrphanJob'
  BY <1>2, <1>3, QuietKeeps
<1>5. DutyInv'
  <2>1. PICK r : r = proc[p]
    OBVIOUS
  <2> QED BY <2>1, DutiesKept DEF Plain
<1>6. ASSUME NEW a \in AttemptIds, worker'[a] \in Alive PROVE \E q \in Procs : a \in proc'[q].pend
  <2>1. PICK q \in Procs : a \in proc[q].pend
    BY <1>6 DEF Plain, SoleInv, JobInv
  <2>2. q = p
    BY <2>1, IdleEmpty
  <2> QED BY <1>6, <2>1, <2>2 DEF Plain
<1>7. JobInv'
  BY <1>2, <1>6 DEF Plain, SoleInv, JobInv, SubmissionsLast
<1> QED BY <1>4, <1>5, <1>7 DEF SoleInv

-----------------------------------------------------------------------------
(* Two attempts under active leases are for two work items, and so are an  *)
(* attempt and a lease of the batch.                                       *)
LEMMA Apart ==
    ASSUME SoleInv, NEW a \in Existing, NEW b \in Existing, a # b, IsActive(a), IsActive(b)
    PROVE  attempt[a].lease # attempt[b].lease /\ attempt[a].work # attempt[b].work
<1>1. /\ a \in AttemptIds /\ b \in AttemptIds /\ attempt[a].work \in Work /\ attempt[b].work \in Work
      /\ attempt[a].lease \in LeaseIds /\ attempt[b].lease \in LeaseIds
  BY DEF SoleInv, SchedulerInv, RowInv, Existing
<1>2. attempt[a].lease # attempt[b].lease
  BY <1>1, StoreConstants DEF SoleInv, SchedulerInv, OneAttemptPerLease
<1>3. /\ lease[attempt[a].lease].work = attempt[a].work
      /\ lease[attempt[b].lease].work = attempt[b].work
  BY <1>1, StoreConstants DEF SoleInv, SchedulerInv, AttemptIdentity
<1> QED BY <1>1, <1>2, <1>3 DEF SoleInv, SchedulerInv, LeaseExclusive, IsActive, Active

(* The same for an attempt and a lease of the batch.                       *)
LEMMA ApartFromBatch ==
    ASSUME SoleInv, NEW a \in Existing, IsActive(a), NEW l \in Unused, lease[l].state = "active"
    PROVE  attempt[a].lease # l /\ attempt[a].work # lease[l].work
<1>1. a \in AttemptIds /\ attempt[a].lease \in LeaseIds /\ l \in LeaseIds
  BY DEF SoleInv, SchedulerInv, RowInv, Existing, Unused
<1>2. attempt[a].lease # l
  BY <1>1 DEF Unused, LeaseAttempts
<1>3. lease[attempt[a].lease].work = attempt[a].work
  BY <1>1, StoreConstants DEF SoleInv, SchedulerInv, AttemptIdentity
<1> QED BY <1>1, <1>2, <1>3 DEF SoleInv, SchedulerInv, LeaseExclusive, IsActive, Active

(* What a process is busy with exists.                                     *)
LEMMA BusyExists ==
    ASSUME SoleInv, NEW p \in Procs
    PROVE  /\ Busy(proc[p]) \subseteq Existing /\ proc[p].batch \subseteq Unused
           /\ proc[p].pend \cup proc[p].done \subseteq Existing
           /\ proc[p].pc \in Holding => proc[p].cur \in Existing
<1>1. Good(proc[p])
  BY DEF SoleInv, SchedulerInv, ProcInv
<1>2. \A x \in {"trial_running", "attempt_running", "write_attempt", "write_trial", "write_work"} :
         x \in Holding
  BY DEF Holding
<1> QED BY <1>1, <1>2 DEF Good, Fits, Busy

(* What a step leaves of the leases and work items a process has in hand:  *)
(* a cancellation may have been requested.                                 *)
Drifts(w) ==
    \/ workState'[w] = workState[w]
    \/ workState[w] = "queued" /\ workState'[w] = "cancelled"
    \/ workState[w] \in {"leased", "running"} /\ workState'[w] = "cancel_requested"

Holds(l) == lease'[l] = lease[l] /\ Drifts(lease[l].work)

(* The duties towards a batch whose leases and work hold.                  *)
LEMMA BatchStays ==
    ASSUME NEW r, NEW n, BatchDuty(r), n.batch \subseteq r.batch, n.now = r.now,
           \A l \in n.batch : Holds(l)
    PROVE  BatchDuty(n)'
BY DEF BatchDuty, Holds, Drifts

(* The duties towards attempts whose leases and work hold.                 *)
LEMMA BusyStays ==
    ASSUME Steady, NEW r, NEW n, BusyDuty(r), Busy(n) \subseteq Busy(r),
           Busy(n) \subseteq Existing,
           \A a \in Busy(n) : /\ lease'[attempt[a].lease].state = "active"
                              /\ Drifts(attempt[a].work)
    PROVE  BusyDuty(n)'
<1>1. Busy(n)' = Busy(n)
  BY DEF Busy
<1>2. \A a \in Existing : attempt'[a].lease = attempt[a].lease /\ attempt'[a].work = attempt[a].work
  BY DEF Steady, AttemptKept, SameIdentity, Existing
<1> QED BY <1>1, <1>2 DEF BusyDuty, IsActive, WorkStateOf, Drifts

(* A step that leaves the leases alone and lets work items drift.          *)
Drift == Steady /\ UNCHANGED lease /\ \A w \in Work : Drifts(w)

(* A drift keeps both.                                                     *)
LEMMA DriftStays ==
    ASSUME SoleInv, Drift, NEW p \in Procs, NEW r, r = proc[p], NEW n, Duty(r),
           n.batch \subseteq r.batch, n.now = r.now, Busy(n) \subseteq Busy(r)
    PROVE  BatchDuty(n)' /\ BusyDuty(n)'
<1>1. Busy(r) \subseteq Existing /\ r.batch \subseteq Unused
  BY BusyExists
<1>2. \A l \in Unused : lease[l].work \in Work
  BY DEF SoleInv, SchedulerInv, RowInv, Unused
<1>3. \A a \in Existing : attempt[a].work \in Work
  BY DEF SoleInv, SchedulerInv, RowInv, Existing
<1>4. BatchDuty(n)'
  BY <1>1, <1>2, BatchStays DEF Drift, Holds, Duty
<1>5. \A a \in Busy(r) : lease[attempt[a].lease].state = "active"
  BY DEF Duty, BusyDuty, IsActive
<1>6. BusyDuty(n)'
  BY <1>1, <1>3, <1>5, BusyStays DEF Drift, Duty
<1> QED BY <1>4, <1>6

(* A step that touches only the attempt c, its lease and its work item.    *)
Touches(c) ==
    /\ Steady
    /\ \A l \in LeaseIds \ {attempt[c].lease} : lease'[l] = lease[l]
    /\ \A w \in Work \ {attempt[c].work} : workState'[w] = workState[w]

(* Such a step keeps both for the other attempts.                          *)
LEMMA TouchStays ==
    ASSUME SoleInv, NEW p \in Procs, NEW r, r = proc[p], NEW n, Duty(r),
           NEW c \in Existing, IsActive(c), Touches(c),
           n.batch \subseteq r.batch, n.now = r.now, Busy(n) \subseteq Busy(r) \ {c}
    PROVE  BatchDuty(n)' /\ BusyDuty(n)'
<1>1. Busy(r) \subseteq Existing /\ r.batch \subseteq Unused
  BY BusyExists
<1>2. ASSUME NEW l \in r.batch PROVE Holds(l)
  <2>1. lease[l].state = "active" /\ l \in LeaseIds /\ lease[l].work \in Work
    BY <1>1 DEF Duty, BatchDuty, Unused, SoleInv, SchedulerInv, RowInv
  <2> QED BY <1>1, <2>1, ApartFromBatch DEF Touches, Holds, Drifts
<1>3. ASSUME NEW a \in Busy(r) \ {c}
      PROVE  lease'[attempt[a].lease].state = "active" /\ Drifts(attempt[a].work)
  <2>1. IsActive(a) /\ attempt[a].lease \in LeaseIds /\ attempt[a].work \in Work
    BY <1>1 DEF Duty, BusyDuty, SoleInv, SchedulerInv, RowInv, Existing
  <2>2. attempt[a].lease # attempt[c].lease /\ attempt[a].work # attempt[c].work
    BY <1>1, <2>1, Apart
  <2> QED BY <2>1, <2>2 DEF Touches, Drifts, IsActive
<1>4. BatchDuty(n)'
  BY <1>2, BatchStays DEF Duty
<1>5. BusyDuty(n)'
  <2>1. \A a \in Busy(n) : lease'[attempt[a].lease].state = "active" /\ Drifts(attempt[a].work)
    BY <1>3
  <2> QED BY <1>1, <2>1, BusyStays DEF Duty, Touches
<1> QED BY <1>4, <1>5

-----------------------------------------------------------------------------
(* Only the dispatching process takes steps, but for the request of a      *)
(* cancellation.                                                           *)
LEMMA OthersIdle ==
    ASSUME SoleDispatcher, SoleInv, NEW p \in Procs, ProcStep(p), ~Cancel(p)
    PROVE  Dispatches(p) /\ \A q \in Procs \ {p} : proc[q].pc = "idle"
<1>1. ASSUME proc[p].pc = "idle" PROVE Dispatches(p)
  <2>1. ~Dispatch(p)
    BY <1>1 DEF Dispatch, LeaseOne, LeaseNone, LeaseRefused, ListRuns, MarkRun, MarkPlan,
       CreateNext, CreateRefused, WorkRunning, TrialRunning, AttemptRunning, Wake, HandleDone,
       ReleaseQuietly, WriteAttempt, WriteTrial, WriteWork, RetryCheck, Requeue, RequeueRefused,
       Abort, Release, ReleaseRefused, UnknownTrial, UnknownWork, CompletePlan, HandleEnd, Renew,
       RenewEnd, At
  <2>2. ~Reconcile(p)
    BY <1>1 DEF Reconcile, UnknownList, ReconcileItem, SettleAttempt, SettleTrial, SettleWork,
       SettleRetry, SettleRequeue, SettlePlan, ReconcileEnd, At
  <2>3. ~CancelActive(p)
    BY <1>1 DEF CancelActive, CancelList, CancelSkip, CancelItem, CancelAttempt, CancelWork,
       CancelTrial, CancelComplete, CancelRelease, CancelEnd, At
  <2>4. StartRun(p) \/ ResumeRun(p)
    BY <1>1, <2>1, <2>2, <2>3 DEF ProcStep, Command, Crash, At
  <2>5. StartRun(p) => "start" \in Commands[p]
    BY DEF StartRun
  <2>6. ResumeRun(p) => "resume" \in Commands[p]
    BY DEF ResumeRun
  <2> QED BY <2>4, <2>5, <2>6 DEF Dispatches
<1>2. Dispatches(p)
  BY <1>1 DEF SoleInv, DutyInv
<1> QED BY <1>2 DEF SoleDispatcher, SoleInv, DutyInv

(* What is known of the record r of process p.                             *)
Ours(p, r) ==
    /\ r \in ProcRecords /\ r = proc[p] /\ Good(r) /\ Duty(r)
    /\ Dispatches(p) /\ \A q \in Procs \ {p} : proc[q].pc = "idle"

(* Whoever takes a step has such a record.                                 *)
LEMMA OursExists ==
    ASSUME SoleDispatcher, SoleInv, NEW p \in Procs, ProcStep(p), ~Cancel(p)
    PROVE  \E r : Ours(p, r)
<1>1. proc[p] \in ProcRecords /\ Good(proc[p]) /\ Duty(proc[p])
  BY DEF SoleInv, SchedulerInv, SchedulerTypeOK, ProcInv, DutyInv
<1> QED BY <1>1, OthersIdle DEF Ours

(* A record that differs from r in its label only.                         *)
Moved(p, r, n, x) ==
    /\ n = proc'[p] /\ proc' = [proc EXCEPT ![p] = n]
    /\ n.pc = x /\ n.cur = r.cur /\ n.pend = r.pend /\ n.done = r.done /\ n.batch = r.batch
    /\ n.now = r.now /\ n.res = r.res

(* Goto(p, x) gives p such a record.                                       *)
LEMMA GotoMoved ==
    ASSUME SoleInv, NEW p \in Procs, NEW r, Ours(p, r), NEW x, Goto(p, x)
    PROVE  \E n : Moved(p, r, n, x)
<1>1. PICK n : n = [r EXCEPT !.pc = x]
  OBVIOUS
<1>2. r \in ProcRecords /\ r = proc[p]
  BY DEF Ours
<1>3. /\ n.pc = x /\ n.cur = r.cur /\ n.pend = r.pend /\ n.done = r.done /\ n.batch = r.batch
      /\ n.now = r.now /\ n.res = r.res
  BY <1>1, <1>2 DEF ProcRecords
<1>4. proc' = [proc EXCEPT ![p] = n]
  BY <1>1, <1>2 DEF Goto
<1>5. n = proc'[p]
  BY <1>4 DEF SoleInv, SchedulerInv, SchedulerTypeOK
<1> QED BY <1>3, <1>4, <1>5 DEF Moved

(* Steps that touch none of the tables the duties are about.               *)
Aside == UNCHANGED <<workState, lease, attempt, worker, job>>

(* They keep the duties ...                                                *)
LEMMA DutyAside == ASSUME NEW n, Duty(n), Aside PROVE Duty(n)'
BY DEF Aside, Duty, BatchDuty, BusyDuty, Busy, HandDuty, PhaseDuty, WorkDuty, ResultDuty,
       IsActive, WorkStateOf, Free, Harmless, IsLast

(* ... and the invariant.                                                  *)
LEMMA AsideKeeps ==
    ASSUME SoleInv, SchedulerInv', NEW p \in Procs, NEW r, Ours(p, r), NEW n, QuietCall, Aside,
           n = proc'[p], proc' = [proc EXCEPT ![p] = n], Duty(n),
           \A a \in r.pend : worker[a] \in Alive => a \in n.pend
    PROVE  SoleInv'
<1>1. Duty(n)'
  BY DutyAside
<1>2. FailuresKept /\ \A w \in Work : Allowed(w)
  BY DEF Aside, FailuresKept, Allowed
<1>3. Plain(p, n)
  BY DEF Plain, Ours, Aside
<1> QED BY <1>1, <1>2, <1>3, PlainKeeps DEF Ours

-----------------------------------------------------------------------------
(* A process that rests has nothing in hand ...                            *)
LEMMA RestingEmpty ==
    ASSUME NEW p, NEW r, Ours(p, r), r.pc \in Resting
    PROVE  r.pend = {} /\ r.done = {} /\ r.batch = {}
<1>1. r.pc \notin Preparing /\ r.pc \notin Handling
  BY Phases
<1> QED BY <1>1 DEF Ours, Good, Fits, Duty, PhaseDuty

(* ... and owes only what it knows of the attempt it settles.              *)
LEMMA RestDuty ==
    ASSUME NEW n, n.pend = {}, n.done = {}, n.batch = {}, n.pc \in Resting
    PROVE  /\ BatchDuty(n) /\ BusyDuty(n) /\ HandDuty(n) /\ PhaseDuty(n)
           /\ BatchDuty(n)' /\ BusyDuty(n)' /\ HandDuty(n)' /\ PhaseDuty(n)'
<1>1. /\ n.pc \notin Starting /\ n.pc \notin Recording /\ n.pc \notin Preparing
      /\ n.pc \notin {"trial_running", "attempt_running", "write_attempt", "write_trial", "write_work"}
  BY DEF Starting, Recording, Resting, Preparing, Settling
<1>2. Busy(n) = {} /\ Busy(n)' = {}
  BY <1>1 DEF Busy
<1> QED BY <1>1, <1>2 DEF BatchDuty, BusyDuty, HandDuty, PhaseDuty

(* The new record of p.                                                    *)
LEMMA Lands ==
    ASSUME SoleInv, NEW p \in Procs, NEW n, proc' = [proc EXCEPT ![p] = n] PROVE n = proc'[p]
BY DEF SoleInv, SchedulerInv, SchedulerTypeOK

(* Steps after which p has nothing in hand.                                *)
LEMMA EmptyKeeps ==
    ASSUME SoleInv, SchedulerInv', NEW p \in Procs, NEW r, Ours(p, r), NEW n, QuietCall,
           UNCHANGED <<worker, job>>, proc' = [proc EXCEPT ![p] = n],
           n.pend = {}, n.done = {}, n.batch = {},
           n.pc \in {"idle", "lease", "unknown_list", "reconcile"},
           \A a \in r.pend : worker[a] \notin Alive,
           FailuresKept, \A w \in Work : Allowed(w)
    PROVE  SoleInv'
<1>1. Duty(n)'
  BY EmptyDuty
<1>2. Plain(p, n)
  BY Lands DEF Plain, Ours
<1> QED BY <1>1, <1>2, PlainKeeps DEF Ours

(* Steps of a reconciliation that leave it resting.                        *)
LEMMA RestKeeps ==
    ASSUME SoleInv, SchedulerInv', NEW p \in Procs, NEW r, Ours(p, r), r.pc \in Resting, NEW n,
           QuietCall, UNCHANGED <<worker, job>>, proc' = [proc EXCEPT ![p] = n],
           n.pend = {}, n.done = {}, n.batch = {}, n.pc \in Resting,
           WorkDuty(n)', ResultDuty(n)', FailuresKept, \A w \in Work : Allowed(w)
    PROVE  SoleInv'
<1>1. Duty(n)'
  BY RestDuty DEF Duty
<1>2. Plain(p, n)
  BY Lands, RestingEmpty DEF Plain, Ours
<1> QED BY <1>1, <1>2, PlainKeeps DEF Ours

-----------------------------------------------------------------------------
(* An expiry queues only work that was never attempted under its lease.    *)
LEMMA ExpiredFree ==
    ASSUME SoleInv, NEW D \in SUBSET Active(lease), NEW w \in Work
    PROVE  ExpiredWork(D)[w] \in {workState[w], "unknown"} \/ (ExpiredWork(D)[w] = "queued" /\ Free(w))
<1>1. ExpiredWork(D)[w] \in {workState[w], "unknown", "queued"}
  BY DEF ExpiredWork
<1>2. ASSUME ExpiredWork(D)[w] = "queued", workState[w] # "queued" PROVE Free(w)
  <2>1. PICK l \in D : lease[l].work = w /\ LeaseAttempts(l) = {}
    BY <1>2 DEF ExpiredWork
  <2>2. l \in Unused /\ lease[l].state = "active"
    BY <2>1 DEF Unused, Active
  <2> QED BY <2>1, <2>2 DEF SoleInv, FreeInv
<1> QED BY <1>1, <1>2

(* Nor does it record a failure that may be retried.                       *)
LEMMA ExpiredFailures ==
    ASSUME SoleInv, NEW D, attempt' = ExpiredAttempts(D) PROVE FailuresKept
<1>1. ASSUME NEW a \in AttemptIds PROVE attempt'[a].failure \in {attempt[a].failure, "unknown"}
  <2>1. PICK row \in AttemptRows : row = attempt[a]
    BY DEF SoleInv, SchedulerInv, SchedulerTypeOK, StoreTypeOK
  <2>2. [row EXCEPT !.state = "unknown", !.failure = "unknown", !.recon = "pending"].failure = "unknown"
    BY DEF AttemptRows
  <2> QED BY <2>1, <2>2 DEF ExpiredAttempts
<1> QED BY <1>1 DEF FailuresKept

(* So it is allowed.                                                       *)
LEMMA ExpiryAllowed ==
    ASSUME SoleInv, NEW D \in SUBSET Active(lease),
           workState' = ExpiredWork(D), attempt' = ExpiredAttempts(D)
    PROVE  FailuresKept /\ \A w \in Work : Allowed(w)
BY ExpiredFree, ExpiredFailures DEF Allowed

(* A last attempt that is harmless leaves its work item free, and one      *)
(* whose job is over leaves no job running.                                *)
LEMMA FreeAfter ==
    ASSUME SoleInv, NEW c \in Existing, IsLast(c)
    PROVE  /\ Harmless(c) /\ (\E f : MayRetry(attempt[c].work, f)) => Free(attempt[c].work)
           /\ job[c] # "running" =>
                 \A a \in AttemptIds : attempt[a].work = attempt[c].work => job[a] # "running"
<1>1. c \in AttemptIds /\ attempt[c].work \in Work /\ attempt[c].work # None
  BY StoreConstants DEF SoleInv, SchedulerInv, RowInv, Existing
<1>2. ASSUME NEW a \in AttemptIds, attempt[a].work = attempt[c].work, a # c PROVE Harmless(a)
  <2>1. a \in Existing
    BY <1>1, <1>2 DEF SoleInv, SchedulerInv, RowInv
  <2>2. attempt[a].number # attempt[c].number /\ attempt[a].number <= attempt[c].number
    BY <1>1, <1>2 DEF SoleInv, SchedulerInv, AttemptIdentity, IsLast
  <2>3. attempt[a].number \in Nat /\ attempt[c].number \in Nat
    BY <1>1 DEF SoleInv, SchedulerInv, SchedulerTypeOK, StoreTypeOK, AttemptRows
  <2>4. attempt[a].number < attempt[c].number
    BY <2>2, <2>3
  <2> QED BY <1>2, <2>1, <2>4 DEF SoleInv, HistoryInv
<1>3. ASSUME NEW f, MayRetry(attempt[c].work, f), NEW a \in AttemptIds, attempt[a].work = attempt[c].work
      PROVE  attempt[a].retry + 1 < MaxAttempts
  BY <1>3 DEF MayRetry, AttemptsOf
<1> QED BY <1>2, <1>3 DEF Free, Harmless

-----------------------------------------------------------------------------
(* Steps that touch no table of interest are quiet and allowed.            *)
LEMMA AsideAllowed == ASSUME Aside PROVE FailuresKept /\ \A w \in Work : Allowed(w)
BY DEF Aside, FailuresKept, Allowed

(* Starting and resuming a run.                                            *)
LEMMA CommandKeeps ==
    ASSUME SoleInv, SchedulerInv', NEW p \in Procs, NEW r, Ours(p, r), StartRun(p) \/ ResumeRun(p)
    PROVE  SoleInv'
<1>1. r.pc = "idle" /\ r = proc[p] /\ r \in ProcRecords
  BY DEF StartRun, ResumeRun, At, Ours
<1>2. r.pend = {} /\ r.done = {} /\ r.batch = {}
  BY <1>1, RestingEmpty DEF Resting
<1>3. CASE StartRun(p)
  <2>1. PICK n : n = BeginDispatch(p, [IdleProc EXCEPT !.now = clock])
    OBVIOUS
  <2>2. n.pc = "lease" /\ n.pend = {} /\ n.done = {} /\ n.batch = {}
    BY <2>1 DEF BeginDispatch, IdleProc
  <2>3. proc' = [proc EXCEPT ![p] = n] /\ UNCHANGED storeVars /\ UNCHANGED <<worker, job>>
    BY <1>3, <2>1 DEF StartRun, NoStoreCall
  <2>4. QuietCall /\ Aside
    BY <2>3 DEF QuietCall, Aside, storeVars
  <2> QED BY <1>2, <2>2, <2>3, <2>4, AsideAllowed, EmptyKeeps
<1>4. CASE ResumeRun(p)
  <2>1. PICK n : n = [r EXCEPT !.pc = "unknown_list", !.now = clock, !.ready = ~started[RunServed[p]]]
    OBVIOUS
  <2>2. n.pc = "unknown_list" /\ n.pend = {} /\ n.done = {} /\ n.batch = {}
    BY <1>1, <1>2, <2>1 DEF ProcRecords
  <2>3. proc' = [proc EXCEPT ![p] = n] /\ UNCHANGED <<worker, job>>
    BY <1>1, <1>4, <2>1 DEF ResumeRun, OnlyProc
  <2>4. PICK W, t : ExpireLeases(W, t)
    BY <1>4 DEF ResumeRun
  <2>5. QuietCall
    BY <2>4 DEF QuietCall
  <2>6. Due(W, t) \in SUBSET Active(lease)
    BY DEF Due
  <2>7. FailuresKept /\ \A w \in Work : Allowed(w)
    BY <2>4, <2>6, ExpiryAllowed DEF ExpireLeases
  <2> QED BY <1>2, <2>2, <2>3, <2>5, <2>7, EmptyKeeps
<1> QED BY <1>3, <1>4

(* Listing the unknown work, passing over an item, completing a plan and   *)
(* ending the reconciliation.                                              *)
LEMMA ListingKeeps ==
    ASSUME SoleInv, SchedulerInv', NEW p \in Procs, NEW r, Ours(p, r),
           UnknownList(p) \/ SettlePlan(p) \/ ReconcileEnd(p)
    PROVE  SoleInv'
<1>1. r = proc[p] /\ r \in ProcRecords /\ r.pc \in {"unknown_list", "settle_plan", "reconcile"}
  BY DEF UnknownList, SettlePlan, ReconcileEnd, At, Ours
<1>2. r.pend = {} /\ r.done = {} /\ r.batch = {}
  BY <1>1, RestingEmpty DEF Resting, Settling
<1>3. CASE UnknownList(p)
  <2>1. PICK n : n = [r EXCEPT !.pc = "reconcile",
                         !.todo = {w \in WorkOfRun(RunServed[p]) : workState[w] = "unknown"}]
    OBVIOUS
  <2>2. n.pc = "reconcile" /\ n.pend = {} /\ n.done = {} /\ n.batch = {}
    BY <1>1, <1>2, <2>1 DEF ProcRecords
  <2>3. proc' = [proc EXCEPT ![p] = n] /\ UNCHANGED storeVars /\ UNCHANGED <<worker, job>>
    BY <1>1, <1>3, <2>1 DEF UnknownList, NoStoreCall, OnlyProc
  <2>4. QuietCall /\ Aside
    BY <2>3 DEF QuietCall, Aside, storeVars
  <2> QED BY <1>2, <2>2, <2>3, <2>4, AsideAllowed, EmptyKeeps
<1>4. CASE SettlePlan(p)
  <2>1. PICK n : n = [r EXCEPT !.pc = "reconcile", !.cur = None, !.res = NoResult]
    OBVIOUS
  <2>2. n.pc = "reconcile" /\ n.pend = {} /\ n.done = {} /\ n.batch = {}
    BY <1>1, <1>2, <2>1 DEF ProcRecords
  <2>3. /\ proc' = [proc EXCEPT ![p] = n] /\ CompletePlanIfTerminal(PlanOf[CurWork(p)])
        /\ UNCHANGED <<worker, job>> /\ r.pc = "settle_plan"
    BY <1>1, <1>4, <2>1 DEF SettlePlan, OnlyProc, At
  <2>4. PlanOf[CurWork(p)] \in Plans
    BY <1>1, <2>3, InHand DEF SoleInv, Holding, Settling
  <2>5. QuietCall /\ Aside
    BY <2>3, <2>4 DEF QuietCall, Aside, CompletePlanIfTerminal
  <2> QED BY <1>2, <2>2, <2>3, <2>5, AsideAllowed, EmptyKeeps
<1>5. CASE ReconcileEnd(p)
  <2>1. \E n : /\ n.pc \in {"idle", "lease"} /\ n.pend = {} /\ n.done = {} /\ n.batch = {}
               /\ proc' = [proc EXCEPT ![p] = n]
    <3>1. CASE Quit(p)
      BY <3>1 DEF Quit, IdleProc
    <3>2. CASE proc' = [proc EXCEPT ![p] = BeginDispatch(p, r)]
      <4>1. PICK n : n = BeginDispatch(p, r)
        OBVIOUS
      <4>2. n.pc = "lease" /\ n.pend = {} /\ n.done = {} /\ n.batch = {}
        BY <1>1, <1>2, <4>1 DEF ProcRecords, BeginDispatch
      <4> QED BY <3>2, <4>1, <4>2
    <3> QED BY <1>1, <1>5, <3>1, <3>2 DEF ReconcileEnd
  <2>2. UNCHANGED storeVars /\ UNCHANGED <<worker, job>>
    BY <1>5 DEF ReconcileEnd, NoStoreCall
  <2>3. QuietCall /\ Aside
    BY <2>2 DEF QuietCall, Aside, storeVars
  <2> QED BY <1>2, <2>1, <2>2, <2>3, AsideAllowed, EmptyKeeps
<1> QED BY <1>3, <1>4, <1>5

-----------------------------------------------------------------------------
(* What transition_attempt leaves in the failure and reconciliation        *)
(* columns.                                                                *)
Columns(a, s, f, rc) ==
    /\ attempt'[a].failure = IF s \in {"succeeded", "cancelled"} THEN None
                             ELSE IF f = None THEN attempt[a].failure ELSE f
    /\ attempt'[a].recon = IF rc = None THEN attempt[a].recon ELSE rc
    /\ \A b \in AttemptIds \ {a} : attempt'[b] = attempt[b]
    /\ UNCHANGED <<workState, lease>>

(* So does WriteOutcome.                                                   *)
LEMMA OutcomeColumns ==
    ASSUME SoleInv, NEW a \in AttemptIds, NEW s, NEW f, NEW rc, NEW sub,
           TransitionAttempt(a, s, f, rc) \/ WriteOutcome(a, s, f, rc, sub)
    PROVE  Columns(a, s, f, rc)
<1>1. PICK row \in AttemptRows : row = attempt[a]
  BY DEF SoleInv, SchedulerInv, SchedulerTypeOK, StoreTypeOK
<1>2. PICK g : g = IF s \in {"succeeded", "cancelled"} THEN None
                   ELSE IF f = None THEN attempt[a].failure ELSE f
  OBVIOUS
<1>3. PICK q : q = IF rc = None THEN attempt[a].recon ELSE rc
  OBVIOUS
<1>4. PICK new : new = [row EXCEPT !.state = s, !.failure = g, !.recon = q]
  OBVIOUS
<1>5. new.failure = g /\ new.recon = q
  BY <1>1, <1>4 DEF AttemptRows
<1>6. attempt' = [attempt EXCEPT ![a] = new] /\ UNCHANGED <<workState, lease>>
  BY <1>1, <1>2, <1>3, <1>4 DEF TransitionAttempt, WriteOutcome
<1>7. attempt'[a] = new /\ \A b \in AttemptIds \ {a} : attempt'[b] = attempt[b]
  BY <1>6 DEF SoleInv, SchedulerInv, SchedulerTypeOK, StoreTypeOK
<1> QED BY <1>2, <1>3, <1>5, <1>6, <1>7 DEF Columns

(* Recording an outcome that leaves nothing behind when it may be retried. *)
LEMMA OutcomeFailures ==
    ASSUME NEW a \in AttemptIds, NEW s, NEW f, NEW rc, Columns(a, s, f, rc),
           f = "infrastructure" => Harmless(a)
    PROVE  FailuresKept /\ \A w \in Work : Allowed(w)
<1>1. None # "infrastructure"
  BY StoreConstants DEF Failures
<1>2. FailuresKept
  BY <1>1 DEF FailuresKept, Columns
<1> QED BY <1>2 DEF Allowed, Columns

(* What a step leaves of the last attempt of a work item.                  *)
LEMMA LastStays == ASSUME Steady, NEW c \in AttemptIds, IsLast(c) PROVE IsLast(c)'
<1>1. \A a \in AttemptIds : attempt'[a].work = attempt[a].work /\ attempt'[a].number = attempt[a].number
  BY DEF Steady, AttemptKept, SameIdentity
<1> QED BY <1>1 DEF IsLast

(* What reconcile_unknown reads from the provider.                         *)
LEMMA ReconciledTruth ==
    ASSUME SoleInv, NEW a \in AttemptIds, NEW res \in Reconciled(a)
    PROVE  /\ res.failure = "infrastructure" => Harmless(a)
           /\ res.state = "succeeded" => job[a] = "succeeded"
           /\ res.retry => res.state = "failed"
           /\ res.state # "cancelled" /\ res.recon = "reconciled"
<1>1. None # "infrastructure"
  BY StoreConstants DEF Failures
<1>2. \/ job[a] = "succeeded" /\ res = Result("succeeded", None, "reconciled", FALSE)
      \/ /\ job[a] = "failed"
         /\ res \in {Result("failed", "final", "reconciled", FALSE),
                    Result("failed", "infrastructure", "reconciled", TRUE)}
  <2>1. CASE ~Reconcilable(a)
    BY <2>1 DEF Reconciled
  <2>2. CASE Reconcilable(a) /\ job[a] = "succeeded"
    BY <2>2 DEF Reconciled
  <2>3. CASE Reconcilable(a) /\ job[a] = "failed"
    BY <2>3 DEF Reconciled
  <2>4. CASE Reconcilable(a) /\ job[a] # "succeeded" /\ job[a] # "failed"
    BY <2>4 DEF Reconciled
  <2> QED BY <2>1, <2>2, <2>3, <2>4
<1>3. job[a] = "failed" => Harmless(a)
  BY DEF SoleInv, JobInv, Harmless
<1> QED BY <1>1, <1>2, <1>3 DEF Result

(* Taking up an unknown work item.                                         *)
LEMMA ReconcileKeeps ==
    ASSUME SoleInv, SchedulerInv', NEW p \in Procs, NEW r, Ours(p, r), ReconcileItem(p)
    PROVE  SoleInv'
<1>0. r = proc[p] /\ r \in ProcRecords
  BY DEF Ours
<1>1. r = proc[p] /\ r \in ProcRecords /\ r.pc = "reconcile" /\ r.todo \subseteq Work
  BY DEF ReconcileItem, At, Ours, Good, Fits, Listing
<1>2. r.pend = {} /\ r.done = {} /\ r.batch = {} /\ r.pc \in Resting
  BY <1>1, RestingEmpty DEF Resting
<1>3. QuietCall /\ UNCHANGED <<worker, job>>
  BY ReconcileMoves DEF SoleInv, QuietMove, ReconcileItem, OnlyProc
<1>4. PICK w \in r.todo :
        \/ proc' = [proc EXCEPT ![p].todo = @ \ {w}] /\ NoStoreCall
        \/ \E a \in AttemptIds :
              /\ IsLatestAttempt(a, w)
              /\ \E res \in Reconciled(a) :
                    /\ WriteOutcome(a, res.state, None, None,
                                    IF res.state = "succeeded" THEN "completed" ELSE "failed")
                    /\ proc' = [proc EXCEPT ![p].todo = @ \ {w}, ![p].cur = a, ![p].res = res,
                                            ![p].pc = "settle_attempt"]
  BY <1>0 DEF ReconcileItem
<1>5. CASE proc' = [proc EXCEPT ![p].todo = @ \ {w}] /\ NoStoreCall
  <2>1. PICK n : n = [r EXCEPT !.todo = r.todo \ {w}]
    OBVIOUS
  <2>2. n.pc = "reconcile" /\ n.pend = {} /\ n.done = {} /\ n.batch = {}
    BY <1>1, <1>2, <2>1 DEF ProcRecords
  <2>3. proc' = [proc EXCEPT ![p] = n]
    BY <1>1, <1>5, <2>1
  <2>4. Aside
    BY <1>3, <1>5 DEF Aside, NoStoreCall, storeVars
  <2> QED BY <1>2, <1>3, <2>2, <2>3, <2>4, AsideAllowed, EmptyKeeps
<1>6. ASSUME NEW a \in AttemptIds, IsLatestAttempt(a, w), NEW res \in Reconciled(a),
             WriteOutcome(a, res.state, None, None,
                          IF res.state = "succeeded" THEN "completed" ELSE "failed"),
             proc' = [proc EXCEPT ![p].todo = @ \ {w}, ![p].cur = a, ![p].res = res,
                                  ![p].pc = "settle_attempt"]
      PROVE  SoleInv'
  <2>1. PICK n : n = [r EXCEPT !.todo = r.todo \ {w}, !.cur = a, !.res = res, !.pc = "settle_attempt"]
    OBVIOUS
  <2>2. /\ n.pc = "settle_attempt" /\ n.pend = {} /\ n.done = {} /\ n.batch = {} /\ n.cur = a
        /\ n.res = res
    BY <1>1, <1>2, <2>1 DEF ProcRecords
  <2>3. proc' = [proc EXCEPT ![p] = n]
    BY <1>1, <1>6, <2>1
  <2>4. None # "infrastructure"
    BY StoreConstants DEF Failures
  <2>5. FailuresKept /\ \A v \in Work : Allowed(v)
    BY <1>6, <2>4, OutcomeColumns, OutcomeFailures
  <2>6. IsLast(a)
    BY <1>6 DEF IsLatestAttempt, IsLast, AttemptsOf
  <2>7. IsLast(a)'
    BY <1>3, <2>6, QuietAttempts, LastStays DEF SoleInv, SchedulerInv, SchedulerTypeOK
  <2>8. WorkDuty(n)'
    BY <2>2 DEF WorkDuty
  <2>9. ResultDuty(n)'
    <3>1. (Harmless(a) => Harmless(a)') /\ job' = job
      BY <1>3 DEF Harmless
    <3> QED BY <2>2, <2>7, <3>1, ReconciledTruth DEF ResultDuty
  <2>10. n.pc \in Resting
    BY <2>2 DEF Resting, Settling
  <2> QED BY <1>2, <1>3, <2>2, <2>3, <2>5, <2>8, <2>9, <2>10, RestKeeps
<1> QED BY <1>4, <1>5, <1>6

(* Writing what the provider said: the attempt and its trial ...           *)
LEMMA SettleRowKeeps ==
    ASSUME SoleInv, SchedulerInv', NEW p \in Procs, NEW r, Ours(p, r),
           SettleAttempt(p) \/ SettleTrial(p)
    PROVE  SoleInv'
<1>1. r = proc[p] /\ r \in ProcRecords /\ r.pc \in {"settle_attempt", "settle_trial"}
  BY DEF SettleAttempt, SettleTrial, At, Ours
<1>2. r.pc \in Settling /\ r.pc \in Resting /\ r.pc \in Reporting /\ r.pc \in Holding
  BY <1>1 DEF Settling, Resting, Reporting, Holding
<1>3. r.pend = {} /\ r.done = {} /\ r.batch = {} /\ ResultDuty(r) /\ r.cur \in Existing
  BY <1>2, RestingEmpty DEF Ours, Duty, Good, Fits
<1>4. QuietCall /\ UNCHANGED <<worker, job>> /\ r.cur \in AttemptIds
  BY <1>3, SettleMoves DEF SoleInv, QuietMove, SettleAttempt, SettleTrial, OnlyProc, Existing
<1>5. PICK x \in {"settle_trial", "settle_work"} :
         Goto(p, x) /\ x = IF r.pc = "settle_attempt" THEN "settle_trial" ELSE "settle_work"
  BY <1>1 DEF SettleAttempt, SettleTrial, At
<1>6. PICK n : Moved(p, r, n, x)
  BY <1>5, GotoMoved
<1>7. IsLast(r.cur)'
  BY <1>2, <1>3, <1>4, QuietAttempts, LastStays DEF ResultDuty, SoleInv, SchedulerInv, SchedulerTypeOK
<1>8. (Harmless(r.cur) => Harmless(r.cur)') /\ job' = job
  BY <1>4 DEF Harmless
<1>9. FailuresKept /\ (\A w \in Work : Allowed(w)) /\ attempt'[r.cur].recon = "reconciled"
  <2>1. CASE SettleAttempt(p)
    <3>1. r.pc = "settle_attempt" /\ r.res.recon = "reconciled"
      BY <1>1, <1>3, <2>1 DEF SettleAttempt, At, ResultDuty
    <3>2. TransitionAttempt(r.cur, r.res.state, r.res.failure, r.res.recon)
      BY <1>1, <2>1 DEF SettleAttempt, Cur
    <3>3. Columns(r.cur, r.res.state, r.res.failure, r.res.recon)
      BY <1>4, <3>2, OutcomeColumns
    <3>4. r.res.failure = "infrastructure" => Harmless(r.cur)
      BY <1>2, <1>3 DEF ResultDuty
    <3>5. None # "reconciled"
      BY StoreConstants DEF Reconciliations
    <3> QED BY <1>4, <3>1, <3>3, <3>4, <3>5, OutcomeFailures DEF Columns
  <2>2. CASE SettleTrial(p)
    <3>1. Aside /\ r.pc = "settle_trial"
      BY <1>1, <1>4, <2>2 DEF SettleTrial, UpdatePlannedTrial, Aside, At
    <3>2. attempt[r.cur].recon = "reconciled"
      BY <1>3, <3>1 DEF ResultDuty
    <3> QED BY <3>1, <3>2, AsideAllowed DEF Aside
  <2> QED BY <2>1, <2>2
<1>10. n.pc \in Reporting /\ n.pc \in Resting /\ n.pc \notin {"settle_attempt", "retry", "requeue",
          "settle_requeue", "release", "work_running"} /\ n.cur = r.cur /\ n.res = r.res
  BY <1>6 DEF Reporting, Resting, Settling, Moved
<1>11. WorkDuty(n)'
  BY <1>10 DEF WorkDuty
<1>12. ResultDuty(n)'
  BY <1>2, <1>3, <1>7, <1>8, <1>9, <1>10 DEF ResultDuty
<1> QED BY <1>2, <1>3, <1>4, <1>6, <1>9, <1>10, <1>11, <1>12, RestKeeps DEF Moved

(* ... the work item: a job that is recorded as succeeded has ended ...    *)
LEMMA SettleWorkKeeps ==
    ASSUME SoleInv, SchedulerInv', NEW p \in Procs, NEW r, Ours(p, r), SettleWork(p)
    PROVE  SoleInv'
<1>1. r = proc[p] /\ r \in ProcRecords /\ r.pc = "settle_work"
  BY DEF SettleWork, At, Ours
<1>2. r.pc \in Settling /\ r.pc \in Resting /\ r.pc \in Reporting /\ r.pc \in Holding /\ r.pc \in Writing
  BY <1>1 DEF Settling, Resting, Reporting, Holding, Writing
<1>3. /\ r.pend = {} /\ r.done = {} /\ r.batch = {} /\ ResultDuty(r) /\ r.cur \in Existing
      /\ r.res.state \in Outcomes
  BY <1>2, RestingEmpty DEF Ours, Duty, Good, Fits
<1>4. QuietCall /\ UNCHANGED <<worker, job>> /\ r.cur \in AttemptIds
  BY <1>3, SettleMoves DEF SoleInv, QuietMove, SettleWork, OnlyProc, Existing
<1>5. PICK x \in {"settle_retry", "settle_plan"} : Goto(p, x)
  BY DEF SettleWork
<1>6. PICK n : Moved(p, r, n, x)
  BY <1>5, GotoMoved
<1>7. IsLast(r.cur) /\ IsLast(r.cur)'
  BY <1>2, <1>3, <1>4, QuietAttempts, LastStays DEF ResultDuty, SoleInv, SchedulerInv, SchedulerTypeOK
<1>8. (Harmless(r.cur) => Harmless(r.cur)') /\ job' = job /\ UNCHANGED attempt
  BY <1>4 DEF Harmless, SettleWork, UpdateWorkItem
<1>9. PICK v \in Work : v = attempt[r.cur].work
  BY <1>3 DEF SoleInv, SchedulerInv, RowInv, Existing
<1>10. workState' = [workState EXCEPT ![v] = r.res.state]
  BY <1>1, <1>9 DEF SettleWork, UpdateWorkItem, CurWork, Cur
<1>11. workState'[v] = r.res.state /\ \A w \in Work \ {v} : workState'[w] = workState[w]
  BY <1>10 DEF SoleInv, SchedulerInv, SchedulerTypeOK, StoreTypeOK
<1>12. ASSUME NEW w \in Work PROVE Allowed(w)
  <2>1. CASE w # v
    BY <1>11, <2>1 DEF Allowed
  <2>2. CASE w = v /\ r.res.state \in {"failed", "unknown"}
    BY <1>11, <2>2 DEF Allowed
  <2>3. CASE w = v /\ r.res.state = "succeeded"
    <3>1. job[r.cur] = "succeeded"
      BY <1>2, <1>3, <2>3 DEF ResultDuty
    <3>2. \A a \in AttemptIds : attempt[a].work = v => job[a] # "running"
      BY <1>3, <1>7, <1>9, <3>1, FreeAfter
    <3> QED BY <1>11, <2>3, <3>2 DEF Allowed
  <2> QED BY <1>2, <1>3, <2>1, <2>2, <2>3 DEF ResultDuty, Outcomes
<1>13. FailuresKept
  BY <1>8 DEF FailuresKept
<1>14. /\ n.pc \in Resting /\ n.cur = r.cur /\ n.res = r.res
       /\ n.pc \notin {"settle_attempt", "retry", "requeue", "settle_requeue", "release", "work_running"}
  BY <1>6 DEF Resting, Settling, Moved
<1>15. WorkDuty(n)'
  BY <1>14 DEF WorkDuty
<1>16. ResultDuty(n)'
  BY <1>1, <1>2, <1>3, <1>7, <1>8, <1>14 DEF ResultDuty
<1> QED BY <1>2, <1>3, <1>4, <1>6, <1>12, <1>13, <1>14, <1>15, <1>16, RestKeeps DEF Moved

(* ... and the retry: only a free work item is queued again.               *)
LEMMA SettleRetryKeeps ==
    ASSUME SoleInv, SchedulerInv', NEW p \in Procs, NEW r, Ours(p, r),
           SettleRetry(p) \/ SettleRequeue(p)
    PROVE  SoleInv'
<1>1. r = proc[p] /\ r \in ProcRecords /\ r.pc \in {"settle_retry", "settle_requeue"}
  BY DEF SettleRetry, SettleRequeue, At, Ours
<1>2. r.pc \in Settling /\ r.pc \in Resting /\ r.pc \in Holding
  BY <1>1 DEF Settling, Resting, Holding
<1>3. /\ r.pend = {} /\ r.done = {} /\ r.batch = {} /\ ResultDuty(r) /\ WorkDuty(r)
      /\ r.cur \in Existing
  BY <1>2, RestingEmpty DEF Ours, Duty, Good, Fits
<1>4. QuietCall /\ UNCHANGED <<worker, job>>
  BY SettleMoves, PutDownMoves DEF SoleInv, QuietMove, SettleRetry, SettleRequeue, OnlyProc
<1>5. CASE SettleRetry(p)
  <2>1. PICK x \in {"settle_requeue", "settle_plan"} :
           /\ Goto(p, x)
           /\ x = IF MayRetry(attempt[r.cur].work, r.res.failure) THEN "settle_requeue" ELSE "settle_plan"
    BY <1>1, <1>5 DEF SettleRetry, CurWork, Cur
  <2>2. PICK n : Moved(p, r, n, x)
    BY <2>1, GotoMoved
  <2>3. Aside /\ r.pc = "settle_retry"
    BY <1>1, <1>4, <1>5 DEF SettleRetry, NoStoreCall, storeVars, Aside, At
  <2>4. x = "settle_requeue" => Free(attempt[r.cur].work)
    <3>1. ASSUME x = "settle_requeue" PROVE Free(attempt[r.cur].work)
      <4>1. MayRetry(attempt[r.cur].work, r.res.failure) /\ r.res.failure = "infrastructure"
        BY <2>1, <3>1 DEF MayRetry
      <4>2. Harmless(r.cur) /\ IsLast(r.cur)
        BY <1>2, <1>3, <2>3, <4>1 DEF ResultDuty, Reporting
      <4> QED BY <1>3, <4>1, <4>2, FreeAfter
    <3> QED BY <3>1
  <2>5. /\ n.pc = x /\ n.cur = r.cur /\ n.res = r.res /\ n.pc \in Resting /\ n.pc \notin Reporting
        /\ n.pc \notin {"settle_attempt", "settle_trial", "settle_work", "settle_retry"}
    BY <2>2 DEF Moved, Resting, Settling, Reporting
  <2>6. WorkDuty(n)
    BY <2>4, <2>5 DEF WorkDuty
  <2>7. ResultDuty(n)
    BY <1>2, <1>3, <2>3, <2>5 DEF ResultDuty
  <2>8. Duty(n)
    BY <1>3, <2>2, <2>5, <2>6, <2>7, RestDuty DEF Duty, Moved
  <2> QED BY <1>3, <1>4, <2>2, <2>3, <2>8, AsideKeeps DEF Moved
<1>6. CASE SettleRequeue(p)
  <2>1. r.pc = "settle_requeue" /\ Free(attempt[r.cur].work)
    BY <1>1, <1>3, <1>6 DEF SettleRequeue, At, WorkDuty
  <2>2. \E n : /\ n.pc \in {"idle", "reconcile"} /\ n.pend = {} /\ n.done = {} /\ n.batch = {}
               /\ proc' = [proc EXCEPT ![p] = n]
    <3>1. CASE Quit(p)
      BY <3>1 DEF Quit, IdleProc
    <3>2. CASE proc' = [proc EXCEPT ![p].pc = "reconcile", ![p].cur = None, ![p].res = NoResult]
      <4>1. PICK n : n = [r EXCEPT !.pc = "reconcile", !.cur = None, !.res = NoResult]
        OBVIOUS
      <4>2. n.pc = "reconcile" /\ n.pend = {} /\ n.done = {} /\ n.batch = {}
        BY <1>1, <1>3, <4>1 DEF ProcRecords
      <4> QED BY <1>1, <3>2, <4>1, <4>2
    <3> QED BY <1>6, <3>1, <3>2 DEF SettleRequeue
  <2>3. UNCHANGED attempt /\ \A w \in Work \ {attempt[r.cur].work} : workState'[w] = workState[w]
    BY <1>1, <1>6 DEF SettleRequeue, ScheduleRetry, CurWork, Cur, NoStoreCall, storeVars, SoleInv,
       SchedulerInv, SchedulerTypeOK, StoreTypeOK
  <2>4. FailuresKept /\ \A w \in Work : Allowed(w)
    BY <2>1, <2>3 DEF FailuresKept, Allowed
  <2> QED BY <1>3, <1>4, <2>2, <2>4, EmptyKeeps
<1> QED BY <1>5, <1>6

-----------------------------------------------------------------------------
(* The duties of a process that prepares a batch and has no attempt at     *)
(* hand.                                                                   *)
Between == {"lease", "batch", "run_running", "plan_started", "create"}

(* The duties of a process between two steps of its preparation.           *)
LEMMA PrepDuty ==
    ASSUME NEW n, n.pc \in Between, n.done = {}, n.pc = "lease" => n.pend = {}
    PROVE  /\ BatchDuty(n) /\ BusyDuty(n) /\ (\A a \in n.pend : worker[a] = "none") => Duty(n)
           /\ BatchDuty(n)' /\ BusyDuty(n)' /\ (\A a \in n.pend : worker'[a] = "none") => Duty(n)'
<1>1. /\ n.pc \notin Starting /\ n.pc \notin Recording /\ n.pc \in Preparing /\ n.pc \notin Resting
      /\ n.pc \notin Reporting /\ n.pc \notin Settling
      /\ n.pc \notin {"work_running", "retry", "requeue", "release", "settle_requeue",
                      "settle_attempt", "settle_trial", "settle_work", "settle_retry"}
  BY DEF Between, Starting, Recording, Preparing, Resting, Settling, Reporting
<1>2. HandDuty(n) /\ WorkDuty(n) /\ ResultDuty(n) /\ HandDuty(n)' /\ WorkDuty(n)' /\ ResultDuty(n)'
  BY <1>1 DEF HandDuty, WorkDuty, ResultDuty
<1>3. /\ (\A a \in n.pend : worker[a] = "none") => PhaseDuty(n)
      /\ (\A a \in n.pend : worker'[a] = "none") => PhaseDuty(n)'
  BY <1>1 DEF PhaseDuty
<1> QED BY <1>2, <1>3 DEF Duty

(* What such a process knows.                                              *)
LEMMA Prepares ==
    ASSUME NEW p, NEW r, Ours(p, r), r.pc \in Preparing
    PROVE  /\ r.done = {} /\ (\A a \in r.pend : worker[a] = "none") /\ (r.pc = "lease" => r.pend = {})
           /\ \A a \in r.pend : worker[a] \notin Alive
           /\ r.pc \in Between => Busy(r) = r.pend
<1>1. r.pc \notin Handling
  BY Phases
<1>2. r.done = {} /\ (\A a \in r.pend : worker[a] = "none") /\ (r.pc = "lease" => r.pend = {})
  BY <1>1 DEF Ours, Good, Fits, Duty, PhaseDuty
<1>3. r.pc \in Between => Busy(r) = r.pend
  BY <1>2 DEF Busy, Between
<1> QED BY <1>2, <1>3 DEF Alive

(* Marking the runs and plans of a batch.                                  *)
LEMMA MarkKeeps ==
    ASSUME SoleInv, SchedulerInv', NEW p \in Procs, NEW r, Ours(p, r),
           ListRuns(p) \/ MarkRun(p) \/ MarkPlan(p)
    PROVE  SoleInv'
<1>1. r = proc[p] /\ r \in ProcRecords /\ r.pc \in {"batch", "run_running", "plan_started"}
  BY DEF ListRuns, MarkRun, MarkPlan, At, Ours
<1>2. r.pc \in Preparing /\ r.pc \in Between
  BY <1>1 DEF Preparing, Between
<1>3. QuietCall /\ UNCHANGED <<worker, job>>
  BY MarkMoves DEF SoleInv, QuietMove, ListRuns, MarkRun, MarkPlan, OnlyProc
<1>4. Aside
  BY <1>3 DEF Aside, ListRuns, MarkRun, MarkPlan, UpdateRun, UpdatePlan, NoStoreCall, storeVars
<1>5. ASSUME NEW T, NEW x \in Between \ {"lease"},
             proc' = [proc EXCEPT ![p] = [r EXCEPT !.pc = x, !.todo = T]]
      PROVE  SoleInv'
  <2>1. PICK n : n = [r EXCEPT !.pc = x, !.todo = T]
    OBVIOUS
  <2>2. n.pc = x /\ n.batch = r.batch /\ n.pend = r.pend /\ n.done = {} /\ n.now = r.now
    BY <1>1, <1>2, <2>1, Prepares DEF ProcRecords
  <2>3. Busy(n) = r.pend
    BY <2>2 DEF Busy, Between
  <2>4. BatchDuty(n) /\ BusyDuty(n)
    BY <1>2, <2>2, <2>3, Prepares DEF Ours, Duty, BatchDuty, BusyDuty
  <2>5. Duty(n)
    BY <1>2, <2>2, <2>4, Prepares, PrepDuty
  <2> QED BY <1>3, <1>4, <1>5, <2>1, <2>2, <2>5, Lands, AsideKeeps
<1>6. \A x \in {"run_running", "plan_started", "create"} : x \in Between \ {"lease"}
  BY DEF Between
<1>7. CASE ListRuns(p)
  <2>1. PICK T : T = BatchRuns(p)
    OBVIOUS
  <2>2. proc' = [proc EXCEPT ![p] = [r EXCEPT !.pc = "run_running", !.todo = T]]
    BY <1>1, <1>7, <2>1 DEF ListRuns
  <2> QED BY <1>5, <1>6, <2>2
<1>8. CASE MarkRun(p)
  <2>1. PICK q \in r.todo :
           proc' = IF r.todo = {q}
                   THEN [proc EXCEPT ![p].pc = "plan_started", ![p].todo = BatchPlans(p)]
                   ELSE [proc EXCEPT ![p].todo = @ \ {q}]
    BY <1>1, <1>8 DEF MarkRun
  <2>2. r.pc = "run_running"
    BY <1>1, <1>8 DEF MarkRun, At
  <2>3. CASE r.todo = {q}
    <3>1. PICK T : T = BatchPlans(p)
      OBVIOUS
    <3>2. proc' = [proc EXCEPT ![p] = [r EXCEPT !.pc = "plan_started", !.todo = T]]
      BY <1>1, <2>1, <2>3, <3>1
    <3> QED BY <1>5, <1>6, <3>2
  <2>4. CASE r.todo # {q}
    <3>1. PICK T : T = r.todo \ {q}
      OBVIOUS
    <3>2. proc' = [proc EXCEPT ![p] = [r EXCEPT !.todo = T]]
      BY <1>1, <2>1, <2>4, <3>1
    <3>3. [r EXCEPT !.todo = T] = [r EXCEPT !.pc = "run_running", !.todo = T]
      BY <1>1, <2>2 DEF ProcRecords
    <3>4. proc' = [proc EXCEPT ![p] = [r EXCEPT !.pc = "run_running", !.todo = T]]
      BY <3>2, <3>3
    <3> QED BY <1>5, <1>6, <3>4
  <2> QED BY <2>3, <2>4
<1>9. CASE MarkPlan(p)
  <2>1. PICK q \in r.todo :
           proc' = [proc EXCEPT ![p].todo = @ \ {q}, ![p].pc = IF r.todo = {q} THEN "create" ELSE @]
    BY <1>1, <1>9 DEF MarkPlan
  <2>2. r.pc = "plan_started"
    BY <1>1, <1>9 DEF MarkPlan, At
  <2>3. PICK x \in {"create", "plan_started"} : x = IF r.todo = {q} THEN "create" ELSE r.pc
    BY <2>2
  <2>4. PICK T : T = r.todo \ {q}
    OBVIOUS
  <2>5. proc' = [proc EXCEPT ![p] = [r EXCEPT !.todo = T, !.pc = x]]
    BY <1>1, <2>1, <2>3, <2>4
  <2>6. [r EXCEPT !.todo = T, !.pc = x] = [r EXCEPT !.pc = x, !.todo = T]
    BY <1>1 DEF ProcRecords
  <2>7. proc' = [proc EXCEPT ![p] = [r EXCEPT !.pc = x, !.todo = T]]
    BY <2>5, <2>6
  <2> QED BY <1>5, <1>6, <2>3, <2>7
<1> QED BY <1>7, <1>8, <1>9

-----------------------------------------------------------------------------
(* The expiry that precedes the granting of a lease leaves the batch of    *)
(* the process that asks alone.                                            *)
LEMMA BatchNotDue ==
    ASSUME SoleInv, NEW p, NEW r, Ours(p, r), NEW D, D = Due(Work, r.now), NEW l \in r.batch
    PROVE  /\ l \in Unused /\ lease[l].state = "active" /\ ExpiredLeases(D)[l] = lease[l]
           /\ lease[l].work \in Work /\ ExpiredWork(D)[lease[l].work] = workState[lease[l].work]
<1>1. l \in Unused /\ l \in LeaseIds
  BY DEF Ours, Good, Unused
<1>2. lease[l].state = "active" /\ lease[l].expires > r.now
  BY DEF Ours, Duty, BatchDuty
<1>3. r.now \in Nat /\ lease[l].expires \in Nat /\ lease[l].work \in Work
  BY <1>1, <1>2 DEF Ours, ProcRecords, SoleInv, SchedulerInv, SchedulerTypeOK, StoreTypeOK, LeaseRows, RowInv
<1>4. l \notin D
  BY <1>2, <1>3 DEF Due
<1>5. \A k \in D : lease[k].work # lease[l].work
  BY <1>1, <1>2, <1>4 DEF SoleInv, SchedulerInv, LeaseExclusive, Due, Active
<1> QED BY <1>1, <1>2, <1>3, <1>4, <1>5 DEF ExpiredLeases, ExpiredWork

(* No more work to lease, or none that can be.                             *)
LEMMA LeaseEndKeeps ==
    ASSUME SoleInv, SchedulerInv', NEW p \in Procs, NEW r, Ours(p, r),
           LeaseNone(p) \/ LeaseRefused(p) \/ CreateRefused(p)
    PROVE  SoleInv'
<1>1. r = proc[p] /\ r \in ProcRecords /\ r.pc \in {"lease", "create"}
  BY DEF LeaseNone, LeaseRefused, CreateRefused, At, Ours
<1>2. r.pc \in Preparing /\ r.pc \in Between
  BY <1>1 DEF Preparing, Between
<1>3. QuietCall /\ UNCHANGED <<worker, job>>
  BY EndMoves DEF SoleInv, QuietMove, LeaseNone, LeaseRefused, CreateRefused, OnlyProc
<1>4. FailuresKept /\ \A w \in Work : Allowed(w)
  <2>1. CASE LeaseNone(p)
    <3>1. PICK D : D = Due(Work, r.now)
      OBVIOUS
    <3>2. D \in SUBSET Active(lease) /\ workState' = ExpiredWork(D) /\ attempt' = ExpiredAttempts(D)
      BY <1>1, <2>1, <3>1 DEF LeaseNone, LeaseNextNothing, ExpireLeases, Due
    <3> QED BY <3>2, ExpiryAllowed
  <2>2. CASE LeaseRefused(p) \/ CreateRefused(p)
    <3>1. Aside
      BY <1>3, <2>2 DEF LeaseRefused, CreateRefused, NoStoreCall, storeVars, Aside
    <3> QED BY <3>1, AsideAllowed
  <2> QED BY <2>1, <2>2
<1>5. CASE Quit(p)
  <2>1. PICK n : n = IdleProc
    OBVIOUS
  <2>2. n.pc = "idle" /\ n.pend = {} /\ n.done = {} /\ n.batch = {} /\ proc' = [proc EXCEPT ![p] = n]
    BY <1>5, <2>1 DEF IdleProc, Quit
  <2>3. \A a \in r.pend : worker[a] \notin Alive
    BY <1>2, Prepares
  <2> QED BY <1>3, <1>4, <2>2, <2>3, EmptyKeeps
<1>6. CASE LeaseNone(p) /\ Goto(p, "batch")
  <2>1. PICK n : Moved(p, r, n, "batch")
    BY <1>6, GotoMoved
  <2>2. r.pc = "lease" /\ r.pend = {} /\ r.done = {}
    BY <1>1, <1>2, <1>6, Prepares DEF LeaseNone, At
  <2>3. PICK D : D = Due(Work, r.now)
    OBVIOUS
  <2>4. lease' = ExpiredLeases(D) /\ workState' = ExpiredWork(D)
    BY <1>1, <1>6, <2>3 DEF LeaseNone, LeaseNextNothing, ExpireLeases
  <2>5. \A l \in r.batch : Holds(l)
    BY <2>3, <2>4, BatchNotDue DEF Holds, Drifts
  <2>6. BatchDuty(n)'
    BY <2>1, <2>5, BatchStays DEF Moved, Ours, Duty
  <2>7. n.pc = "batch" /\ n.pend = {} /\ n.done = {} /\ n.pc \in Between
    BY <2>1, <2>2 DEF Moved, Between
  <2>8. Busy(n)' = {}
    BY <2>7 DEF Busy
  <2>9. BusyDuty(n)'
    BY <2>8 DEF BusyDuty
  <2>10. Duty(n)'
    BY <2>6, <2>7, <2>9, PrepDuty
  <2>11. Plain(p, n)
    BY <1>1, <1>3, <2>1, <2>2 DEF Plain, Moved
  <2> QED BY <1>4, <2>10, <2>11, PlainKeeps DEF Ours
<1> QED BY <1>5, <1>6 DEF LeaseNone, LeaseRefused, CreateRefused

(* What the granting of a lease does, the expiry included.                 *)
Granted(l, w, D, t) ==
    /\ l \in LeaseIds /\ w \in Work /\ D = Due(Work, t)
    /\ lease[l].state = "absent"
    /\ lease'[l].state = "active" /\ lease'[l].work = w /\ lease'[l].owner = Owner
    /\ lease'[l].expires = t + LeaseTTL
    /\ \A k \in LeaseIds \ {l} : lease'[k] = ExpiredLeases(D)[k]
    /\ \A k \in LeaseIds : ExpiredLeases(D)[k].state = "active" => ExpiredLeases(D)[k].work # w
    /\ ExpiredWork(D)[w] = "queued" /\ workState'[w] = "leased"
    /\ \A v \in Work \ {w} : workState'[v] = ExpiredWork(D)[v]
    /\ attempt' = ExpiredAttempts(D)

(* A lease that lease_next_work_item grants is of that kind.               *)
LEMMA GrantFacts ==
    ASSUME SoleInv, NEW l \in LeaseIds, NEW w \in Work, NEW t, LeaseNextWorkItem(l, w, Owner, t)
    PROVE  Granted(l, w, Due(Work, t), t)
<1>1. PICK D : D = Due(Work, t)
  OBVIOUS
<1>2. PICK ls \in [LeaseIds -> LeaseRows] : ls = ExpiredLeases(D)
  BY <1>1, ExpiryTypes, DueLeases DEF SoleInv, SchedulerInv, SchedulerTypeOK
<1>3. PICK ws \in [Work -> WorkStates \cup {"absent"}] : ws = ExpiredWork(D)
  BY <1>1, ExpiryTypes, DueLeases DEF SoleInv, SchedulerInv, SchedulerTypeOK
<1>4. /\ lease[l].state = "absent" /\ ~HasActiveLease(w, ls)
      /\ lease' = Grant(ls, l, w, Owner, t) /\ workState' = [ws EXCEPT ![w] = "leased"]
      /\ attempt' = ExpiredAttempts(D)
  BY <1>1, <1>2, <1>3 DEF LeaseNextWorkItem, IsFreshLease
<1>5. ws[w] = "queued"
  BY <1>1, <1>2, <1>3 DEF LeaseNextWorkItem, IsSelected, UnderLimits, Candidates
<1>6. /\ lease'[l] = [work |-> w, owner |-> Owner, expires |-> t + LeaseTTL, state |-> "active"]
      /\ \A k \in LeaseIds \ {l} : lease'[k] = ls[k]
  BY <1>4 DEF Grant
<1>7. \A k \in LeaseIds : ls[k].state = "active" => ls[k].work # w
  BY <1>4 DEF HasActiveLease, Active
<1>8. workState'[w] = "leased" /\ \A v \in Work \ {w} : workState'[v] = ws[v]
  BY <1>4
<1> QED BY <1>1, <1>2, <1>3, <1>4, <1>5, <1>6, <1>7, <1>8 DEF Granted

(* A lease is granted for free work only, so the histories stand ...       *)
LEMMA GrantHistory ==
    ASSUME SoleInv, Steady, NEW l, NEW w, NEW D, NEW t, Granted(l, w, D, t), UNCHANGED <<worker, job>>
    PROVE  HistoryInv' /\ FreeInv' /\ OwnerInv' /\ NoOrphanJob' /\ Free(w)
<1>1. D \in SUBSET Active(lease) /\ D \in SUBSET LeaseIds
  BY DEF Granted, Due, Active
<1>2. HarmStays /\ JobsStay
  BY DEF HarmStays, JobsStay, Harmless
<1>3. FailuresKept
  BY ExpiredFailures DEF Granted
<1>4. Free(w)
  BY <1>1, ExpiredFree DEF Granted, SoleInv, FreeInv
<1>5. \A v \in Work : Allowed(v)
  BY <1>1, <1>4, ExpiredFree DEF Granted, Allowed
<1>6. \A a \in AttemptIds : attempt'[a].lease = attempt[a].lease /\ attempt[a].lease # l
  BY StoreConstants DEF Steady, AttemptKept, SameIdentity, Granted, SoleInv, SchedulerInv, AttemptIdentity
<1>7. LeasesEnd(ExpiredLeases(D))
  BY ExpiredEnd DEF Granted, SoleInv, SchedulerInv, SchedulerTypeOK
<1>8. \A k \in LeaseIds \ {l} : /\ lease'[k].state = "active" => lease[k].state = "active"
                                /\ lease'[k].work = lease[k].work /\ lease'[k].owner = lease[k].owner
                                /\ lease'[k].state # "absent" => lease[k].state # "absent"
  BY <1>7 DEF Granted, LeasesEnd
<1>9. ASSUME NEW a \in Existing, IsActive(a)' PROVE IsActive(a)
  <2>1. a \in AttemptIds /\ attempt[a].lease \in LeaseIds
    BY DEF SoleInv, SchedulerInv, RowInv, Existing
  <2> QED BY <1>6, <1>8, <1>9, <2>1 DEF IsActive
<1>10. HistoryInv'
  BY <1>2, <1>3, <1>9, HistoryStays
<1>11. NoOrphanJob' /\ \A v \in Work : workState'[v] = "queued" => Free(v)'
  BY <1>2, <1>5, AllowedKeeps
<1>12. ASSUME NEW k \in Unused', lease'[k].state = "active" PROVE Free(lease[k].work)'
  <2>1. PICK v : v = lease'[k].work
    OBVIOUS
  <2>2. Free(v)
    <3>1. CASE k = l
      BY <1>4, <2>1, <3>1 DEF Granted
    <3>2. CASE k # l
      <4>1. k \in LeaseIds /\ lease[k].work = v /\ lease[k].state = "active"
        BY <1>8, <1>12, <2>1, <3>2 DEF Unused
      <4>2. LeaseAttempts(k)' = LeaseAttempts(k)
        BY <1>6 DEF LeaseAttempts
      <4> QED BY <4>1, <4>2 DEF Unused, SoleInv, FreeInv
    <3> QED BY <3>1, <3>2
  <2>3. Free(v)'
    BY <1>2, <2>2, FreeStays
  <2> QED BY <2>1, <2>3 DEF Free
<1>13. OwnerInv'
  BY <1>8 DEF SoleInv, OwnerInv, Granted
<1> QED BY <1>4, <1>10, <1>11, <1>12, <1>13 DEF FreeInv

(* ... and the batch grows by a lease that is its own.                     *)
LEMMA LeaseOneKeeps ==
    ASSUME SoleInv, SchedulerInv', NEW p \in Procs, NEW r, Ours(p, r), LeaseOne(p)
    PROVE  SoleInv'
<1>1. r = proc[p] /\ r \in ProcRecords /\ r.pc = "lease"
  BY DEF LeaseOne, At, Ours
<1>2. r.pend = {} /\ r.done = {} /\ r.now \in Nat
  BY <1>1, Prepares DEF Preparing, ProcRecords
<1>3. UNCHANGED <<worker, job>>
  BY DEF LeaseOne, OnlyProc
<1>4. PICK l \in LeaseIds, w \in Work :
         /\ LeaseNextWorkItem(l, w, Owner, r.now)
         /\ proc' = [proc EXCEPT ![p].batch = r.batch \cup {l},
                ![p].pc = IF Cardinality(r.batch \cup {l}) = GlobalLimit THEN "batch" ELSE "lease"]
  BY <1>1 DEF LeaseOne
<1>5. PICK D : D = Due(Work, r.now)
  OBVIOUS
<1>6. Granted(l, w, D, r.now)
  BY <1>4, <1>5, GrantFacts
<1>7. LeaseCall
  BY <1>2, <1>4 DEF LeaseCall
<1>8. Steady /\ SubmissionsLast
  BY <1>7, QuietAttempts, SubmissionsStay DEF StoreCall, SoleInv, SchedulerInv, SchedulerTypeOK
<1>9. HistoryInv' /\ FreeInv' /\ OwnerInv' /\ NoOrphanJob'
  BY <1>3, <1>6, <1>8, GrantHistory
<1>10. PICK x \in {"batch", "lease"} :
          x = IF Cardinality(r.batch \cup {l}) = GlobalLimit THEN "batch" ELSE "lease"
  OBVIOUS
<1>11. PICK n : n = [r EXCEPT !.batch = r.batch \cup {l}, !.pc = x]
  OBVIOUS
<1>12. n.pc = x /\ n.batch = r.batch \cup {l} /\ n.pend = {} /\ n.done = {} /\ n.now = r.now
  BY <1>1, <1>2, <1>11 DEF ProcRecords
<1>13. proc' = [proc EXCEPT ![p] = n] /\ n = proc'[p]
  <2>1. proc' = [proc EXCEPT ![p] = n]
    BY <1>1, <1>4, <1>10, <1>11
  <2> QED BY <2>1, Lands
<1>14. BatchDuty(n)'
  <2>1. ASSUME NEW k \in r.batch
        PROVE  /\ lease'[k].state = "active" /\ lease'[k].expires > r.now
               /\ workState'[lease'[k].work] \in {"leased", "cancel_requested"}
    <3>1. /\ k \in Unused /\ lease[k].state = "active" /\ ExpiredLeases(D)[k] = lease[k]
          /\ lease[k].work \in Work /\ ExpiredWork(D)[lease[k].work] = workState[lease[k].work]
      BY <1>5, BatchNotDue
    <3>2. k \in LeaseIds /\ k # l
      BY <1>6, <3>1 DEF Unused, Granted
    <3>3. lease'[k] = lease[k] /\ lease[k].work # w
      BY <1>6, <3>1, <3>2 DEF Granted
    <3>4. workState'[lease[k].work] = workState[lease[k].work]
      BY <1>6, <3>1, <3>3 DEF Granted
    <3> QED BY <3>1, <3>3, <3>4 DEF Ours, Duty, BatchDuty
  <2>2. lease'[l].state = "active" /\ lease'[l].expires > r.now /\ workState'[lease'[l].work] = "leased"
    BY <1>2, <1>6, StoreConstants DEF Granted
  <2> QED BY <1>12, <2>1, <2>2 DEF BatchDuty
<1>15. BusyDuty(n)'
  <2>1. Busy(n)' = {}
    BY <1>12 DEF Busy
  <2> QED BY <2>1 DEF BusyDuty
<1>16. Duty(n)'
  BY <1>12, <1>14, <1>15, PrepDuty DEF Between
<1>17. DutyInv'
  BY <1>1, <1>13, <1>16, DutiesKept DEF Ours
<1>18. JobInv'
  <2>1. ASSUME NEW a \in AttemptIds, worker'[a] \in Alive PROVE \E q \in Procs : a \in proc'[q].pend
    <3>1. PICK q \in Procs : a \in proc[q].pend
      BY <1>3, <2>1 DEF SoleInv, JobInv
    <3>2. q # p
      BY <1>1, <1>2, <3>1
    <3>3. proc'[q] = proc[q]
      BY <1>13, <3>2 DEF SoleInv, SchedulerInv, SchedulerTypeOK
    <3> QED BY <3>1, <3>3
  <2> QED BY <1>3, <1>8, <2>1 DEF SoleInv, JobInv, SubmissionsLast
<1> QED BY <1>9, <1>17, <1>18 DEF SoleInv

-----------------------------------------------------------------------------
(* What the creation of an attempt does.                                   *)
Inserted(a, w, n, k, l) ==
    /\ a \in AttemptIds /\ w \in Work /\ n \in Nat /\ k \in Nat /\ l \in Unused
    /\ lease[l].state = "active" /\ lease[l].work = w
    /\ attempt[a].state = "absent" /\ attempt'[a].state = "created"
    /\ attempt'[a].work = w /\ attempt'[a].number = n /\ attempt'[a].candidate = 1
    /\ attempt'[a].retry = k /\ attempt'[a].lease = l /\ attempt'[a].failure = None
    /\ \A b \in AttemptIds \ {a} : attempt'[b] = attempt[b]
    /\ \A b \in AttemptIds : attempt[b].work = w => attempt[b].number < n
    /\ k = 0 \/ \E b \in AttemptIds : attempt[b].work = w /\ attempt[b].retry = k - 1
    /\ UNCHANGED <<lease, workState, submission>>

(* Its facts, from the store's operation.                                  *)
LEMMA InsertedFacts ==
    ASSUME SoleInv, NEW a \in AttemptIds, NEW w \in Work, NEW k \in Nat, NEW l \in Unused, NEW t,
           IsNextRetry(w, k), CreateAttemptForLease(a, w, 1, k, l, t)
    PROVE  \E n : Inserted(a, w, n, k, l)
<1>1. PICK n \in 1 .. MaxNumber : IsNextNumber(w, n) /\ InsertAttempt(a, w, n, 1, k, l)
  BY DEF CreateAttemptForLease
<1>2. lease[l].state = "active" /\ lease[l].work = w
  BY DEF CreateAttemptForLease, LeaseHolds
<1>3. PICK row : row = [work |-> w, number |-> n, candidate |-> 1, retry |-> k, lease |-> l,
                        state |-> "created", failure |-> None, recon |-> None]
  OBVIOUS
<1>4. /\ attempt[a].state = "absent" /\ attempt' = [attempt EXCEPT ![a] = row]
      /\ UNCHANGED <<lease, workState, submission>>
  BY <1>1, <1>3 DEF InsertAttempt, IsFreshAttempt
<1>5. attempt'[a] = row /\ \A b \in AttemptIds \ {a} : attempt'[b] = attempt[b]
  BY <1>4 DEF SoleInv, SchedulerInv, SchedulerTypeOK, StoreTypeOK
<1>6. \A b \in AttemptIds : attempt[b].work = w => attempt[b].number < n
  BY <1>1 DEF IsNextNumber, AttemptsOf
<1>7. k = 0 \/ \E b \in AttemptIds : attempt[b].work = w /\ attempt[b].retry = k - 1
  BY DEF IsNextRetry, AttemptsOf
<1>8. n \in Nat
  OBVIOUS
<1> QED BY <1>2, <1>3, <1>4, <1>5, <1>6, <1>7, <1>8 DEF Inserted

(* It is the last of a free work item, and within the budget.              *)
LEMMA InsertHistory ==
    ASSUME SoleInv, NEW a, NEW w, NEW n, NEW k, NEW l, Inserted(a, w, n, k, l),
           UNCHANGED <<worker, job>>, workState[w] # "queued"
    PROVE  /\ HistoryInv' /\ FreeInv' /\ OwnerInv' /\ NoOrphanJob'
           /\ Existing' = Existing \cup {a} /\ a \notin Existing
           /\ worker[a] = "none" /\ job[a] = "none"
<1>1. a \in AttemptIds /\ w \in Work /\ w # None /\ n \in Nat /\ k \in Nat /\ l \in Unused /\ l \in LeaseIds
  BY StoreConstants DEF Inserted, Unused
<1>2. Existing' = Existing \cup {a} /\ a \notin Existing
  BY DEF Inserted, Existing
<1>3. worker[a] = "none" /\ job[a] = "none"
  BY <1>1, <1>2 DEF SoleInv, SchedulerInv, RowInv, JobInv
<1>4. Free(w)
  BY DEF Inserted, SoleInv, FreeInv
<1>5. \A b \in AttemptIds : Harmless(b)' <=> Harmless(b)
  BY DEF Harmless
<1>6. \A b \in Existing : /\ b \in AttemptIds /\ b # a /\ attempt'[b] = attempt[b]
                          /\ attempt[b].number \in Nat /\ attempt[b].retry \in Nat
  BY <1>2 DEF Existing, Inserted, SoleInv, SchedulerInv, SchedulerTypeOK, StoreTypeOK, AttemptRows
<1>7. ASSUME NEW x \in Existing', NEW y \in Existing', attempt'[x].work = attempt'[y].work,
             attempt'[x].number < attempt'[y].number
      PROVE  Harmless(x)'
  <2>1. CASE x = a
    <3>1. y # a
      BY <1>1, <1>7, <2>1 DEF Inserted
    <3>2. y \in Existing /\ attempt[y].work = w /\ attempt[y].number > n
      BY <1>2, <1>6, <1>7, <2>1, <3>1 DEF Inserted
    <3> QED BY <1>1, <1>6, <3>2 DEF Inserted
  <2>2. CASE x # a /\ y = a
    BY <1>2, <1>4, <1>5, <1>6, <1>7, <2>2 DEF Inserted, Free
  <2>3. CASE x # a /\ y # a
    BY <1>2, <1>5, <1>6, <1>7, <2>3 DEF SoleInv, HistoryInv
  <2> QED BY <2>1, <2>2, <2>3
<1>8. ASSUME NEW x \in Existing', IsActive(x)' PROVE IsLast(x)'
  <2>1. CASE x = a
    <3>1. ASSUME NEW b \in AttemptIds, attempt'[b].work = w PROVE attempt'[b].number <= n
      <4>1. CASE b = a
        BY <1>1, <4>1 DEF Inserted
      <4>2. CASE b # a
        <5>1. attempt[b].work = w
          BY <3>1, <4>2 DEF Inserted
        <5>2. b \in Existing
          BY <1>1, <5>1 DEF SoleInv, SchedulerInv, RowInv
        <5> QED BY <1>1, <1>6, <5>1, <5>2 DEF Inserted
      <4> QED BY <4>1, <4>2
    <3> QED BY <2>1, <3>1 DEF Inserted, IsLast
  <2>2. CASE x # a
    <3>1. x \in Existing /\ attempt'[x] = attempt[x]
      BY <1>2, <1>6, <2>2
    <3>2. IsActive(x)
      BY <1>8, <3>1 DEF IsActive, Inserted
    <3>3. attempt[x].work # w /\ IsLast(x)
      BY <3>1, <3>2, ApartFromBatch DEF Inserted, SoleInv, HistoryInv
    <3> QED BY <3>1, <3>3 DEF IsLast, Inserted
  <2> QED BY <2>1, <2>2
<1>9. k < MaxAttempts
  <2>1. CASE k = 0
    BY <2>1, SchedulerConstants
  <2>2. CASE k # 0
    <3>1. PICK b \in AttemptIds : attempt[b].work = w /\ attempt[b].retry = k - 1
      BY <2>2 DEF Inserted
    <3> QED BY <1>1, <1>4, <3>1 DEF Free
  <2> QED BY <2>1, <2>2
<1>10. \A x \in Existing' : attempt'[x].candidate = 1 /\ attempt'[x].retry < MaxAttempts
  BY <1>2, <1>6, <1>9 DEF Inserted, SoleInv, HistoryInv
<1>11. \A x \in Existing' : attempt'[x].failure = "infrastructure" => Harmless(x)'
  BY <1>2, <1>5, <1>6, StoreConstants DEF Inserted, SoleInv, HistoryInv, Failures
<1>12. HistoryInv'
  BY <1>7, <1>8, <1>10, <1>11 DEF HistoryInv
<1>13. ASSUME NEW v, v # w, Free(v) PROVE Free(v)'
  BY <1>1, <1>5, <1>13 DEF Free, Inserted
<1>14. \A v \in Work : workState'[v] = "queued" => Free(v)'
  BY <1>13 DEF Inserted, SoleInv, FreeInv
<1>15. ASSUME NEW j \in Unused', lease'[j].state = "active" PROVE Free(lease[j].work)'
  <2>1. j \in LeaseIds /\ LeaseAttempts(j)' = {} /\ lease[j].state = "active"
    BY <1>15 DEF Unused, Inserted
  <2>2. j # l
    BY <1>1, <2>1 DEF LeaseAttempts, Inserted
  <2>3. LeaseAttempts(j) = {}
    <3>1. ASSUME NEW b \in AttemptIds, attempt[b].lease = j PROVE FALSE
      <4>1. b \in Existing
        BY <2>1, <3>1, StoreConstants DEF SoleInv, SchedulerInv, RowInv
      <4>2. attempt'[b].lease = j
        BY <1>6, <3>1, <4>1
      <4> QED BY <2>1, <4>2 DEF LeaseAttempts
    <3> QED BY <3>1 DEF LeaseAttempts
  <2>4. Free(lease[j].work)
    BY <2>1, <2>3 DEF Unused, SoleInv, FreeInv
  <2>5. lease[j].work # w
    BY <1>1, <2>1, <2>2 DEF Inserted, SoleInv, SchedulerInv, LeaseExclusive, Active
  <2>6. PICK v : v = lease[j].work
    OBVIOUS
  <2>7. Free(v)' /\ lease'[j].work = v
    BY <1>13, <2>4, <2>5, <2>6 DEF Inserted
  <2> QED BY <2>7 DEF Free
<1>16. OwnerInv'
  BY DEF Inserted, SoleInv, OwnerInv
<1>17. NoOrphanJob'
  BY <1>3 DEF Inserted, SoleInv, NoOrphanJob
<1> QED BY <1>2, <1>3, <1>12, <1>14, <1>15, <1>16, <1>17 DEF FreeInv

(* Starting the first lease of the batch.                                  *)
LEMMA CreateNextKeeps ==
    ASSUME SoleInv, SchedulerInv', NEW p \in Procs, NEW r, Ours(p, r), CreateNext(p)
    PROVE  SoleInv'
<1>1. r = proc[p] /\ r \in ProcRecords /\ r.pc = "create"
  BY DEF CreateNext, At, Ours
<1>2. r.pc \in Preparing /\ r.pc \in Between
  BY <1>1 DEF Preparing, Between
<1>3. r.done = {} /\ Busy(r) = r.pend /\ \A b \in r.pend : worker[b] = "none"
  BY <1>2, Prepares
<1>4. UNCHANGED <<worker, job>>
  BY DEF CreateNext, OnlyProc
<1>5. PICK l \in LeaseIds, a \in AttemptIds, k \in 0 .. MaxNumber - 1 :
         /\ l \in r.batch /\ IsNextRetry(lease[l].work, k)
         /\ CreateAttemptForLease(a, lease[l].work, 1, k, l, r.now)
         /\ proc' = [proc EXCEPT ![p].pc = "work_running", ![p].cur = a, ![p].batch = r.batch \ {l}]
  BY <1>1 DEF CreateNext, NextLease
<1>6. PICK w \in Work : w = lease[l].work /\ workState[w] \in {"leased", "cancel_requested"}
  BY <1>5 DEF Ours, Good, Duty, BatchDuty, Unused, SoleInv, SchedulerInv, RowInv
<1>7. l \in Unused /\ k \in Nat
  BY <1>5 DEF Ours, Good
<1>8. PICK m : Inserted(a, w, m, k, l)
  BY <1>5, <1>6, <1>7, InsertedFacts
<1>9. /\ HistoryInv' /\ FreeInv' /\ OwnerInv' /\ NoOrphanJob'
      /\ a \notin Existing /\ worker[a] = "none" /\ job[a] = "none"
  BY <1>4, <1>6, <1>8, InsertHistory
<1>10. PICK n : n = [r EXCEPT !.pc = "work_running", !.cur = a, !.batch = r.batch \ {l}]
  OBVIOUS
<1>11. /\ n.pc = "work_running" /\ n.cur = a /\ n.batch = r.batch \ {l} /\ n.pend = r.pend /\ n.done = {}
       /\ n.now = r.now
  BY <1>1, <1>3, <1>10 DEF ProcRecords
<1>12. proc' = [proc EXCEPT ![p] = n] /\ n = proc'[p]
  <2>1. proc' = [proc EXCEPT ![p] = n]
    BY <1>1, <1>5, <1>10
  <2> QED BY <2>1, Lands
<1>13. \A b \in r.pend : b \in Existing /\ b # a /\ b \in AttemptIds /\ attempt'[b] = attempt[b]
  BY <1>8, <1>9 DEF Ours, Good, Existing, Inserted
<1>14. BatchDuty(n)'
  BY <1>8, <1>11 DEF Inserted, Ours, Duty, BatchDuty
<1>15. BusyDuty(n)'
  <2>1. Busy(n)' = r.pend
    BY <1>11 DEF Busy
  <2> QED BY <1>3, <1>8, <1>13, <2>1 DEF Ours, Duty, BusyDuty, IsActive, WorkStateOf, Inserted
<1>16. HandDuty(n)'
  <2>1. IsActive(a)'
    BY <1>8 DEF Inserted, IsActive
  <2> QED BY <1>11, <1>13, <2>1 DEF HandDuty
<1>17. PhaseDuty(n)'
  <2>1. n.pc \in Preparing /\ n.pc \notin Resting \cup {"lease"}
    BY <1>11 DEF Preparing, Resting, Settling, Starting
  <2> QED BY <1>3, <1>4, <1>9, <1>11, <2>1 DEF PhaseDuty
<1>18. WorkDuty(n)'
  <2>1. WorkStateOf(a)' \in {"leased", "cancel_requested"}
    BY <1>6, <1>8 DEF WorkStateOf, Inserted
  <2> QED BY <1>11, <2>1 DEF WorkDuty
<1>19. ResultDuty(n)'
  BY <1>11 DEF ResultDuty, Reporting, Settling
<1>20. DutyInv'
  BY <1>1, <1>12, <1>14, <1>15, <1>16, <1>17, <1>18, <1>19, DutiesKept DEF Ours, Duty
<1>21. JobInv'
  <2>1. ASSUME NEW b \in AttemptIds, worker'[b] \in Alive PROVE \E q \in Procs : b \in proc'[q].pend
    <3>1. PICK q \in Procs : b \in proc[q].pend
      BY <1>4, <2>1 DEF SoleInv, JobInv
    <3>2. CASE q = p
      BY <1>1, <1>11, <1>12, <3>1, <3>2
    <3>3. CASE q # p
      BY <1>12, <3>1, <3>3 DEF SoleInv, SchedulerInv, SchedulerTypeOK
    <3> QED BY <3>2, <3>3
  <2> QED BY <1>4, <1>8, <2>1 DEF SoleInv, JobInv, Inserted
<1> QED BY <1>9, <1>20, <1>21 DEF SoleInv

(* The duties of a process that starts an attempt.                         *)
LEMMA StartDuty ==
    ASSUME NEW n, n.pc \in {"trial_running", "attempt_running"}, n.done = {}, n.cur \notin n.pend
    PROVE  /\ /\ BatchDuty(n) /\ BusyDuty(n) /\ IsActive(n.cur) /\ worker[n.cur] = "none"
              /\ \A a \in n.pend : worker[a] = "none"
              => Duty(n)
           /\ /\ BatchDuty(n)' /\ BusyDuty(n)' /\ IsActive(n.cur)' /\ worker'[n.cur] = "none"
              /\ \A a \in n.pend : worker'[a] = "none"
              => Duty(n)'
<1>1. /\ n.pc \in Preparing /\ n.pc \notin Resting \cup {"lease"} /\ n.pc \notin Reporting
      /\ n.pc \notin Settling
      /\ n.pc \notin {"work_running", "retry", "requeue", "release", "settle_requeue",
                      "settle_attempt", "settle_trial", "settle_work", "settle_retry"}
  BY DEF Preparing, Starting, Resting, Reporting, Settling
<1>2. WorkDuty(n) /\ ResultDuty(n) /\ WorkDuty(n)' /\ ResultDuty(n)'
  BY <1>1 DEF WorkDuty, ResultDuty
<1>3. /\ IsActive(n.cur) => HandDuty(n)
      /\ IsActive(n.cur)' => HandDuty(n)'
  BY DEF HandDuty
<1>4. /\ worker[n.cur] = "none" /\ (\A a \in n.pend : worker[a] = "none") => PhaseDuty(n)
      /\ worker'[n.cur] = "none" /\ (\A a \in n.pend : worker'[a] = "none") => PhaseDuty(n)'
  BY <1>1 DEF PhaseDuty
<1> QED BY <1>2, <1>3, <1>4 DEF Duty

(* Marking the work item and the trial as running.                         *)
LEMMA RunningKeeps ==
    ASSUME SoleInv, SchedulerInv', NEW p \in Procs, NEW r, Ours(p, r),
           WorkRunning(p) \/ TrialRunning(p)
    PROVE  SoleInv'
<1>1. r = proc[p] /\ r \in ProcRecords /\ r.pc \in {"work_running", "trial_running"}
  BY DEF WorkRunning, TrialRunning, At, Ours
<1>2. r.pc \in Preparing /\ r.pc \in Starting /\ r.pc \in Holding
  BY <1>1 DEF Preparing, Starting, Holding
<1>3. r.done = {} /\ \A a \in r.pend : worker[a] = "none"
  BY <1>2, Prepares
<1>4. PICK c \in Existing : c = r.cur /\ IsActive(c) /\ c \notin r.pend /\ worker[c] = "none"
  BY <1>2 DEF Ours, Good, Fits, Duty, HandDuty, PhaseDuty
<1>5. QuietCall /\ UNCHANGED <<worker, job>>
  BY StartMoves DEF SoleInv, QuietMove, WorkRunning, TrialRunning, OnlyProc
<1>6. CASE WorkRunning(p)
  <2>1. r.pc = "work_running" /\ Goto(p, "trial_running") /\ UpdateWorkItem(attempt[c].work, "running")
    BY <1>1, <1>4, <1>6 DEF WorkRunning, At, CurWork, Cur
  <2>2. PICK n : Moved(p, r, n, "trial_running")
    BY <2>1, GotoMoved
  <2>3. PICK v \in Work : v = attempt[c].work
    BY <1>4 DEF SoleInv, SchedulerInv, RowInv, Existing
  <2>4. UNCHANGED <<lease, attempt>> /\ workState' = [workState EXCEPT ![v] = "running"]
    BY <2>1, <2>3 DEF UpdateWorkItem
  <2>5. workState'[v] = "running" /\ \A w \in Work \ {v} : workState'[w] = workState[w]
    BY <2>4 DEF SoleInv, SchedulerInv, SchedulerTypeOK, StoreTypeOK
  <2>6. Touches(c)
    BY <1>5, <2>3, <2>4, <2>5, QuietAttempts DEF Touches, SoleInv, SchedulerInv, SchedulerTypeOK
  <2>7. Busy(r) \subseteq Busy(r) \ {c}
    BY <1>3, <1>4, <2>1 DEF Busy
  <2>8. BatchDuty(r)' /\ BusyDuty(r)'
    BY <1>4, <2>6, <2>7, TouchStays DEF Ours
  <2>9. n.pc = "trial_running" /\ n.cur = c /\ n.pend = r.pend /\ n.done = {} /\ n.batch = r.batch /\ n.now = r.now
    BY <1>3, <1>4, <2>2 DEF Moved
  <2>10. BatchDuty(n)'
    BY <2>8, <2>9 DEF BatchDuty
  <2>11. IsActive(c)' /\ WorkStateOf(c)' = "running"
    BY <1>4, <2>3, <2>4, <2>5 DEF IsActive, WorkStateOf
  <2>12. BusyDuty(n)'
    <3>1. Busy(n)' \subseteq Busy(r)' \cup {c}
      BY <2>9 DEF Busy
    <3> QED BY <2>8, <2>11, <3>1 DEF BusyDuty
  <2>13. Duty(n)'
    BY <1>3, <1>4, <1>5, <2>9, <2>10, <2>11, <2>12, StartDuty
  <2>14. FailuresKept /\ \A w \in Work : Allowed(w)
    BY <2>4, <2>5 DEF FailuresKept, Allowed
  <2>15. Plain(p, n)
    BY <1>1, <1>5, <2>2 DEF Plain, Moved
  <2> QED BY <2>13, <2>14, <2>15, PlainKeeps DEF Ours
<1>7. CASE TrialRunning(p)
  <2>1. r.pc = "trial_running" /\ Goto(p, "attempt_running")
    BY <1>1, <1>7 DEF TrialRunning, At
  <2>2. PICK n : Moved(p, r, n, "attempt_running")
    BY <2>1, GotoMoved
  <2>3. Aside
    BY <1>5, <1>7 DEF TrialRunning, UpdatePlannedTrial, Aside
  <2>4. /\ n.pc = "attempt_running" /\ n.cur = c /\ n.pend = r.pend /\ n.done = {} /\ n.batch = r.batch
        /\ n.now = r.now
    BY <1>3, <1>4, <2>2 DEF Moved
  <2>5. Busy(n) = Busy(r)
    BY <1>3, <1>4, <2>1, <2>4 DEF Busy
  <2>6. BatchDuty(n) /\ BusyDuty(n)
    BY <2>4, <2>5 DEF Ours, Duty, BatchDuty, BusyDuty
  <2>7. Duty(n)
    BY <1>3, <1>4, <2>4, <2>6, StartDuty
  <2> QED BY <1>5, <2>2, <2>3, <2>4, <2>7, AsideKeeps DEF Moved
<1> QED BY <1>6, <1>7

(* The duties of a process that waits for its workers, or looks at what    *)
(* they have done.                                                         *)
LEMMA WaitDuty ==
    ASSUME NEW n, n.pc \in {"wait", "renew", "handle", "abort", "complete"}, n.batch = {},
           n.pend \cap n.done = {}
    PROVE  /\ BusyDuty(n) => Duty(n)
           /\ BusyDuty(n)' => Duty(n)'
           /\ Busy(n) = n.pend \cup n.done
<1>1. /\ n.pc \in Working /\ n.pc \notin Preparing /\ n.pc \notin Resting \cup {"lease"}
      /\ n.pc \notin Reporting /\ n.pc \notin Settling /\ n.pc \notin Starting /\ n.pc \notin Recording
      /\ n.pc \notin {"work_running", "retry", "requeue", "release", "settle_requeue", "write_attempt",
                      "write_trial", "write_work", "trial_running", "attempt_running",
                      "settle_attempt", "settle_trial", "settle_work", "settle_retry"}
  BY DEF Working, Preparing, Starting, Resting, Reporting, Settling, Recording
<1>2. WorkDuty(n) /\ ResultDuty(n) /\ WorkDuty(n)' /\ ResultDuty(n)'
  BY <1>1 DEF WorkDuty, ResultDuty
<1>3. HandDuty(n) /\ HandDuty(n)' /\ PhaseDuty(n) /\ PhaseDuty(n)' /\ BatchDuty(n) /\ BatchDuty(n)'
  BY <1>1 DEF HandDuty, PhaseDuty, BatchDuty
<1>4. Busy(n) = n.pend \cup n.done
  BY <1>1 DEF Busy
<1> QED BY <1>2, <1>3, <1>4 DEF Duty

(* Marking the attempt as running and, after the last, starting the        *)
(* workers: none of them has an external job yet.                          *)
LEMMA AttemptRunningKeeps ==
    ASSUME SoleInv, SchedulerInv', NEW p \in Procs, NEW r, Ours(p, r), AttemptRunning(p)
    PROVE  SoleInv'
<1>1. r = proc[p] /\ r \in ProcRecords /\ r.pc = "attempt_running"
  BY DEF AttemptRunning, At, Ours
<1>2. r.pc \in Preparing /\ r.pc \in Starting /\ r.pc \in Holding
  BY <1>1 DEF Preparing, Starting, Holding
<1>3. r.done = {} /\ \A a \in r.pend : worker[a] = "none"
  BY <1>2, Prepares
<1>4. PICK c \in Existing : c = r.cur /\ IsActive(c) /\ c \notin r.pend /\ worker[c] = "none"
  BY <1>2 DEF Ours, Good, Fits, Duty, HandDuty, PhaseDuty
<1>5. PICK P : P = r.pend \cup {c}
  OBVIOUS
<1>6. PICK x \in {"wait", "create"} : x = IF r.batch = {} THEN "wait" ELSE "create"
  OBVIOUS
<1>7. PICK n : n = [r EXCEPT !.pc = x, !.cur = None, !.pend = P]
  OBVIOUS
<1>8. n.pc = x /\ n.pend = P /\ n.done = {} /\ n.batch = r.batch /\ n.now = r.now
  BY <1>1, <1>3, <1>7 DEF ProcRecords
<1>9. proc' = [proc EXCEPT ![p] = n] /\ n = proc'[p]
  <2>1. proc' = [proc EXCEPT ![p] = n]
    BY <1>1, <1>4, <1>5, <1>6, <1>7 DEF AttemptRunning, Cur
  <2> QED BY <2>1, Lands
<1>10. /\ TransitionAttempt(c, "running", None, None) /\ UNCHANGED job
       /\ worker' = [a \in AttemptIds |-> IF r.batch = {} /\ a \in P THEN "ready" ELSE worker[a]]
  BY <1>1, <1>4, <1>5 DEF AttemptRunning, Cur
<1>11. QuietCall /\ c \in AttemptIds
  BY <1>4, PoolMoves DEF SoleInv, QuietMove, Existing
<1>12. Steady /\ LeasesEnd(lease') /\ SubmissionsLast
  BY <1>11, QuietAttempts, QuietLeases, SubmissionsStay DEF SoleInv, SchedulerInv, SchedulerTypeOK, StoreCall
<1>13. \A a \in P : worker[a] = "none" /\ a \in AttemptIds /\ job[a] = "none"
  BY <1>3, <1>4, <1>5, <1>11 DEF Ours, Good, Existing, SoleInv, JobInv
<1>14. \A a \in AttemptIds : worker'[a] = worker[a] \/ (a \in P /\ worker'[a] = "ready")
  BY <1>10
<1>15. HarmStays /\ JobsStay
  BY <1>10, <1>13, <1>14 DEF HarmStays, JobsStay, Harmless
<1>16. FailuresKept /\ (\A w \in Work : Allowed(w)) /\ UNCHANGED <<workState, lease>>
  <2>1. Columns(c, "running", None, None)
    BY <1>10, <1>11, OutcomeColumns
  <2>2. None # "infrastructure"
    BY StoreConstants DEF Failures
  <2> QED BY <1>11, <2>1, <2>2, OutcomeFailures DEF Columns
<1>17. HistoryInv' /\ FreeInv' /\ OwnerInv' /\ NoOrphanJob'
  BY <1>12, <1>15, <1>16, QuietKeeps
<1>18. Busy(n) \subseteq Busy(r)
  BY <1>1, <1>3, <1>4, <1>5, <1>8, <1>11 DEF Busy
<1>19. Drift
  BY <1>12, <1>16 DEF Drift, Drifts
<1>20. BatchDuty(n)' /\ BusyDuty(n)'
  BY <1>1, <1>8, <1>18, <1>19, DriftStays DEF Ours
<1>21. Duty(n)'
  <2>1. CASE r.batch = {}
    BY <1>6, <1>8, <1>20, <2>1, WaitDuty
  <2>2. CASE r.batch # {}
    <3>1. n.pc = "create" /\ n.pc \in Between
      BY <1>6, <1>8, <2>2 DEF Between
    <3>2. \A a \in n.pend : worker'[a] = "none"
      BY <1>8, <1>10, <1>13, <2>2
    <3> QED BY <1>8, <1>20, <3>1, <3>2, PrepDuty
  <2> QED BY <2>1, <2>2
<1>22. DutyInv'
  BY <1>1, <1>9, <1>21, DutiesKept DEF Ours
<1>23. ASSUME NEW a \in AttemptIds, worker'[a] \in Alive PROVE \E q \in Procs : a \in proc'[q].pend
  <2>1. CASE a \in P
    BY <1>8, <1>9, <2>1
  <2>2. CASE a \notin P
    <3>1. PICK q \in Procs : a \in proc[q].pend
      BY <1>14, <1>23, <2>2 DEF SoleInv, JobInv
    <3>2. q # p
      BY <1>1, <1>5, <2>2, <3>1
    <3> QED BY <1>9, <3>1, <3>2 DEF SoleInv, SchedulerInv, SchedulerTypeOK
  <2> QED BY <2>1, <2>2
<1>24. JobInv'
  <2>1. ASSUME NEW a \in AttemptIds
        PROVE  /\ job'[a] # "none" => worker'[a] \notin {"none", "ready", "recorded"}
               /\ job'[a] # "none" \/ worker'[a] = "recorded" => submission'[a].state # "absent"
               /\ worker'[a] = "succeeded" => job'[a] = "succeeded"
               /\ worker'[a] \in {"failed", "retryable"} => job'[a] = "failed"
    <3>1. CASE a \in P /\ worker'[a] = "ready"
      BY <1>10, <1>13, <3>1
    <3>2. CASE worker'[a] = worker[a]
      BY <1>10, <1>12, <3>2 DEF SoleInv, JobInv, SubmissionsLast
    <3> QED BY <1>14, <3>1, <3>2
  <2> QED BY <1>23, <2>1 DEF JobInv
<1> QED BY <1>17, <1>22, <1>24 DEF SoleInv

-----------------------------------------------------------------------------
(* Steps of a process that works off its batch.  Those that touch no table *)
(* and leave it with less in hand:                                         *)
LEMMA WaitKeeps ==
    ASSUME SoleInv, SchedulerInv', NEW p \in Procs, NEW r, Ours(p, r), r.pc \in Working, NEW n,
           QuietCall, Aside, proc' = [proc EXCEPT ![p] = n],
           n.pc \in {"wait", "renew", "handle", "abort", "complete"},
           n.batch = r.batch, n.pend \cap n.done = {}, n.pend \cup n.done \subseteq r.pend \cup r.done,
           \A a \in r.pend : worker[a] \in Alive => a \in n.pend
    PROVE  SoleInv'
<1>1. n.batch = {}
  BY Phases DEF Ours, Duty, PhaseDuty
<1>2. Busy(n) \subseteq Busy(r)
  BY <1>1, WaitDuty DEF Busy
<1>3. BusyDuty(n)
  BY <1>2 DEF Ours, Duty, BusyDuty
<1>4. Duty(n)
  BY <1>1, <1>3, WaitDuty
<1> QED BY <1>4, Lands, AsideKeeps

(* Waking up, completing a plan, and going on to the heartbeat.            *)
LEMMA HandleKeeps ==
    ASSUME SoleInv, SchedulerInv', NEW p \in Procs, NEW r, Ours(p, r),
           Wake(p) \/ CompletePlan(p) \/ HandleEnd(p) \/ RenewEnd(p) \/ RequeueRefused(p)
    PROVE  SoleInv'
<1>1. r = proc[p] /\ r \in ProcRecords /\ r.pc \in {"wait", "complete", "handle", "renew", "requeue"}
  BY DEF Wake, CompletePlan, HandleEnd, RenewEnd, RequeueRefused, At, Ours
<1>2. r.pc \in Working /\ r.pend \cap r.done = {}
  BY <1>1 DEF Working, Recording, Ours, Duty, HandDuty
<1>3. QuietCall /\ UNCHANGED <<worker, job>>
  BY HandleMoves, PutDownMoves, RenewMoves, RetryMoves
     DEF SoleInv, QuietMove, Wake, CompletePlan, HandleEnd, RenewEnd, RequeueRefused, OnlyProc
<1>4. Aside
  BY <1>3 DEF Aside, Wake, CompletePlan, HandleEnd, RenewEnd, RequeueRefused,
     CompletePlanIfTerminal, NoStoreCall, storeVars
<1>5. CASE Wake(p)
  <2>1. PICK done : done = {a \in r.pend : worker[a] \in Finished}
    OBVIOUS
  <2>2. PICK n : n = [r EXCEPT !.pc = "handle", !.done = done, !.pend = r.pend \ done]
    OBVIOUS
  <2>3. n.pc = "handle" /\ n.done = done /\ n.pend = r.pend \ done /\ n.batch = r.batch
    BY <1>1, <2>2 DEF ProcRecords
  <2>4. proc' = [proc EXCEPT ![p] = n]
    BY <1>1, <1>5, <2>1, <2>2 DEF Wake
  <2>5. \A a \in r.pend : worker[a] \in Alive => a \in n.pend
    BY <2>1, <2>3 DEF Alive, Finished
  <2>6. n.pend \cap n.done = {} /\ n.pend \cup n.done \subseteq r.pend \cup r.done
    BY <2>1, <2>3
  <2> QED BY <1>2, <1>3, <1>4, <2>3, <2>4, <2>5, <2>6, WaitKeeps
<1>6. CASE CompletePlan(p)
  <2>1. PICK n : n = [r EXCEPT !.pc = "handle", !.cur = None, !.res = NoResult]
    OBVIOUS
  <2>2. n.pc = "handle" /\ n.done = r.done /\ n.pend = r.pend /\ n.batch = r.batch
    BY <1>1, <2>1 DEF ProcRecords
  <2>3. proc' = [proc EXCEPT ![p] = n]
    BY <1>1, <1>6, <2>1 DEF CompletePlan
  <2> QED BY <1>2, <1>3, <1>4, <2>2, <2>3, WaitKeeps
<1>7. CASE HandleEnd(p) /\ r.pend # {}
  <2>1. PICK n : n = [r EXCEPT !.pc = "renew", !.beat = clock, !.todo = r.pend]
    OBVIOUS
  <2>2. n.pc = "renew" /\ n.done = r.done /\ n.pend = r.pend /\ n.batch = r.batch
    BY <1>1, <2>1 DEF ProcRecords
  <2>3. proc' = [proc EXCEPT ![p] = n]
    BY <1>1, <1>7, <2>1 DEF HandleEnd
  <2> QED BY <1>2, <1>3, <1>4, <2>2, <2>3, WaitKeeps
<1>8. CASE HandleEnd(p) /\ r.pend = {}
  <2>1. PICK n : n = BeginDispatch(p, [IdleProc EXCEPT !.now = clock])
    OBVIOUS
  <2>2. n.pc = "lease" /\ n.pend = {} /\ n.done = {} /\ n.batch = {}
    BY <2>1 DEF BeginDispatch, IdleProc
  <2>3. proc' = [proc EXCEPT ![p] = n]
    BY <1>1, <1>8, <2>1 DEF HandleEnd
  <2> QED BY <1>3, <1>4, <1>8, <2>2, <2>3, AsideAllowed, EmptyKeeps
<1>9. CASE RenewEnd(p)
  <2>1. PICK n : n = [r EXCEPT !.pc = "wait", !.beat = 0]
    OBVIOUS
  <2>2. n.pc = "wait" /\ n.done = r.done /\ n.pend = r.pend /\ n.batch = r.batch
    BY <1>1, <2>1 DEF ProcRecords
  <2>3. proc' = [proc EXCEPT ![p] = n]
    BY <1>1, <1>9, <2>1 DEF RenewEnd
  <2> QED BY <1>2, <1>3, <1>4, <2>2, <2>3, WaitKeeps
<1>10. CASE RequeueRefused(p)
  <2>1. PICK n : Moved(p, r, n, "abort")
    BY <1>10, GotoMoved DEF RequeueRefused
  <2> QED BY <1>2, <1>3, <1>4, <2>1, WaitKeeps DEF Moved
<1> QED BY <1>5, <1>6, <1>7, <1>8, <1>9, <1>10

(* A dispatch that gives up has waited for its workers.                    *)
LEMMA AbortKeeps ==
    ASSUME SoleInv, SchedulerInv', NEW p \in Procs, NEW r, Ours(p, r), Abort(p)
    PROVE  SoleInv'
<1>1. QuietCall /\ UNCHANGED <<worker, job>>
  BY EndMoves DEF SoleInv, QuietMove, Abort, OnlyProc
<1>2. Aside
  BY <1>1 DEF Aside, Abort, NoStoreCall, storeVars
<1>3. \A a \in r.pend : worker[a] \notin Alive
  BY DEF Abort, Ours, Alive, Finished
<1>4. PICK n : n = IdleProc
  OBVIOUS
<1>5. n.pc = "idle" /\ n.pend = {} /\ n.done = {} /\ n.batch = {} /\ proc' = [proc EXCEPT ![p] = n]
  BY <1>4 DEF IdleProc, Quit, Abort
<1> QED BY <1>1, <1>2, <1>3, <1>5, AsideAllowed, EmptyKeeps

(* A heartbeat moves the end of a lease only.                              *)
LEMMA RenewKeeps ==
    ASSUME SoleInv, SchedulerInv', NEW p \in Procs, NEW r, Ours(p, r), Renew(p)
    PROVE  SoleInv'
<1>1. r = proc[p] /\ r \in ProcRecords /\ r.pc = "renew"
  BY DEF Renew, At, Ours
<1>2. r.batch = {} /\ r.pend \cap r.done = {} /\ Busy(r) = r.pend \cup r.done /\ r.todo \subseteq Existing
  <2>1. r.batch = {} /\ r.pend \cap r.done = {}
    BY <1>1, Phases DEF Ours, Duty, PhaseDuty, HandDuty, Working
  <2> QED BY <1>1, <2>1, WaitDuty DEF Ours, Good, Fits
<1>3. QuietCall /\ UNCHANGED <<worker, job>>
  BY RenewMoves DEF SoleInv, QuietMove, Renew, OnlyProc
<1>4. UNCHANGED <<workState, attempt>> /\ \A k \in LeaseIds : lease'[k].state = lease[k].state
  <2>1. CASE UNCHANGED storeVars
    BY <2>1 DEF storeVars
  <2>2. ASSUME NEW l \in LeaseIds, NEW t, RenewLease(l, Owner, t)
        PROVE  UNCHANGED <<workState, attempt>> /\ \A k \in LeaseIds : lease'[k].state = lease[k].state
    <3>1. PICK row \in LeaseRows : row = lease[l]
      BY DEF SoleInv, SchedulerInv, SchedulerTypeOK, StoreTypeOK
    <3>2. PICK new : new = [row EXCEPT !.expires = t + LeaseTTL]
      OBVIOUS
    <3>3. new.state = row.state
      BY <3>1, <3>2 DEF LeaseRows
    <3>4. lease' = [lease EXCEPT ![l] = new]
      BY <2>2, <3>1, <3>2 DEF RenewLease
    <3> QED BY <2>2, <3>1, <3>3, <3>4 DEF RenewLease, SoleInv, SchedulerInv, SchedulerTypeOK, StoreTypeOK
  <2>3. \A a \in r.todo : attempt[a].lease \in LeaseIds
    BY <1>2 DEF SoleInv, SchedulerInv, RowInv, Existing
  <2> QED BY <1>1, <2>1, <2>2, <2>3 DEF Renew, NoStoreCall
<1>5. ASSUME NEW T, NEW L, proc' = [proc EXCEPT ![p] = [r EXCEPT !.todo = T, !.lost = L]]
      PROVE  SoleInv'
  <2>1. PICK n : n = [r EXCEPT !.todo = T, !.lost = L]
    OBVIOUS
  <2>2. n.pc = "renew" /\ n.done = r.done /\ n.pend = r.pend /\ n.batch = {} /\ n.now = r.now
    BY <1>1, <1>2, <2>1 DEF ProcRecords
  <2>3. n = proc'[p] /\ proc' = [proc EXCEPT ![p] = n]
    BY <1>5, <2>1, Lands
  <2>4. Steady
    BY <1>3, QuietAttempts DEF SoleInv, SchedulerInv, SchedulerTypeOK
  <2>5. Busy(n) = Busy(r)
    BY <1>2, <2>2, WaitDuty
  <2>6. \A a \in Busy(n) : lease'[attempt[a].lease].state = "active" /\ Drifts(attempt[a].work)
    <3>1. \A a \in Busy(r) : a \in Existing /\ IsActive(a)
      BY <1>1, BusyExists DEF Ours, Duty, BusyDuty
    <3>2. \A a \in Existing : attempt[a].lease \in LeaseIds
      BY DEF SoleInv, SchedulerInv, RowInv, Existing
    <3> QED BY <1>4, <2>5, <3>1, <3>2 DEF IsActive, Drifts
  <2>7. Busy(n) \subseteq Existing
    BY <1>1, <2>5, BusyExists
  <2>8. BusyDuty(n)'
    BY <2>4, <2>5, <2>6, <2>7, BusyStays DEF Ours, Duty
  <2>9. Duty(n)'
    BY <1>2, <2>2, <2>8, WaitDuty
  <2>10. FailuresKept /\ \A w \in Work : Allowed(w)
    BY <1>4 DEF FailuresKept, Allowed
  <2>11. Plain(p, n)
    BY <1>1, <1>3, <2>2, <2>3 DEF Plain
  <2> QED BY <2>9, <2>10, <2>11, PlainKeeps DEF Ours
<1>6. PICK a \in r.todo :
         \/ proc' = [proc EXCEPT ![p] = [r EXCEPT !.todo = r.todo \ {a}]]
         \/ proc' = [proc EXCEPT ![p] = [[r EXCEPT !.todo = r.todo \ {a}] EXCEPT
                                            !.lost = r.lost \cup {attempt[a].lease}]]
  <2>1. PICK a \in r.todo :
           LET l == attempt[a].lease
               rest == [proc[p] EXCEPT !.todo = @ \ {a}]
           IN  \/ proc' = [proc EXCEPT ![p] = rest]
               \/ proc' = [proc EXCEPT ![p] = [rest EXCEPT !.lost = @ \cup {l}]]
    BY <1>1 DEF Renew
  <2>2. [r EXCEPT !.todo = r.todo \ {a}].lost = r.lost
    BY <1>1 DEF ProcRecords
  <2> QED BY <1>1, <2>1, <2>2
<1>7. PICK T, L, M : T = r.todo \ {a} /\ L = r.lost /\ M = r.lost \cup {attempt[a].lease}
  OBVIOUS
<1>8. /\ [r EXCEPT !.todo = T] = [r EXCEPT !.todo = T, !.lost = L]
      /\ [[r EXCEPT !.todo = T] EXCEPT !.lost = M] = [r EXCEPT !.todo = T, !.lost = M]
  BY <1>1, <1>7 DEF ProcRecords
<1>9. \/ proc' = [proc EXCEPT ![p] = [r EXCEPT !.todo = T, !.lost = L]]
      \/ proc' = [proc EXCEPT ![p] = [r EXCEPT !.todo = T, !.lost = M]]
  BY <1>6, <1>7, <1>8
<1> QED BY <1>5, <1>9

-----------------------------------------------------------------------------
(* What the scheduler decides to write for a finished worker is true of    *)
(* its external job.                                                       *)
Truthful(res, a) ==
    /\ res.failure = "infrastructure" => Harmless(a)
    /\ res.state = "succeeded" => job[a] = "succeeded"
    /\ res.retry => res.state = "failed"
    /\ res.state # "cancelled"

(* A worker that raised has left no job, or a row that says it may have.   *)
LEMMA RaisedTruth ==
    ASSUME SoleInv, NEW a \in Existing, worker[a] = "raised"
    PROVE  Truthful(RaisedResult(a), a)
<1>1. a \in AttemptIds /\ None # "infrastructure"
  BY StoreConstants DEF Existing, Failures
<1>2. PICK f : f = IF attempt[a].failure # None THEN attempt[a].failure
                   ELSE IF submission[a].state # "absent" THEN "unknown" ELSE "infrastructure"
  OBVIOUS
<1>3. PICK s \in {"failed", "unknown"} :
         s = IF attempt[a].state = "failed" \/ ~(submission[a].state # "absent") THEN "failed" ELSE "unknown"
  OBVIOUS
<1>4. PICK rc : rc = IF submission[a].state # "absent" THEN "pending" ELSE "not_required"
  OBVIOUS
<1>5. RaisedResult(a) = Result(s, f, rc, s = "failed")
  BY <1>2, <1>3, <1>4 DEF RaisedResult
<1>6. submission[a].state = "absent" => Harmless(a)
  BY <1>1 DEF SoleInv, JobInv, Harmless
<1>7. attempt[a].failure = "infrastructure" => Harmless(a)
  BY DEF SoleInv, HistoryInv
<1>8. f = "infrastructure" => Harmless(a)
  BY <1>2, <1>6, <1>7
<1>9. PICK b : b = (s = "failed")
  OBVIOUS
<1>10. /\ Result(s, f, rc, b).state = s /\ Result(s, f, rc, b).failure = f
       /\ Result(s, f, rc, b).retry = b
  BY DEF Result
<1>11. Truthful(Result(s, f, rc, b), a)
  BY <1>3, <1>8, <1>9, <1>10 DEF Truthful
<1> QED BY <1>5, <1>9, <1>11

(* The other outcomes.                                                     *)
LEMMA OutcomeTruth ==
    ASSUME SoleInv, NEW a \in Existing, worker[a] \in Finished
    PROVE  Truthful(OutcomeResult(a), a)
<1>1. a \in AttemptIds /\ None # "infrastructure"
  BY StoreConstants DEF Existing, Failures
<1>2. CASE worker[a] = "raised"
  <2>1. OutcomeResult(a) = RaisedResult(a)
    BY <1>2 DEF OutcomeResult
  <2> QED BY <1>2, <2>1, RaisedTruth
<1>3. CASE worker[a] = "succeeded"
  <2>1. OutcomeResult(a) = Result("succeeded", None, "reconciled", FALSE)
    BY <1>3 DEF OutcomeResult
  <2> QED BY <1>1, <1>3, <2>1 DEF Truthful, Result, SoleInv, JobInv
<1>4. CASE worker[a] = "failed"
  <2>1. OutcomeResult(a) = Result("failed", "final", "reconciled", FALSE)
    BY <1>4 DEF OutcomeResult
  <2> QED BY <2>1 DEF Truthful, Result
<1>5. CASE worker[a] = "retryable"
  <2>1. OutcomeResult(a) = Result("failed", "infrastructure", "reconciled", TRUE)
    BY <1>5 DEF OutcomeResult
  <2>2. Harmless(a)
    BY <1>1, <1>5 DEF SoleInv, JobInv, Harmless
  <2> QED BY <2>1, <2>2 DEF Truthful, Result
<1>6. CASE worker[a] = "unknown"
  <2>1. OutcomeResult(a) = Result("unknown", "unknown", "pending", FALSE)
    BY <1>6 DEF OutcomeResult
  <2> QED BY <2>1 DEF Truthful, Result
<1> QED BY <1>2, <1>3, <1>4, <1>5, <1>6 DEF Finished

(* The labels of the three writes.                                         *)
Written == {"write_attempt", "write_trial", "write_work"}

(* The duties of a process that records the attempt at hand.               *)
LEMMA RecordDuty ==
    ASSUME NEW n, n.pc \in Recording, n.batch = {}, n.pend \cap n.done = {},
           n.cur \notin n.pend \cup n.done
    PROVE  /\ /\ BusyDuty(n) /\ IsActive(n.cur) /\ WorkDuty(n)
              /\ n.pc \in Written \cup {"retry"} => Truthful(n.res, n.cur)
              => Duty(n)
           /\ /\ BusyDuty(n)' /\ IsActive(n.cur)' /\ WorkDuty(n)'
              /\ n.pc \in Written \cup {"retry"} => Truthful(n.res, n.cur)'
              => Duty(n)'
<1>1. /\ n.pc \in Working /\ n.pc \notin Preparing /\ n.pc \notin Resting \cup {"lease"}
      /\ n.pc \notin Settling /\ n.pc \notin Starting
      /\ n.pc \notin {"settle_attempt", "settle_trial", "settle_work", "settle_retry", "settle_requeue"}
      /\ n.pc \in Reporting => n.pc \in Written \cup {"retry"}
  BY DEF Working, Preparing, Starting, Resting, Reporting, Settling, Recording, Written
<1>2. /\ (n.pc \in Written \cup {"retry"} => Truthful(n.res, n.cur)) => ResultDuty(n)
      /\ (n.pc \in Written \cup {"retry"} => Truthful(n.res, n.cur)') => ResultDuty(n)'
  BY <1>1 DEF ResultDuty, Truthful
<1>3. PhaseDuty(n) /\ PhaseDuty(n)' /\ BatchDuty(n) /\ BatchDuty(n)'
  BY <1>1 DEF PhaseDuty, BatchDuty
<1>4. (IsActive(n.cur) => HandDuty(n)) /\ (IsActive(n.cur)' => HandDuty(n)')
  BY DEF HandDuty
<1> QED BY <1>2, <1>3, <1>4 DEF Duty

(* What such a process knows.                                              *)
LEMMA Records ==
    ASSUME NEW p, NEW r, Ours(p, r), r.pc \in Recording
    PROVE  /\ r.cur \in Existing /\ r.cur \in AttemptIds /\ IsActive(r.cur)
           /\ r.cur \notin r.pend \cup r.done
           /\ r.batch = {} /\ r.pend \cap r.done = {} /\ WorkDuty(r) /\ BusyDuty(r)
           /\ r.pc \in Written \cup {"retry"} => Truthful(r.res, r.cur)
           /\ Busy(r) = r.pend \cup r.done \cup (IF r.pc \in Written THEN {r.cur} ELSE {})
<1>1. r.pc \in Holding /\ r.pc \notin Preparing /\ (r.pc \in Written \cup {"retry"} => r.pc \in Reporting)
  BY DEF Recording, Holding, Preparing, Starting, Reporting, Written
<1>2. /\ r.cur \in Existing /\ IsActive(r.cur) /\ r.cur \notin r.pend \cup r.done
      /\ r.batch = {} /\ r.pend \cap r.done = {} /\ WorkDuty(r) /\ BusyDuty(r)
      /\ r.pc \in Written \cup {"retry"} => Truthful(r.res, r.cur)
  BY <1>1 DEF Ours, Good, Fits, Duty, HandDuty, PhaseDuty, ResultDuty, Truthful
<1>3. r.cur \in AttemptIds
  BY <1>2 DEF Existing
<1>4. r.pc \in {"trial_running", "attempt_running", "write_attempt", "write_trial", "write_work"}
         <=> r.pc \in Written
  BY DEF Recording, Written
<1> QED BY <1>2, <1>3, <1>4 DEF Busy

(* Taking up a finished worker.                                            *)
LEMMA HandleDoneKeeps ==
    ASSUME SoleInv, SchedulerInv', NEW p \in Procs, NEW r, Ours(p, r), NEW a \in AttemptIds,
           HandleDone(p, a)
    PROVE  SoleInv'
<1>1. r = proc[p] /\ r \in ProcRecords /\ r.pc = "handle" /\ a \in r.done
  BY DEF HandleDone, At, Ours
<1>2. r.batch = {} /\ r.pend \cap r.done = {} /\ Busy(r) = r.pend \cup r.done /\ BusyDuty(r)
  <2>1. r.batch = {} /\ r.pend \cap r.done = {}
    BY <1>1, Phases DEF Ours, Duty, PhaseDuty, HandDuty, Working
  <2> QED BY <1>1, <2>1, WaitDuty DEF Ours, Duty
<1>3. QuietCall /\ UNCHANGED <<worker, job>>
  BY HandleMoves DEF SoleInv, QuietMove, HandleDone, OnlyProc
<1>4. Aside
  BY <1>3 DEF Aside, HandleDone, NoStoreCall, storeVars
<1>5. IsActive(a) /\ WorkStateOf(a) \in {"running", "cancel_requested"}
  BY <1>1, <1>2 DEF BusyDuty
<1>6. a \in Existing /\ worker[a] \in Finished
  BY <1>1 DEF Ours, Good, SoleInv, SchedulerInv, ProcInv
<1>7. PICK res : res = IF LeaseLost(p, a) THEN Result("unknown", "unknown", "pending", FALSE)
                       ELSE OutcomeResult(a)
  OBVIOUS
<1>8. Truthful(res, a)
  <2>1. Truthful(Result("unknown", "unknown", "pending", FALSE), a)
    BY DEF Truthful, Result
  <2> QED BY <1>6, <1>7, <2>1, OutcomeTruth
<1>9. PICK n : n = [r EXCEPT !.cur = a, !.done = r.done \ {a}, !.pc = "write_attempt", !.res = res]
  OBVIOUS
<1>10. /\ n.pc = "write_attempt" /\ n.cur = a /\ n.done = r.done \ {a} /\ n.pend = r.pend
       /\ n.batch = {} /\ n.res = res
  BY <1>1, <1>2, <1>9 DEF ProcRecords
<1>11. proc' = [proc EXCEPT ![p] = n]
  BY <1>1, <1>5, <1>7, <1>9 DEF HandleDone, WorkStateOf
<1>12. Busy(n) \subseteq Busy(r)
  BY <1>1, <1>2, <1>10 DEF Busy
<1>13. BusyDuty(n)
  BY <1>2, <1>12 DEF BusyDuty
<1>14. WorkDuty(n)
  BY <1>10 DEF WorkDuty
<1>15. n.pc \in Recording /\ n.pend \cap n.done = {} /\ n.cur \notin n.pend \cup n.done
  BY <1>1, <1>2, <1>10 DEF Recording
<1>16. Duty(n)
  BY <1>5, <1>8, <1>10, <1>13, <1>14, <1>15, RecordDuty
<1> QED BY <1>3, <1>4, <1>10, <1>11, <1>16, Lands, AsideKeeps

(* Writing the attempt and the trial.                                      *)
LEMMA WriteRowKeeps ==
    ASSUME SoleInv, SchedulerInv', NEW p \in Procs, NEW r, Ours(p, r),
           WriteAttempt(p) \/ WriteTrial(p)
    PROVE  SoleInv'
<1>1. r = proc[p] /\ r \in ProcRecords /\ r.pc \in {"write_attempt", "write_trial"}
  BY DEF WriteAttempt, WriteTrial, At, Ours
<1>2. r.pc \in Recording /\ r.pc \in Written
  BY <1>1 DEF Recording, Written
<1>3. PICK c \in Existing :
         /\ c = r.cur /\ c \in AttemptIds /\ IsActive(c) /\ Truthful(r.res, c)
         /\ c \notin r.pend \cup r.done /\ r.batch = {} /\ r.pend \cap r.done = {}
         /\ Busy(r) = r.pend \cup r.done \cup {c}
  BY <1>2, Records
<1>4. QuietCall /\ UNCHANGED <<worker, job>>
  BY WriteMoves DEF SoleInv, QuietMove, WriteAttempt, WriteTrial, OnlyProc
<1>5. PICK x \in {"write_trial", "write_work"} : Goto(p, x)
  BY DEF WriteAttempt, WriteTrial
<1>6. PICK n : Moved(p, r, n, x)
  BY <1>5, GotoMoved
<1>7. FailuresKept /\ (\A w \in Work : Allowed(w)) /\ UNCHANGED <<workState, lease>>
  <2>1. CASE WriteAttempt(p)
    <3>1. TransitionAttempt(c, r.res.state, r.res.failure, r.res.recon)
      BY <1>1, <1>3, <2>1 DEF WriteAttempt, Cur
    <3>2. Columns(c, r.res.state, r.res.failure, r.res.recon)
      BY <1>3, <3>1, OutcomeColumns
    <3>3. r.res.failure = "infrastructure" => Harmless(c)
      BY <1>3 DEF Truthful
    <3>4. FailuresKept /\ \A w \in Work : Allowed(w)
      BY <1>3, <3>2, <3>3, OutcomeFailures
    <3> QED BY <3>2, <3>4 DEF Columns
  <2>2. CASE WriteTrial(p)
    <3>1. Aside
      BY <1>4, <2>2 DEF WriteTrial, UpdatePlannedTrial, Aside
    <3> QED BY <3>1, AsideAllowed DEF Aside
  <2> QED BY <2>1, <2>2
<1>8. Steady /\ Drift
  BY <1>4, <1>7, QuietAttempts DEF SoleInv, SchedulerInv, SchedulerTypeOK, Drift, Drifts
<1>9. /\ n.pc = x /\ n.cur = c /\ n.pend = r.pend /\ n.done = r.done /\ n.batch = {} /\ n.res = r.res
      /\ n.now = r.now
  BY <1>3, <1>6 DEF Moved
<1>10. Busy(n) \subseteq Busy(r)
  BY <1>3, <1>9 DEF Busy
<1>11. BusyDuty(n)'
  BY <1>1, <1>8, <1>9, <1>10, DriftStays DEF Ours
<1>12. IsActive(c)' /\ Truthful(n.res, c)' /\ WorkDuty(n)'
  <2>1. attempt'[c].lease = attempt[c].lease
    BY <1>3, <1>8 DEF Steady, AttemptKept, SameIdentity
  <2> QED BY <1>3, <1>4, <1>7, <1>9, <2>1 DEF IsActive, Truthful, Harmless, WorkDuty
<1>13. n.pc \in Recording
  BY <1>9 DEF Recording
<1>14. Duty(n)'
  BY <1>3, <1>9, <1>11, <1>12, <1>13, RecordDuty
<1>15. Plain(p, n)
  BY <1>1, <1>4, <1>6 DEF Plain, Moved
<1> QED BY <1>7, <1>14, <1>15, PlainKeeps DEF Ours

(* Writing the work item: a job recorded as succeeded has ended.           *)
LEMMA WriteWorkKeeps ==
    ASSUME SoleInv, SchedulerInv', NEW p \in Procs, NEW r, Ours(p, r), WriteWork(p)
    PROVE  SoleInv'
<1>1. r = proc[p] /\ r \in ProcRecords /\ r.pc = "write_work"
  BY DEF WriteWork, At, Ours
<1>2. r.pc \in Recording /\ r.pc \in Written /\ r.pc \in Writing
  BY <1>1 DEF Recording, Written, Writing
<1>3. PICK c \in Existing :
         /\ c = r.cur /\ c \in AttemptIds /\ IsActive(c) /\ Truthful(r.res, c)
         /\ c \notin r.pend \cup r.done /\ r.batch = {} /\ r.pend \cap r.done = {}
         /\ Busy(r) = r.pend \cup r.done \cup {c}
  BY <1>2, Records
<1>4. QuietCall /\ UNCHANGED <<worker, job>>
  BY WriteMoves DEF SoleInv, QuietMove, WriteWork, OnlyProc
<1>5. PICK x \in {"complete", "retry", "release"} : Goto(p, x) /\ (x = "retry" => r.res.retry)
  BY <1>1 DEF WriteWork
<1>6. PICK n : Moved(p, r, n, x)
  BY <1>5, GotoMoved
<1>7. PICK v \in Work : v = attempt[c].work
  BY <1>3 DEF SoleInv, SchedulerInv, RowInv, Existing
<1>8. UNCHANGED <<lease, attempt>> /\ workState' = [workState EXCEPT ![v] = r.res.state]
  BY <1>1, <1>3, <1>7 DEF WriteWork, UpdateWorkItem, CurWork, Cur
<1>9. workState'[v] = r.res.state /\ \A w \in Work \ {v} : workState'[w] = workState[w]
  BY <1>8 DEF SoleInv, SchedulerInv, SchedulerTypeOK, StoreTypeOK
<1>10. r.res.state \in {"succeeded", "failed", "unknown"}
  BY <1>2, <1>3 DEF Ours, Good, Fits, Outcomes, Truthful
<1>11. \A w \in Work : Allowed(w)
  <2>1. r.res.state = "succeeded" => \A a \in AttemptIds : attempt[a].work = v => job[a] # "running"
    BY <1>3, <1>7, FreeAfter DEF Truthful, SoleInv, HistoryInv
  <2> QED BY <1>9, <1>10, <2>1 DEF Allowed
<1>12. FailuresKept
  BY <1>8 DEF FailuresKept
<1>13. Touches(c)
  BY <1>4, <1>7, <1>8, <1>9, QuietAttempts DEF Touches, SoleInv, SchedulerInv, SchedulerTypeOK
<1>14. /\ n.pc = x /\ n.cur = c /\ n.pend = r.pend /\ n.done = r.done /\ n.batch = {} /\ n.res = r.res
       /\ n.now = r.now
  BY <1>3, <1>6 DEF Moved
<1>15. Busy(n) \subseteq Busy(r) \ {c}
  BY <1>3, <1>14 DEF Busy
<1>16. BusyDuty(n)'
  BY <1>1, <1>3, <1>13, <1>14, <1>15, TouchStays DEF Ours
<1>17. IsActive(c)' /\ Truthful(n.res, c)'
  BY <1>3, <1>4, <1>8, <1>14 DEF IsActive, Truthful, Harmless
<1>18. Duty(n)'
  <2>1. CASE x = "complete"
    BY <1>3, <1>14, <1>16, <2>1, WaitDuty
  <2>2. CASE x # "complete"
    <3>1. n.pc \in Recording /\ n.pc \in {"retry", "release"}
      BY <1>14, <2>2 DEF Recording
    <3>2. WorkStateOf(c)' = r.res.state
      BY <1>7, <1>8, <1>9 DEF WorkStateOf
    <3>3. WorkDuty(n)'
      BY <1>3, <1>5, <1>10, <1>14, <3>1, <3>2 DEF WorkDuty, Truthful
    <3> QED BY <1>3, <1>14, <1>16, <1>17, <3>1, <3>3, RecordDuty
  <2> QED BY <2>1, <2>2
<1>19. Plain(p, n)
  BY <1>1, <1>4, <1>6 DEF Plain, Moved
<1> QED BY <1>11, <1>12, <1>18, <1>19, PlainKeeps DEF Ours

(* Deciding on a retry, and queueing the work item: it is free.            *)
LEMMA RetryKeeps ==
    ASSUME SoleInv, SchedulerInv', NEW p \in Procs, NEW r, Ours(p, r), RetryCheck(p) \/ Requeue(p)
    PROVE  SoleInv'
<1>1. r = proc[p] /\ r \in ProcRecords /\ r.pc \in {"retry", "requeue"}
  BY DEF RetryCheck, Requeue, At, Ours
<1>2. r.pc \in Recording /\ r.pc \notin Written
  BY <1>1 DEF Recording, Written
<1>3. PICK c \in Existing :
         /\ c = r.cur /\ c \in AttemptIds /\ IsActive(c) /\ (r.pc = "retry" => Truthful(r.res, c))
         /\ c \notin r.pend \cup r.done /\ r.batch = {} /\ r.pend \cap r.done = {}
         /\ Busy(r) = r.pend \cup r.done /\ BusyDuty(r) /\ WorkDuty(r)
  BY <1>2, Records
<1>4. QuietCall /\ UNCHANGED <<worker, job>>
  BY RetryMoves DEF SoleInv, QuietMove, RetryCheck, Requeue, OnlyProc
<1>5. WorkStateOf(c) = "failed" /\ (r.pc = "requeue" => Free(attempt[c].work))
  BY <1>1, <1>3 DEF WorkDuty
<1>6. CASE RetryCheck(p)
  <2>1. r.pc = "retry" /\ Aside
    BY <1>1, <1>4, <1>6 DEF RetryCheck, At, Aside, NoStoreCall, storeVars
  <2>2. PICK x \in {"requeue", "release"} :
           Goto(p, x) /\ (x = "requeue" => MayRetry(attempt[c].work, r.res.failure))
    BY <1>1, <1>3, <1>6 DEF RetryCheck, CurWork, Cur
  <2>3. PICK n : Moved(p, r, n, x)
    BY <2>2, GotoMoved
  <2>4. n.pc = x /\ n.cur = c /\ n.pend = r.pend /\ n.done = r.done /\ n.batch = {} /\ n.res = r.res
    BY <1>3, <2>3 DEF Moved
  <2>5. x = "requeue" => Free(attempt[c].work)
    <3>1. ASSUME x = "requeue" PROVE Free(attempt[c].work)
      <4>1. MayRetry(attempt[c].work, r.res.failure) /\ r.res.failure = "infrastructure"
        BY <2>2, <3>1 DEF MayRetry
      <4>2. Harmless(c) /\ IsLast(c)
        BY <1>3, <2>1, <4>1 DEF Truthful, SoleInv, HistoryInv
      <4> QED BY <4>1, <4>2, FreeAfter
    <3> QED BY <3>1
  <2>6. Busy(n) = Busy(r)
    BY <1>3, <2>4 DEF Busy
  <2>7. BusyDuty(n)
    BY <1>3, <2>6 DEF BusyDuty
  <2>8. WorkDuty(n)
    BY <1>5, <2>4, <2>5 DEF WorkDuty
  <2>9. n.pc \in Recording /\ n.pc \notin Written \cup {"retry"}
    BY <2>4 DEF Recording, Written
  <2>10. Duty(n)
    BY <1>3, <2>4, <2>7, <2>8, <2>9, RecordDuty
  <2> QED BY <1>4, <2>1, <2>3, <2>4, <2>10, AsideKeeps DEF Moved
<1>7. CASE Requeue(p)
  <2>1. r.pc = "requeue" /\ Goto(p, "release")
    BY <1>1, <1>7 DEF Requeue, At
  <2>2. PICK n : Moved(p, r, n, "release")
    BY <2>1, GotoMoved
  <2>3. PICK v \in Work : v = attempt[c].work
    BY <1>3 DEF SoleInv, SchedulerInv, RowInv, Existing
  <2>4. /\ UNCHANGED <<lease, attempt>>
        /\ workState' = [workState EXCEPT ![v] = "queued"] \/ UNCHANGED workState
    BY <1>1, <1>3, <1>7, <2>3 DEF Requeue, ScheduleRetry, CurWork, Cur
  <2>5. workState'[v] \in {"queued", "failed"} /\ \A w \in Work \ {v} : workState'[w] = workState[w]
    BY <1>5, <2>3, <2>4 DEF WorkStateOf, SoleInv, SchedulerInv, SchedulerTypeOK, StoreTypeOK
  <2>6. FailuresKept /\ \A w \in Work : Allowed(w)
    BY <1>5, <2>1, <2>3, <2>4, <2>5 DEF FailuresKept, Allowed
  <2>7. Touches(c)
    BY <1>4, <2>3, <2>4, <2>5, QuietAttempts DEF Touches, SoleInv, SchedulerInv, SchedulerTypeOK
  <2>8. /\ n.pc = "release" /\ n.cur = c /\ n.pend = r.pend /\ n.done = r.done /\ n.batch = {}
        /\ n.now = r.now
    BY <1>3, <2>2 DEF Moved
  <2>9. Busy(n) \subseteq Busy(r) \ {c}
    BY <1>3, <2>8 DEF Busy
  <2>10. BusyDuty(n)'
    BY <1>1, <1>3, <2>7, <2>8, <2>9, TouchStays DEF Ours
  <2>11. IsActive(c)' /\ WorkStateOf(c)' \in {"queued", "failed"}
    BY <1>3, <2>3, <2>4, <2>5 DEF IsActive, WorkStateOf
  <2>12. WorkDuty(n)'
    BY <2>8, <2>11 DEF WorkDuty
  <2>13. n.pc \in Recording /\ n.pc \notin Written \cup {"retry"}
    BY <2>8 DEF Recording, Written
  <2>14. Duty(n)'
    BY <1>3, <2>8, <2>10, <2>11, <2>12, <2>13, RecordDuty
  <2>15. Plain(p, n)
    BY <1>1, <1>4, <2>2 DEF Plain, Moved
  <2> QED BY <2>6, <2>14, <2>15, PlainKeeps DEF Ours
<1> QED BY <1>6, <1>7

(* Releasing the lease of what has been recorded queues nothing.           *)
LEMMA ReleaseKeeps ==
    ASSUME SoleInv, SchedulerInv', NEW p \in Procs, NEW r, Ours(p, r), Release(p)
    PROVE  SoleInv'
<1>1. r = proc[p] /\ r \in ProcRecords /\ r.pc = "release"
  BY DEF Release, At, Ours
<1>2. r.pc \in Recording /\ r.pc \notin Written
  BY <1>1 DEF Recording, Written
<1>3. PICK c \in Existing :
         /\ c = r.cur /\ c \in AttemptIds /\ IsActive(c)
         /\ c \notin r.pend \cup r.done /\ r.batch = {} /\ r.pend \cap r.done = {}
         /\ Busy(r) = r.pend \cup r.done /\ WorkDuty(r)
  BY <1>2, Records
<1>4. QuietCall /\ UNCHANGED <<worker, job>>
  BY ReleaseMoves DEF SoleInv, QuietMove, Release, OnlyProc
<1>5. PICK n : Moved(p, r, n, "complete")
  BY GotoMoved DEF Release
<1>6. WorkStateOf(c) \notin {"leased", "running"}
  BY <1>1, <1>3 DEF WorkDuty
<1>7. PICK l \in LeaseIds : l = attempt[c].lease /\ lease[l].work = attempt[c].work
  <2>1. attempt[c].lease \in LeaseIds /\ attempt[c].lease # None
    BY <1>3, StoreConstants DEF SoleInv, SchedulerInv, RowInv, Existing
  <2> QED BY <1>3, <2>1 DEF SoleInv, SchedulerInv, AttemptIdentity
<1>8. ReleaseLease(l, Owner)
  BY <1>1, <1>3, <1>7 DEF Release, CurLease, Cur
<1>9. UNCHANGED <<workState, attempt>> /\ lease' = [lease EXCEPT ![l].state = "released"]
  BY <1>6, <1>7, <1>8 DEF ReleaseLease, WorkStateOf
<1>10. \A k \in LeaseIds \ {l} : lease'[k] = lease[k]
  BY <1>9 DEF SoleInv, SchedulerInv, SchedulerTypeOK, StoreTypeOK
<1>11. FailuresKept /\ \A w \in Work : Allowed(w)
  BY <1>9 DEF FailuresKept, Allowed
<1>12. Touches(c)
  BY <1>4, <1>7, <1>9, <1>10, QuietAttempts DEF Touches, SoleInv, SchedulerInv, SchedulerTypeOK
<1>13. n.pc = "complete" /\ n.pend = r.pend /\ n.done = r.done /\ n.batch = {} /\ n.now = r.now
  BY <1>3, <1>5 DEF Moved
<1>14. Busy(n) \subseteq Busy(r) \ {c}
  BY <1>3, <1>13 DEF Busy
<1>15. BusyDuty(n)'
  BY <1>1, <1>3, <1>12, <1>13, <1>14, TouchStays DEF Ours
<1>16. Duty(n)'
  BY <1>3, <1>13, <1>15, WaitDuty
<1>17. Plain(p, n)
  BY <1>1, <1>4, <1>5 DEF Plain, Moved
<1> QED BY <1>11, <1>16, <1>17, PlainKeeps DEF Ours

(* Its lease is its own, so the steps for a lost one are never taken, and  *)
(* nobody is inside cancel_active.                                         *)
LEMMA NeverTaken ==
    ASSUME SoleInv, NEW p \in Procs, NEW r, Ours(p, r)
    PROVE  ~ReleaseQuietly(p) /\ ~ReleaseRefused(p) /\ ~UnknownTrial(p) /\ ~UnknownWork(p)
           /\ ~CancelActive(p)
<1>1. r = proc[p] /\ r.pc \in Resting \cup Preparing \cup Working
  BY DEF Ours, Duty, PhaseDuty
<1>2. r.pc \notin {"release_quietly", "unknown_trial", "unknown_work", "cancel_list", "cancel",
                   "cancel_attempt", "cancel_work", "cancel_trial", "cancel_complete", "cancel_release"}
  BY <1>1 DEF Resting, Preparing, Working, Recording, Settling, Starting
<1>3. ~ReleaseQuietly(p) /\ ~UnknownTrial(p) /\ ~UnknownWork(p)
  BY <1>1, <1>2 DEF ReleaseQuietly, UnknownTrial, UnknownWork, At
<1>4. ~CancelActive(p)
  BY <1>1, <1>2 DEF CancelActive, CancelList, CancelSkip, CancelItem, CancelAttempt, CancelWork,
     CancelTrial, CancelComplete, CancelRelease, CancelEnd, At
<1>5. ASSUME ReleaseRefused(p) PROVE FALSE
  <2>1. r.pc = "release" /\ r.pc \in Recording
    BY <1>1, <1>5 DEF ReleaseRefused, At, Recording
  <2>2. r.cur \in Existing /\ IsActive(r.cur)
    BY <2>1, Records
  <2>3. attempt[r.cur].lease \in LeaseIds
    BY <2>2 DEF SoleInv, SchedulerInv, RowInv, Existing
  <2>4. Releasable(attempt[r.cur].lease, Owner)
    BY <2>2, <2>3 DEF Releasable, IsActive, SoleInv, OwnerInv
  <2> QED BY <1>1, <1>5, <2>4 DEF ReleaseRefused, CurLease, Cur
<1> QED BY <1>3, <1>4, <1>5

-----------------------------------------------------------------------------
(* Steps that leave every process where it is: the workers, the jobs, the  *)
(* clock and the request of a cancellation.                                *)
Still ==
    /\ QuietCall /\ UNCHANGED <<proc, lease>> /\ \A w \in Work : Drifts(w)
    /\ HarmStays /\ FailuresKept
    /\ \A a \in AttemptIds :
          /\ job[a] = "succeeded" => job'[a] = "succeeded"
          /\ worker[a] = "none" => worker'[a] = "none"
          /\ attempt'[a].recon # attempt[a].recon => worker[a] \in Alive

(* The process knows what it knew.                                         *)
LEMMA StillDuty ==
    ASSUME SoleDispatcher, SoleInv, Still, Steady, NEW p \in Procs, NEW r, r = proc[p]
    PROVE  Duty(r)'
<1>1. Duty(r) /\ Good(r) /\ (Dispatches(p) \/ r.pc = "idle")
  BY DEF SoleInv, DutyInv, SchedulerInv, ProcInv
<1>2. Drift
  BY DEF Still, Drift
<1>3. BatchDuty(r)' /\ BusyDuty(r)'
  BY <1>1, <1>2, DriftStays
<1>4. ASSUME r.pc \in Holding
      PROVE  /\ r.cur \in AttemptIds /\ attempt'[r.cur].work = attempt[r.cur].work
             /\ (IsActive(r.cur) => IsActive(r.cur)') /\ attempt[r.cur].work \in Work
             /\ WorkStateOf(r.cur)' = workState'[attempt[r.cur].work]
             /\ Drifts(attempt[r.cur].work)
  <2>1. r.cur \in AttemptIds /\ attempt[r.cur].work \in Work
    BY <1>1, <1>4 DEF Good, Fits, Existing, SoleInv, SchedulerInv, RowInv
  <2>2. attempt'[r.cur].work = attempt[r.cur].work /\ attempt'[r.cur].lease = attempt[r.cur].lease
    BY <2>1 DEF Steady, AttemptKept, SameIdentity
  <2> QED BY <2>1, <2>2 DEF IsActive, WorkStateOf, Still
<1>5. /\ Starting \cup Recording \cup Settling \cup Reporting \subseteq Holding
      /\ Starting \subseteq Preparing
      /\ {"work_running", "retry", "requeue", "release", "settle_requeue"} \subseteq Holding
  BY DEF Starting, Recording, Settling, Reporting, Holding, Preparing
<1>6. HandDuty(r)'
  BY <1>1, <1>4, <1>5 DEF Duty, HandDuty
<1>7. PhaseDuty(r)'
  <2>1. \A a \in r.pend : a \in AttemptIds
    BY <1>1 DEF Good, Existing
  <2> QED BY <1>1, <1>4, <1>5, <2>1 DEF Duty, PhaseDuty, Still
<1>8. WorkDuty(r)'
  <2>1. WorkDuty(r)
    BY <1>1 DEF Duty
  <2>2. r.pc \in {"work_running", "retry", "requeue", "release", "settle_requeue"} =>
           workState[attempt[r.cur].work] = WorkStateOf(r.cur)
    BY DEF WorkStateOf
  <2>3. r.pc = "work_running" => WorkStateOf(r.cur)' \in {"leased", "cancel_requested"}
    BY <1>4, <1>5, <2>1, <2>2 DEF WorkDuty, Drifts
  <2>4. r.pc \in {"retry", "requeue"} => WorkStateOf(r.cur)' = "failed"
    BY <1>4, <1>5, <2>1, <2>2 DEF WorkDuty, Drifts
  <2>5. r.pc = "release" => WorkStateOf(r.cur)' \notin {"leased", "running"}
    BY <1>4, <1>5, <2>1, <2>2 DEF WorkDuty, Drifts
  <2>6. ASSUME r.pc \in {"requeue", "settle_requeue"} PROVE Free(attempt[r.cur].work)'
    <3>1. PICK w : w = attempt[r.cur].work
      OBVIOUS
    <3>2. Free(w)
      BY <2>1, <2>6, <3>1 DEF WorkDuty
    <3>3. Free(w)'
      BY <3>2, FreeStays DEF Still
    <3>4. attempt'[r.cur].work = w
      BY <1>4, <1>5, <2>6, <3>1
    <3> QED BY <3>3, <3>4 DEF Free
  <2> QED BY <2>3, <2>4, <2>5, <2>6 DEF WorkDuty
<1>9. ResultDuty(r)'
  <2>1. ResultDuty(r)
    BY <1>1 DEF Duty
  <2>2. ASSUME r.pc \in Settling PROVE IsLast(r.cur)' /\ attempt'[r.cur].recon = attempt[r.cur].recon
    <3>1. r.cur \in AttemptIds /\ IsLast(r.cur)
      BY <1>4, <1>5, <2>1, <2>2 DEF ResultDuty
    <3>2. r.pc # "idle" /\ r.pc \in Resting
      BY <2>2 DEF Settling, Resting
    <3>3. ASSUME NEW q \in Procs PROVE proc[q].pend = {}
      <4>1. CASE q = p
        BY <1>1, <3>2, <4>1 DEF Duty, PhaseDuty
      <4>2. CASE q # p
        <5>1. proc[q].pc = "idle"
          BY <1>1, <3>2, <4>2 DEF SoleDispatcher, SoleInv, DutyInv
        <5> QED BY <5>1, IdleEmpty
      <4> QED BY <4>1, <4>2
    <3>4. worker[r.cur] \notin Alive
      BY <3>1, <3>3 DEF SoleInv, JobInv
    <3> QED BY <3>1, <3>4, LastStays DEF Still
  <2>3. ASSUME r.pc \in Reporting
        PROVE  (Harmless(r.cur) => Harmless(r.cur)') /\ (job[r.cur] = "succeeded" => job'[r.cur] = "succeeded")
    BY <1>4, <1>5, <2>3 DEF Still, HarmStays
  <2>4. \A x \in {"settle_trial", "settle_work", "settle_retry", "settle_requeue"} : x \in Settling
    BY DEF Settling
  <2> QED BY <2>1, <2>2, <2>3, <2>4 DEF ResultDuty
<1> QED BY <1>3, <1>6, <1>7, <1>8, <1>9 DEF Duty

(* So such a step keeps the invariant, when jobs stay accounted for.       *)
LEMMA StillKeepsSole ==
    ASSUME SoleDispatcher, SoleInv, SchedulerInv', Still, JobInv', NoOrphanJob'
    PROVE  SoleInv'
<1>1. Steady /\ LeasesEnd(lease')
  BY QuietAttempts, QuietLeases DEF Still, SoleInv, SchedulerInv, SchedulerTypeOK
<1>2. HistoryInv'
  BY <1>1, ActiveBefore, HistoryStays DEF Still
<1>3. ASSUME NEW w \in Work, workState'[w] = "queued" PROVE Free(w)'
  <2>1. Free(w)
    BY <1>3 DEF Still, Drifts, SoleInv, FreeInv
  <2> QED BY <1>1, <2>1, FreeStays DEF Still
<1>4. FreeInv'
  BY <1>1, <1>3, UnusedStays DEF Still, FreeInv
<1>5. OwnerInv'
  BY DEF Still, SoleInv, OwnerInv
<1>6. DutyInv'
  <2>1. ASSUME NEW p \in Procs PROVE Duty(proc[p])' /\ (Dispatches(p) \/ proc'[p].pc = "idle")
    <3>1. PICK r : r = proc[p]
      OBVIOUS
    <3>2. Duty(r)' /\ r = proc'[p]
      BY <1>1, <3>1, StillDuty DEF Still
    <3>3. Duty(proc[p])'
      BY <3>2, DutyOf
    <3> QED BY <3>3 DEF Still, SoleInv, DutyInv
  <2> QED BY <2>1 DEF DutyInv
<1> QED BY <1>2, <1>4, <1>5, <1>6 DEF SoleInv

-----------------------------------------------------------------------------
(* What a worker or a job does to itself.                                  *)
Advances(b) ==
    /\ worker[b] \notin {"none", "ready", "recorded"} => worker'[b] \notin {"none", "ready", "recorded"}
    /\ \/ job'[b] = job[b]
       \/ job[b] = "running" /\ job'[b] \in {"succeeded", "failed"}
       \/ worker[b] = "recorded" /\ job[b] = "none" /\ job'[b] = "running"
    /\ worker[b] = "none" => worker'[b] = "none"
    /\ worker'[b] \in Alive => worker[b] \in Alive
    /\ job'[b] # "none" => worker'[b] \notin {"none", "ready", "recorded"}
    /\ job'[b] # "none" \/ worker'[b] = "recorded" => submission'[b].state # "absent"
    /\ worker'[b] = "succeeded" => job'[b] = "succeeded"
    /\ worker'[b] \in {"failed", "retryable"} => job'[b] = "failed"

(* Every step of a worker or of a job advances each attempt so.            *)
LEMMA WorkerAdvances ==
    ASSUME SoleInv, NEW a \in AttemptIds, WorkerStep(a) \/ JobFinishes(a), NEW b \in AttemptIds
    PROVE  Advances(b)
<1>1. SubmissionsLast
  BY WorkerKeeps, SubmissionsStay DEF StoreCall, SoleInv, SchedulerInv, SchedulerTypeOK
<1>2. worker \in [AttemptIds -> WorkerStates] /\ job \in [AttemptIds -> JobStates]
      /\ submission \in [AttemptIds -> SubmissionRows]
  BY DEF SoleInv, SchedulerInv, SchedulerTypeOK, StoreTypeOK
<1>3. /\ job[b] # "none" => worker[b] \notin {"none", "ready", "recorded"}
      /\ job[b] # "none" \/ worker[b] = "recorded" => submission[b].state # "absent"
      /\ worker[b] = "succeeded" => job[b] = "succeeded"
      /\ worker[b] \in {"failed", "retryable"} => job[b] = "failed"
  BY DEF SoleInv, JobInv
<1>4. CASE b # a
  <2>1. worker'[b] = worker[b] /\ job'[b] = job[b]
    BY <1>2, <1>4 DEF WorkerStep, WorkerRejects, WorkerRecords, WorkerSubmits, WorkerBinds,
       WorkerCollects, WorkerGivesUp, WorkerUncertain, WorkerBreaks, JobFinishes
  <2> QED BY <1>1, <1>3, <2>1 DEF Advances, SubmissionsLast
<1>5. ASSUME b = a, NEW s, NEW j, worker' = [worker EXCEPT ![a] = s] \/ (worker' = worker /\ s = worker[a]),
             job' = [job EXCEPT ![a] = j] \/ (job' = job /\ j = job[a])
      PROVE  worker'[b] = s /\ job'[b] = j
  BY <1>2, <1>5
<1>6. CASE b = a /\ WorkerRejects(a)
  <2>1. worker[b] = "ready" /\ worker'[b] = "raised" /\ job'[b] = job[b]
    BY <1>2, <1>6 DEF WorkerRejects
  <2> QED BY <1>3, <2>1 DEF Advances, Alive
<1>7. CASE b = a /\ WorkerRecords(a)
  <2>1. worker[b] = "ready" /\ worker'[b] = "recorded" /\ job'[b] = job[b]
    BY <1>2, <1>7 DEF WorkerRecords
  <2>2. submission'[b].state = "submitted"
    BY <1>2, <1>7 DEF WorkerRecords, RecordBackendSubmission, SubmissionRows
  <2> QED BY <1>3, <2>1, <2>2 DEF Advances, Alive
<1>8. CASE b = a /\ WorkerSubmits(a)
  <2>1. /\ worker[b] = "recorded" /\ worker'[b] \in {"submitted", "uncertain"}
        /\ job'[b] \in {job[b], "running"}
    BY <1>2, <1>8 DEF WorkerSubmits
  <2> QED BY <1>1, <1>3, <2>1 DEF Advances, Alive, SubmissionsLast
<1>9. CASE b = a /\ WorkerBinds(a)
  <2>1. worker[b] = "submitted" /\ worker'[b] = "bound" /\ job'[b] = job[b]
    BY <1>2, <1>9 DEF WorkerBinds
  <2> QED BY <1>1, <1>3, <2>1 DEF Advances, Alive, SubmissionsLast
<1>10. CASE b = a /\ WorkerCollects(a)
  <2>1. /\ worker[b] = "bound" /\ job'[b] = job[b]
        /\ \/ worker'[b] = "succeeded" /\ job[b] = "succeeded"
           \/ worker'[b] \in {"failed", "retryable"} /\ job[b] = "failed"
    BY <1>2, <1>10 DEF WorkerCollects
  <2> QED BY <1>1, <1>3, <2>1 DEF Advances, Alive, SubmissionsLast
<1>11. CASE b = a /\ WorkerGivesUp(a)
  <2>1. worker[b] = "bound" /\ worker'[b] = "uncertain" /\ job'[b] = job[b]
    BY <1>2, <1>11 DEF WorkerGivesUp
  <2> QED BY <1>1, <1>3, <2>1 DEF Advances, Alive, SubmissionsLast
<1>12. CASE b = a /\ WorkerUncertain(a)
  <2>1. worker[b] = "uncertain" /\ worker'[b] = "unknown" /\ job'[b] = job[b]
    BY <1>2, <1>12 DEF WorkerUncertain
  <2> QED BY <1>1, <1>3, <2>1 DEF Advances, Alive, SubmissionsLast
<1>13. CASE b = a /\ WorkerBreaks(a)
  <2>1. worker[b] \in {"recorded", "submitted", "bound"} /\ worker'[b] = "raised" /\ job'[b] = job[b]
    BY <1>2, <1>13 DEF WorkerBreaks
  <2> QED BY <1>1, <1>3, <2>1 DEF Advances, Alive, SubmissionsLast
<1>14. CASE b = a /\ JobFinishes(a)
  <2>1. worker'[b] = worker[b] /\ job[b] = "running" /\ job'[b] \in {"succeeded", "failed"}
    BY <1>2, <1>14 DEF JobFinishes
  <2> QED BY <1>1, <1>3, <2>1 DEF Advances, Alive, SubmissionsLast
<1> QED BY <1>4, <1>6, <1>7, <1>8, <1>9, <1>10, <1>11, <1>12, <1>13, <1>14 DEF WorkerStep

(* What it writes: no failure that may be retried, and a reconciliation    *)
(* only for an attempt whose thread is alive.                              *)
LEMMA WorkerWrites ==
    ASSUME SoleInv, NEW a \in AttemptIds, WorkerStep(a) \/ JobFinishes(a)
    PROVE  /\ FailuresKept /\ UNCHANGED <<lease, workState>>
           /\ \A b \in AttemptIds : attempt'[b].recon # attempt[b].recon => worker[b] \in Alive
<1>1. None # "infrastructure"
  BY StoreConstants DEF Failures
<1>2. CASE UNCHANGED <<attempt, lease, workState>>
  BY <1>2 DEF FailuresKept
<1>3. ASSUME NEW s, NEW f, NEW rc, NEW sub, WriteOutcome(a, s, f, rc, sub), f # "infrastructure",
             worker[a] \in Alive
      PROVE  /\ FailuresKept /\ UNCHANGED <<lease, workState>>
             /\ \A b \in AttemptIds : attempt'[b].recon # attempt[b].recon => worker[b] \in Alive
  <2>1. Columns(a, s, f, rc)
    BY <1>3, OutcomeColumns
  <2>2. FailuresKept
    BY <1>3, <2>1, OutcomeFailures
  <2> QED BY <1>3, <2>1, <2>2 DEF Columns
<1>4. CASE WorkerRejects(a) \/ WorkerRecords(a) \/ WorkerSubmits(a) \/ WorkerBinds(a)
           \/ WorkerGivesUp(a) \/ JobFinishes(a)
  <2>1. UNCHANGED <<attempt, lease, workState>>
    BY <1>4 DEF WorkerRejects, WorkerRecords, WorkerSubmits, WorkerBinds, WorkerGivesUp, JobFinishes,
       RecordBackendSubmission, NoStoreCall, storeVars
  <2> QED BY <1>2, <2>1
<1>5. CASE WorkerCollects(a) \/ WorkerUncertain(a) \/ WorkerBreaks(a)
  <2>1. worker[a] \in Alive
    BY <1>5 DEF WorkerCollects, WorkerUncertain, WorkerBreaks, Alive
  <2>2. \/ WriteOutcome(a, "succeeded", None, None, "completed")
        \/ WriteOutcome(a, "failed", None, None, "failed")
        \/ WriteOutcome(a, "unknown", "unknown", "pending", "unknown")
    BY <1>5 DEF WorkerCollects, WorkerUncertain, WorkerBreaks
  <2> QED BY <1>1, <1>3, <2>1, <2>2
<1> QED BY <1>4, <1>5 DEF WorkerStep

(* Steps of the workers and of the jobs.                                   *)
LEMMA WorkersKeep ==
    ASSUME SoleDispatcher, SoleInv, SchedulerInv', NEW a \in AttemptIds, WorkerStep(a) \/ JobFinishes(a)
    PROVE  SoleInv'
<1>1. QuietCall /\ UNCHANGED proc
  BY WorkerKeeps DEF SoleInv
<1>2. /\ FailuresKept /\ UNCHANGED <<lease, workState>>
      /\ \A b \in AttemptIds : attempt'[b].recon # attempt[b].recon => worker[b] \in Alive
  BY WorkerWrites
<1>3. \A b \in AttemptIds : Advances(b)
  BY WorkerAdvances
<1>4. HarmStays
  BY <1>3 DEF Advances, HarmStays, Harmless
<1>5. Still
  BY <1>1, <1>2, <1>3, <1>4 DEF Still, Advances, Drifts
<1>6. JobInv'
  <2>1. ASSUME NEW b \in AttemptIds, worker'[b] \in Alive PROVE \E p \in Procs : b \in proc'[p].pend
    <3>1. worker[b] \in Alive
      BY <1>3, <2>1 DEF Advances
    <3> QED BY <1>1, <3>1 DEF SoleInv, JobInv
  <2> QED BY <1>3, <2>1 DEF Advances, JobInv
<1>7. NoOrphanJob'
  <2>1. ASSUME NEW b \in AttemptIds, job'[b] = "running"
        PROVE  workState'[attempt'[b].work] \in {"running", "cancel_requested", "unknown", "failed"}
    <3>1. attempt'[b].work = attempt[b].work
      BY <1>1, QuietAttempts DEF SoleInv, SchedulerInv, SchedulerTypeOK, Steady, AttemptKept, SameIdentity
    <3>2. CASE job[b] = "running"
      BY <1>2, <3>1, <3>2 DEF SoleInv, NoOrphanJob
    <3>3. CASE worker[b] = "recorded"
      <4>1. PICK p \in Procs : b \in proc[p].pend
        BY <3>3 DEF SoleInv, JobInv, Alive
      <4>2. b \in Busy(proc[p]) /\ BusyDuty(proc[p])
        BY <4>1 DEF Busy, SoleInv, DutyInv, Duty
      <4> QED BY <1>2, <3>1, <4>2 DEF BusyDuty, WorkStateOf
    <3> QED BY <1>3, <2>1, <3>2, <3>3 DEF Advances
  <2> QED BY <2>1 DEF NoOrphanJob
<1> QED BY <1>5, <1>6, <1>7, StillKeepsSole

(* The clock, and the request of a cancellation, leave every table alone   *)
(* but the states of the work.                                             *)
LEMMA OutsideDrifts ==
    ASSUME SoleDispatcher,
           (Tick /\ UNCHANGED procVars) \/ UNCHANGED vars \/ \E p \in Procs : Cancel(p)
    PROVE  /\ UNCHANGED <<proc, worker, job, lease, attempt, submission>> /\ QuietCall
           /\ \A w \in Work : Drifts(w)
<1>1. CASE Tick /\ UNCHANGED procVars
  BY <1>1 DEF Tick, procVars, QuietCall, Drifts
<1>2. CASE UNCHANGED vars
  BY <1>2 DEF vars, procVars, storeVars, QuietCall, Drifts
<1>3. ASSUME NEW p \in Procs, Cancel(p)
      PROVE  /\ UNCHANGED <<proc, worker, job, lease, attempt, submission>> /\ QuietCall
             /\ \A w \in Work : Drifts(w)
  <2>1. ASSUME NEW W, NEW whole \in BOOLEAN, RequestCancellation(RunServed[p], W, whole)
        PROVE  QuietCall /\ UNCHANGED <<lease, attempt, submission>> /\ \A w \in Work : Drifts(w)
    <3>1. QuietCall
      BY <2>1 DEF QuietCall
    <3> QED BY <2>1, <3>1 DEF RequestCancellation, Drifts
  <2>2. "cancel_active" \notin Commands[p]
    BY DEF SoleDispatcher
  <2>3. CASE RequestCancellation(RunServed[p], WorkOfRun(RunServed[p]), TRUE) /\ UNCHANGED proc
    BY <1>3, <2>1, <2>3 DEF Cancel, OnlyProc
  <2>4. CASE /\ \E w \in WorkOfRun(RunServed[p]) : RequestCancellation(RunServed[p], {w}, FALSE)
             /\ UNCHANGED proc
    BY <1>3, <2>1, <2>4 DEF Cancel, OnlyProc
  <2> QED BY <1>3, <2>2, <2>3, <2>4 DEF Cancel
<1> QED BY <1>1, <1>2, <1>3

(* So they keep the invariant.                                             *)
LEMMA OutsideKeeps ==
    ASSUME SoleDispatcher, SoleInv, SchedulerInv',
           (Tick /\ UNCHANGED procVars) \/ UNCHANGED vars \/ \E p \in Procs : Cancel(p)
    PROVE  SoleInv'
<1>1. /\ UNCHANGED <<proc, worker, job, lease, attempt, submission>> /\ QuietCall
      /\ \A w \in Work : Drifts(w)
  BY OutsideDrifts
<1>2. Still
  BY <1>1 DEF Still, HarmStays, FailuresKept, Harmless
<1>3. JobInv'
  BY <1>1 DEF SoleInv, JobInv
<1>4. NoOrphanJob'
  <2>1. ASSUME NEW a \in AttemptIds, job[a] = "running"
        PROVE  workState'[attempt[a].work] \in {"running", "cancel_requested", "unknown", "failed"}
    <3>1. a \in Existing
      BY <2>1 DEF SoleInv, JobInv, SchedulerInv, RowInv
    <3>2. attempt[a].work \in Work
      BY <3>1 DEF SoleInv, SchedulerInv, RowInv, Existing
    <3> QED BY <1>1, <2>1, <3>2 DEF SoleInv, NoOrphanJob, Drifts
  <2> QED BY <1>1, <2>1 DEF NoOrphanJob
<1> QED BY <1>2, <1>3, <1>4, StillKeepsSole

(* The dispatching process is killed: its threads die with it, so whatever *)
(* had not been submitted never will be; leases, rows and jobs stay.       *)
LEMMA CrashKeeps ==
    ASSUME SoleInv, SchedulerInv', NEW p \in Procs, NEW r, Ours(p, r), Crash(p)
    PROVE  SoleInv'
<1>1. /\ proc' = [proc EXCEPT ![p] = IdleProc] /\ UNCHANGED storeVars /\ UNCHANGED job
      /\ \A a \in AttemptIds : worker'[a] = IF a \in Threads(p) /\ worker[a] \notin Finished
                                             THEN "dead" ELSE worker[a]
  BY DEF Crash, Quit, NoStoreCall
<1>2. QuietCall /\ UNCHANGED <<workState, lease, attempt, submission>>
  BY <1>1 DEF QuietCall, storeVars
<1>3. StoreTypeOK
  BY DEF SoleInv, SchedulerInv, SchedulerTypeOK
<1>4. Steady /\ LeasesEnd(lease') /\ SubmissionsLast
  BY <1>2, <1>3, QuietLeases, QuietAttempts, SubmissionsStay DEF StoreCall
<1>5. HarmStays /\ JobsStay
  BY <1>1 DEF HarmStays, JobsStay, Harmless
<1>6. FailuresKept /\ \A w \in Work : Allowed(w)
  BY <1>2 DEF FailuresKept, Allowed
<1>7. HistoryInv' /\ FreeInv' /\ OwnerInv' /\ NoOrphanJob'
  BY <1>4, <1>5, <1>6, QuietKeeps
<1>8. DutyInv'
  <2>1. PICK n : n = IdleProc
    OBVIOUS
  <2>2. n.pc = "idle" /\ n.pend = {} /\ n.done = {} /\ n.batch = {}
    BY <2>1 DEF IdleProc
  <2>3. Duty(n)'
    BY <2>2, EmptyDuty
  <2>4. proc' = [proc EXCEPT ![p] = n] /\ n = proc'[p]
    BY <1>1, <2>1, Lands
  <2> QED BY <2>3, <2>4, DutiesKept DEF Ours
<1>9. ASSUME NEW a \in AttemptIds, worker'[a] \in Alive PROVE FALSE
  <2>1. worker[a] \in Alive /\ a \notin Threads(p)
    BY <1>1, <1>9 DEF Alive, Finished
  <2>2. PICK q \in Procs : a \in proc[q].pend
    BY <2>1 DEF SoleInv, JobInv
  <2> QED BY <2>1, <2>2, IdleEmpty DEF Threads, Ours
<1>10. JobInv'
  <2>1. \A a \in AttemptIds : worker'[a] \in {worker[a], "dead"} /\ job'[a] = job[a]
    BY <1>1
  <2>2. \A a \in AttemptIds : submission'[a] = submission[a]
    BY <1>2
  <2> QED BY <1>9, <2>1, <2>2 DEF SoleInv, JobInv
<1> QED BY <1>7, <1>8, <1>10 DEF SoleInv

-----------------------------------------------------------------------------
(* Every step of the dispatching process keeps the invariant ...           *)
LEMMA ProcKeeps ==
    ASSUME SoleDispatcher, SoleInv, SchedulerInv', NEW p \in Procs, ProcStep(p), ~Cancel(p)
    PROVE  SoleInv'
<1>1. PICK r : Ours(p, r)
  BY OursExists
<1>2. ~ReleaseQuietly(p) /\ ~ReleaseRefused(p) /\ ~UnknownTrial(p) /\ ~UnknownWork(p) /\ ~CancelActive(p)
  BY <1>1, NeverTaken
<1>3. CASE Dispatch(p)
  <2>1. CASE LeaseOne(p) \/ LeaseNone(p) \/ LeaseRefused(p) \/ ListRuns(p) \/ MarkRun(p) \/ MarkPlan(p)
             \/ CreateNext(p) \/ CreateRefused(p)
    BY <1>1, <2>1, LeaseOneKeeps, LeaseEndKeeps, MarkKeeps, CreateNextKeeps
  <2>2. CASE WorkRunning(p) \/ TrialRunning(p) \/ AttemptRunning(p)
    BY <1>1, <2>2, RunningKeeps, AttemptRunningKeeps
  <2>3. CASE Wake(p) \/ (\E a \in AttemptIds : HandleDone(p, a)) \/ CompletePlan(p) \/ HandleEnd(p)
             \/ RenewEnd(p) \/ RequeueRefused(p) \/ Abort(p) \/ Renew(p)
    BY <1>1, <2>3, HandleKeeps, HandleDoneKeeps, AbortKeeps, RenewKeeps
  <2>4. CASE WriteAttempt(p) \/ WriteTrial(p) \/ WriteWork(p) \/ RetryCheck(p) \/ Requeue(p) \/ Release(p)
    BY <1>1, <2>4, WriteRowKeeps, WriteWorkKeeps, RetryKeeps, ReleaseKeeps
  <2> QED BY <1>2, <1>3, <2>1, <2>2, <2>3, <2>4 DEF Dispatch
<1>4. CASE Reconcile(p)
  BY <1>1, <1>4, ListingKeeps, ReconcileKeeps, SettleRowKeeps, SettleWorkKeeps, SettleRetryKeeps
     DEF Reconcile
<1>5. CASE StartRun(p) \/ ResumeRun(p) \/ Crash(p)
  BY <1>1, <1>5, CommandKeeps, CrashKeeps
<1> QED BY <1>2, <1>3, <1>4, <1>5 DEF ProcStep, Command

(* ... and so does every step.                                             *)
LEMMA SoleStep == ASSUME SoleDispatcher PROVE SoleInv /\ [Next]_vars => SoleInv'
<1> SUFFICES ASSUME SoleInv, [Next]_vars PROVE SoleInv'
  OBVIOUS
<1>1. SchedulerInv'
  BY InvStep DEF SoleInv
<1>2. CASE (Tick /\ UNCHANGED procVars) \/ UNCHANGED vars \/ \E p \in Procs : Cancel(p)
  BY <1>1, <1>2, OutsideKeeps
<1>3. CASE \E a \in AttemptIds : WorkerStep(a) \/ JobFinishes(a)
  BY <1>1, <1>3, WorkersKeep
<1>4. CASE \E p \in Procs : ProcStep(p) /\ ~Cancel(p)
  BY <1>1, <1>4, ProcKeeps
<1> QED BY <1>2, <1>3, <1>4 DEF Next, ProcStep

(* Initially there is no attempt, lease, worker or job.                    *)
LEMMA SoleInit == Init => SoleInv
<1> SUFFICES ASSUME Init PROVE SoleInv
  OBVIOUS
<1>1. SchedulerInv
  BY InvInit
<1>2. /\ \A a \in AttemptIds : /\ attempt[a].state = "absent" /\ attempt[a].work = None
                               /\ worker[a] = "none" /\ job[a] = "none"
      /\ \A l \in LeaseIds : lease[l].state = "absent"
  BY DEF Init, NoAttempt, NoLease
<1>3. Existing = {} /\ \A w \in Work : Free(w)
  BY <1>2, StoreConstants DEF Existing, Free
<1>4. HistoryInv /\ FreeInv /\ OwnerInv /\ NoOrphanJob
  BY <1>2, <1>3 DEF HistoryInv, FreeInv, OwnerInv, NoOrphanJob, Unused
<1>5. JobInv
  BY <1>2 DEF JobInv, Alive
<1>6. DutyInv
  <2>1. PICK n : n = IdleProc
    OBVIOUS
  <2>2. n.pc = "idle" /\ n.pend = {} /\ n.done = {} /\ n.batch = {}
    BY <2>1 DEF IdleProc
  <2>3. Duty(n)
    BY <2>2, EmptyDuty
  <2>4. \A p \in Procs : proc[p] = n
    BY <2>1 DEF Init
  <2> QED BY <2>2, <2>3, <2>4 DEF DutyInv
<1> QED BY <1>1, <1>4, <1>5, <1>6 DEF SoleInv

(* The invariant holds in every reachable state.                           *)
LEMMA SoleHolds == ASSUME SoleDispatcher PROVE Spec => []SoleInv
BY SoleInit, SoleStep, PTL DEF Spec

-----------------------------------------------------------------------------
(* An uncertain external effect is never repeated.  Whatever crashes,      *)
(* expiries, retries, reconciliations and cancellations happen, of the     *)
(* jobs submitted for one work item at most one is running or succeeded,   *)
(* provided one process at a time dispatches.                              *)
THEOREM EffectsAreNotRepeated == ASSUME SoleDispatcher PROVE Spec => []NoDuplicateEffect
<1>1. SoleInv => NoDuplicateEffect
  <2> SUFFICES ASSUME SoleInv, NEW a \in AttemptIds, NEW b \in AttemptIds, a # b,
                      attempt[a].work = attempt[b].work, attempt[a].work # None
               PROVE  ~(job[a] \in {"running", "succeeded"} /\ job[b] \in {"running", "succeeded"})
    BY DEF NoDuplicateEffect
  <2>1. a \in Existing /\ b \in Existing
    BY DEF SoleInv, SchedulerInv, RowInv
  <2>2. attempt[a].number # attempt[b].number
    BY DEF SoleInv, SchedulerInv, AttemptIdentity
  <2>3. attempt[a].number \in Nat /\ attempt[b].number \in Nat
    BY DEF SoleInv, SchedulerInv, SchedulerTypeOK, StoreTypeOK, AttemptRows
  <2>4. attempt[a].number < attempt[b].number \/ attempt[b].number < attempt[a].number
    BY <2>2, <2>3
  <2>5. Harmless(a) \/ Harmless(b)
    BY <2>1, <2>4 DEF SoleInv, HistoryInv
  <2> QED BY <2>5 DEF Harmless
<1> QED BY <1>1, SoleHolds, PTL

(* A running external job is always accounted for by its work item.        *)
THEOREM JobsAreAccountedFor == ASSUME SoleDispatcher PROVE Spec => []NoOrphanJob
<1>1. SoleInv => NoOrphanJob
  BY DEF SoleInv
<1> QED BY <1>1, SoleHolds, PTL

(* retry_policy.maximum_attempts bounds the attempts of a work item: their *)
(* retry numbers are distinct and below it.                                *)
THEOREM BudgetIsKept == ASSUME SoleDispatcher PROVE Spec => []AttemptBudget
<1>1. SoleInv => AttemptBudget
  <2> SUFFICES ASSUME SoleInv, NEW w \in Work PROVE Cardinality(AttemptsOf(w)) <= MaxAttempts
    BY DEF AttemptBudget
  <2>1. AttemptsOf(w) \subseteq Existing /\ Existing \subseteq AttemptIds
    BY StoreConstants DEF AttemptsOf, Existing, SoleInv, SchedulerInv, RowInv
  <2>2. MaxAttempts \in Nat \ {0}
    BY SchedulerConstants
  <2>3. \A a \in AttemptsOf(w) : attempt[a].retry \in 0 .. MaxAttempts - 1 /\ attempt[a].candidate = 1
    <3>1. \A a \in AttemptsOf(w) : attempt[a].retry \in Nat
      BY <2>1 DEF SoleInv, SchedulerInv, SchedulerTypeOK, StoreTypeOK, AttemptRows
    <3>2. \A a \in AttemptsOf(w) : attempt[a].retry < MaxAttempts /\ attempt[a].candidate = 1
      BY <2>1 DEF SoleInv, HistoryInv
    <3> QED BY <2>2, <3>1, <3>2
  <2>4. \A a, b \in AttemptsOf(w) : a # b => attempt[a].retry # attempt[b].retry
    <3>1. ASSUME NEW a \in AttemptsOf(w), NEW b \in AttemptsOf(w), a # b
          PROVE  <<attempt[a].candidate, attempt[a].retry>> # <<attempt[b].candidate, attempt[b].retry>>
      <4>1. attempt[a].work = w /\ attempt[b].work = w /\ w # None
        BY StoreConstants DEF AttemptsOf
      <4> QED BY <2>1, <3>1, <4>1 DEF SoleInv, SchedulerInv, AttemptIdentity
    <3> QED BY <2>3, <3>1
  <2>5. PICK f : f = [a \in AttemptsOf(w) |-> attempt[a].retry]
    OBVIOUS
  <2>6. f \in Injection(AttemptsOf(w), 0 .. MaxAttempts - 1)
    BY <2>3, <2>4, <2>5 DEF Injection, IsInjective
  <2>7. IsFiniteSet(0 .. MaxAttempts - 1) /\ Cardinality(0 .. MaxAttempts - 1) = MaxAttempts
    BY <2>2, FS_Interval
  <2> QED BY <2>6, <2>7, FS_Injection
<1> QED BY <1>1, SoleHolds, PTL

-----------------------------------------------------------------------------
(* Steps that leave alone work that is unknown or has ended, but for a     *)
(* retry of what failed, in a run that is not cancelled.                   *)
Retried(w) == workState[w] = "failed" /\ ~cancelRequested[RunOf(w)]

StaysSettled ==
    \A w \in Work : workState[w] \in Terminal \cup {"unknown"} =>
        workState'[w] = workState[w] \/ Retried(w)

(* Unknown work stays so, ...                                              *)
LEMMA SettledUnknown == ASSUME StaysSettled PROVE UnknownStep
BY DEF StaysSettled, UnknownStep, Retried

(* ... an expiry leaves it, ...                                            *)
LEMMA ExpiryLeavesSettled ==
    ASSUME NEW D, NEW w \in Work, workState[w] \in Terminal \cup {"unknown"}
    PROVE  ExpiredWork(D)[w] = workState[w]
BY DEF ExpiredWork, Terminal

(* ... a dispatch writes only the work it has leased or failed itself, ... *)
LEMMA DispatchLeavesSettled ==
    ASSUME SoleInv, NEW p \in Procs, NEW r, Ours(p, r), Dispatch(p) PROVE StaysSettled
<1>1. ~ReleaseQuietly(p) /\ ~ReleaseRefused(p) /\ ~UnknownTrial(p) /\ ~UnknownWork(p)
  BY NeverTaken
<1>2. /\ r = proc[p] /\ BusyDuty(r) /\ WorkDuty(r) /\ workState \in [Work -> WorkStates \cup {"absent"}]
  BY DEF Ours, Duty, SoleInv, SchedulerInv, SchedulerTypeOK, StoreTypeOK
<1>3. ASSUME NEW s, UpdateWorkItem(CurWork(p), s),
             WorkStateOf(r.cur) \in {"leased", "running", "cancel_requested"}
      PROVE  StaysSettled
  BY <1>2, <1>3 DEF UpdateWorkItem, StaysSettled, WorkStateOf, CurWork, Cur, Terminal
<1>4. CASE LeaseOne(p)
  <2>1. PICK l \in LeaseIds, w \in Work : LeaseNextWorkItem(l, w, Owner, proc[p].now)
    BY <1>4 DEF LeaseOne
  <2>2. PICK D, t : Granted(l, w, D, t)
    BY <2>1, GrantFacts
  <2>3. ExpiredWork(D)[w] = "queued" /\ \A v \in Work \ {w} : workState'[v] = ExpiredWork(D)[v]
    BY <2>2 DEF Granted
  <2> QED BY <2>3, ExpiryLeavesSettled DEF StaysSettled, Terminal
<1>5. CASE LeaseNone(p)
  <2>1. PICK D : workState' = ExpiredWork(D)
    BY <1>5 DEF LeaseNone, LeaseNextNothing, ExpireLeases
  <2> QED BY <2>1, ExpiryLeavesSettled DEF StaysSettled
<1>6. CASE WorkRunning(p)
  <2>1. r.pc = "work_running" /\ UpdateWorkItem(CurWork(p), "running")
    BY <1>2, <1>6 DEF WorkRunning, At
  <2>2. WorkStateOf(r.cur) \in {"leased", "running", "cancel_requested"}
    BY <1>2, <2>1 DEF WorkDuty
  <2> QED BY <1>3, <2>1, <2>2
<1>7. CASE WriteWork(p)
  <2>1. r.pc = "write_work" /\ UpdateWorkItem(CurWork(p), proc[p].res.state)
    BY <1>2, <1>7 DEF WriteWork, At
  <2>2. r.cur \in AttemptIds
    BY <1>2, <2>1, InHand DEF SoleInv, Holding, Cur
  <2>3. WorkStateOf(r.cur) \in {"leased", "running", "cancel_requested"}
    BY <1>2, <2>1, <2>2 DEF BusyDuty, Busy
  <2> QED BY <1>3, <2>1, <2>3
<1>8. CASE Requeue(p)
  <2>1. r.pc = "requeue" /\ ScheduleRetry(CurWork(p), proc[p].now + Backoff)
    BY <1>2, <1>8 DEF Requeue, At
  <2>2. workState[CurWork(p)] = "failed"
    BY <1>2, <2>1 DEF WorkDuty, WorkStateOf, CurWork, Cur
  <2> QED BY <1>2, <2>1, <2>2 DEF ScheduleRetry, RetryAllowed, StaysSettled, Retried
<1>9. CASE Release(p)
  <2>1. ReleaseLease(CurLease(p), Owner)
    BY <1>9 DEF Release
  <2> QED BY <1>2, <2>1 DEF ReleaseLease, StaysSettled, Terminal
<1>10. CASE UNCHANGED workState
  BY <1>10 DEF StaysSettled
<1>11. \/ LeaseOne(p) \/ LeaseNone(p) \/ WorkRunning(p) \/ WriteWork(p) \/ Requeue(p) \/ Release(p)
       \/ UNCHANGED workState
  <2>1. ASSUME LeaseRefused(p) \/ ListRuns(p) \/ CreateRefused(p) \/ Wake(p)
               \/ (\E a \in AttemptIds : HandleDone(p, a)) \/ RetryCheck(p) \/ RequeueRefused(p)
               \/ Abort(p) \/ HandleEnd(p) \/ RenewEnd(p)
        PROVE  UNCHANGED workState
    BY <2>1 DEF LeaseRefused, ListRuns, CreateRefused, Wake, HandleDone, RetryCheck, RequeueRefused,
       Abort, HandleEnd, RenewEnd, NoStoreCall, storeVars
  <2>2. ASSUME MarkRun(p) \/ MarkPlan(p) \/ TrialRunning(p) \/ AttemptRunning(p) \/ WriteAttempt(p)
               \/ WriteTrial(p) \/ CompletePlan(p)
        PROVE  UNCHANGED workState
    BY <2>2 DEF MarkRun, MarkPlan, TrialRunning, AttemptRunning, WriteAttempt, WriteTrial,
       CompletePlan, UpdateRun, UpdatePlan, UpdatePlannedTrial, TransitionAttempt,
       CompletePlanIfTerminal
  <2>3. CreateNext(p) => UNCHANGED workState
    BY DEF CreateNext, CreateAttemptForLease, InsertAttempt
  <2>4. Renew(p) => UNCHANGED workState
    BY DEF Renew, RenewLease, NoStoreCall, storeVars
  <2> QED BY <1>1, <2>1, <2>2, <2>3, <2>4 DEF Dispatch
<1> QED BY <1>4, <1>5, <1>6, <1>7, <1>8, <1>9, <1>10, <1>11

(* ... and a reconciliation writes the work of an attempt that is the last *)
(* of its work item and reconciled.                                        *)
LEMMA ReconcileDecides ==
    ASSUME SoleInv, NEW p \in Procs, NEW r, Ours(p, r), Reconcile(p) PROVE UnknownStep
<1>1. r = proc[p] /\ ResultDuty(r) /\ workState \in [Work -> WorkStates \cup {"absent"}]
  BY DEF Ours, Duty, SoleInv, SchedulerInv, SchedulerTypeOK, StoreTypeOK
<1>2. CASE UNCHANGED workState
  BY <1>2 DEF UnknownStep
<1>3. ASSUME SettleWork(p) \/ SettleRequeue(p) PROVE UnknownStep
  <2>1. r.pc \in {"settle_work", "settle_requeue"}
    BY <1>1, <1>3 DEF SettleWork, SettleRequeue, At
  <2>2. r.pc \in Settling /\ r.pc \in Holding
    BY <2>1 DEF Settling, Holding
  <2>3. IsLast(r.cur) /\ attempt[r.cur].recon = "reconciled"
    BY <1>1, <2>1, <2>2 DEF ResultDuty
  <2>4. r.cur \in AttemptIds /\ r.cur = Cur(p) /\ CurWork(p) = attempt[r.cur].work
    BY <1>1, <2>2, InHand DEF SoleInv, Cur, CurWork
  <2>5. IsLatestAttempt(r.cur, CurWork(p))
    BY <2>3, <2>4 DEF IsLatestAttempt, AttemptsOf, IsLast
  <2>6. \A w \in Work : w # CurWork(p) => workState'[w] = workState[w]
    <3>1. CASE SettleWork(p)
      BY <1>1, <3>1 DEF SettleWork, UpdateWorkItem
    <3>2. CASE SettleRequeue(p)
      BY <1>1, <3>2 DEF SettleRequeue, ScheduleRetry, NoStoreCall, storeVars
    <3> QED BY <1>3, <3>1, <3>2
  <2> QED BY <2>3, <2>4, <2>5, <2>6 DEF UnknownStep
<1>4. SettleWork(p) \/ SettleRequeue(p) \/ UNCHANGED workState
  BY DEF Reconcile, UnknownList, ReconcileItem, SettleAttempt, SettleTrial, SettleRetry, SettlePlan,
     ReconcileEnd, NoStoreCall, storeVars, WriteOutcome, TransitionAttempt, UpdatePlannedTrial,
     CompletePlanIfTerminal
<1> QED BY <1>2, <1>3, <1>4

(* Work in an unknown state leaves it only after its latest attempt was    *)
(* reconciled with the backend: no expiry, lease, retry, cancellation or   *)
(* late write of a worker's result decides it.                             *)
THEOREM OnlyReconciliationDecides == ASSUME SoleDispatcher PROVE Spec => UnknownIsReconciled
<1>1. SoleInv /\ [Next]_vars => [UnknownStep]_vars
  <2> SUFFICES ASSUME SoleInv, [Next]_vars PROVE UnknownStep
    OBVIOUS
  <2>1. StaysSettled => UnknownStep
    BY SettledUnknown
  <2>2. CASE (Tick /\ UNCHANGED procVars) \/ UNCHANGED vars \/ \E p \in Procs : Cancel(p)
    <3>1. \A w \in Work : Drifts(w)
      BY <2>2, OutsideDrifts
    <3> QED BY <2>1, <3>1 DEF Drifts, StaysSettled, Terminal
  <2>3. CASE \E a \in AttemptIds : WorkerStep(a) \/ JobFinishes(a)
    <3>1. UNCHANGED workState
      BY <2>3, WorkerWrites
    <3> QED BY <2>1, <3>1 DEF StaysSettled
  <2>4. ASSUME NEW p \in Procs, ProcStep(p), ~Cancel(p) PROVE UnknownStep
    <3>1. PICK r : Ours(p, r)
      BY <2>4, OursExists
    <3>2. CASE Dispatch(p)
      BY <2>1, <3>1, <3>2, DispatchLeavesSettled
    <3>3. CASE Reconcile(p)
      BY <3>1, <3>3, ReconcileDecides
    <3>4. CASE StartRun(p) \/ Crash(p)
      BY <2>1, <3>4 DEF StartRun, Crash, NoStoreCall, storeVars, StaysSettled
    <3>5. CASE ResumeRun(p)
      <4>1. PICK D : workState' = ExpiredWork(D)
        BY <3>5 DEF ResumeRun, ExpireLeases
      <4> QED BY <2>1, <4>1, ExpiryLeavesSettled DEF StaysSettled
    <3>6. ~CancelActive(p)
      BY <3>1, NeverTaken
    <3> QED BY <2>4, <3>2, <3>3, <3>4, <3>5, <3>6 DEF ProcStep, Command
  <2> QED BY <2>2, <2>3, <2>4 DEF Next, ProcStep
<1> QED BY <1>1, SoleHolds, PTL DEF Spec, UnknownIsReconciled

-----------------------------------------------------------------------------
(* Without crashes, what the rows of a work item and its planned trial     *)
(* have to do with each other.                                             *)
Agrees(w) ==
    /\ trialState[w] # "absent" /\ workState[w] # "absent"
    /\ workState[w] \in Terminal => trialState[w] = workState[w]
    /\ workState[w] = "queued" => trialState[w] \in {"planned", "queued"}

(* An active lease is of a process that still holds it, or has run out: it *)
(* is in a batch or carries an attempt, and its work is queued or unknown  *)
(* only while it is being released or when it was lost.                    *)
Releasing(l) == \E q \in Procs : proc[q].pc = "release" /\ attempt[proc[q].cur].lease = l

Lasts(l) ==
    /\ LeaseAttempts(l) = {} => \E q \in Procs : l \in proc[q].batch
    /\ workState[lease[l].work] = "queued" => Releasing(l)
    /\ workState[lease[l].work] = "unknown" => Releasing(l) \/ lease[l].expires <= clock

(* What the dispatching process knows besides: the leases it lost have run *)
(* out ...                                                                 *)
LostDuty(r) ==
    /\ r.pc \in Preparing => r.lost = {}
    /\ r.pc \in Working => \A l \in r.lost : lease[l].expires <= clock
    /\ r.pc = "renew" => r.beat <= clock /\ r.todo \subseteq r.pend

(* ... the trial it wrote has the state it writes to the work item ...     *)
TrialDuty(r) ==
    r.pc \in {"write_work", "settle_work"} => trialState[attempt[r.cur].work] = r.res.state

(* ... and the unknown work it reconciles is unleased and still unknown.   *)
Reconciling == {"unknown_list", "reconcile"} \cup Settling

UnknownDuty(p, r) ==
    /\ r.pc \in Reconciling =>
          \A w \in WorkOfRun(RunServed[p]) : workState[w] = "unknown" => ~HasActiveLease(w, lease)
    /\ r.pc \in {"reconcile"} \cup Settling =>
          \A w \in r.todo : w \in WorkOfRun(RunServed[p]) /\ workState[w] = "unknown"
    /\ r.pc \in Settling =>
          attempt[r.cur].work \notin r.todo /\ ~HasActiveLease(attempt[r.cur].work, lease)
    /\ r.pc \in {"settle_attempt", "settle_trial", "settle_work"} => WorkStateOf(r.cur) = "unknown"
    /\ r.pc \in {"settle_retry", "settle_requeue"} => WorkStateOf(r.cur) = "failed"

AgreeDuty(p, r) == LostDuty(r) /\ TrialDuty(r) /\ UnknownDuty(p, r)

AgreeInv ==
    /\ \A w \in Work : Agrees(w)
    /\ \A l \in Active(lease) : Lasts(l)
    /\ \A p \in Procs : AgreeDuty(p, proc[p])

(* Work whose run is over, or whose plan is closed, is done and its trial  *)
(* too; work that is still to be queued again is not such work, unless its *)
(* run was cancelled.                                                      *)
Done(w) == trialState[w] \in Terminal /\ workState[w] \in Terminal
Over(w) == planState[PlanOf[w]] = "closed" \/ runStatus[RunOf(w)] \in RunTerminal
Retrying == {"retry", "requeue", "settle_retry", "settle_requeue"}

RetryDuty(r) ==
    r.pc \in Retrying /\ Over(attempt[r.cur].work) => cancelRequested[RunOf(attempt[r.cur].work)]

ClosedInv ==
    /\ \A w \in Work : Over(w) => Done(w)
    /\ \A p \in Procs : RetryDuty(proc[p])

-----------------------------------------------------------------------------
(* An idle process has no such duties.                                     *)
LEMMA IdleAgrees == ASSUME NEW q, NEW r, r.pc = "idle" PROVE AgreeDuty(q, r) /\ AgreeDuty(q, r)'
<1>1. /\ "idle" \notin Preparing /\ "idle" \notin Working /\ "idle" \notin Reconciling
      /\ "idle" \notin Settling
  BY DEF Preparing, Working, Reconciling, Settling, Starting, Recording
<1> QED BY <1>1 DEF AgreeDuty, LostDuty, TrialDuty, UnknownDuty

(* The duties of a record that a process has.                              *)
LEMMA AgreeOf == ASSUME NEW q, NEW r, r = proc'[q], AgreeDuty(q, r)' PROVE AgreeDuty(q, proc[q])'
BY DEF AgreeDuty, LostDuty, TrialDuty, UnknownDuty

(* The invariant after a step of p, when every other process is idle.      *)
LEMMA AgreeAfter ==
    ASSUME SoleInv, NEW p \in Procs, NEW r, Ours(p, r), NEW n, proc' = [proc EXCEPT ![p] = n],
           \A w \in Work : Agrees(w)', \A l \in Active(lease') : Lasts(l)', AgreeDuty(p, n)'
    PROVE  AgreeInv'
<1>1. ASSUME NEW q \in Procs PROVE AgreeDuty(q, proc[q])'
  <2>1. CASE q = p
    BY <2>1, Lands, AgreeOf
  <2>2. CASE q # p
    <3>1. proc'[q] = proc[q] /\ proc[q].pc = "idle"
      BY <2>2 DEF SoleInv, SchedulerInv, SchedulerTypeOK, Ours
    <3> QED BY <3>1, IdleAgrees, AgreeOf
  <2> QED BY <2>1, <2>2
<1> QED BY <1>1 DEF AgreeInv, Active

(* What the invariant says of an active lease when only p is not idle.     *)
LEMMA HeldBy ==
    ASSUME SoleInv, AgreeInv, NEW p \in Procs, NEW r, Ours(p, r), NEW l \in Active(lease)
    PROVE  /\ LeaseAttempts(l) = {} => l \in r.batch
           /\ Releasing(l) => r.pc = "release" /\ attempt[r.cur].lease = l
           /\ workState[lease[l].work] = "queued" => Releasing(l)
           /\ workState[lease[l].work] = "unknown" => Releasing(l) \/ lease[l].expires <= clock
<1>1. Lasts(l)
  BY DEF AgreeInv
<1>2. \A q \in Procs : q = p \/ proc[q].pc = "idle"
  BY DEF Ours
<1>3. LeaseAttempts(l) = {} => l \in r.batch
  BY <1>1, <1>2, IdleEmpty DEF Lasts, Ours
<1>4. Releasing(l) => r.pc = "release" /\ attempt[r.cur].lease = l
  BY <1>2 DEF Releasing, Ours
<1> QED BY <1>1, <1>3, <1>4 DEF Lasts

(* A lease that a step of p leaves alone lasts, if its work was not just   *)
(* queued or given up.                                                     *)
LEMMA LeaseLasts ==
    ASSUME SoleInv, AgreeInv, NEW p \in Procs, NEW r, Ours(p, r), NEW n,
           proc' = [proc EXCEPT ![p] = n], Steady, r.pc # "release", r.batch \subseteq n.batch,
           UNCHANGED clock, NEW l \in Active(lease), lease'[l] = lease[l],
           workState'[lease[l].work] \in {"queued", "unknown"} =>
              workState'[lease[l].work] = workState[lease[l].work]
    PROVE  Lasts(l)'
<1>1. /\ LeaseAttempts(l) = {} => l \in r.batch
      /\ workState[lease[l].work] # "queued"
      /\ workState[lease[l].work] = "unknown" => lease[l].expires <= clock
  BY HeldBy
<1>2. LeaseAttempts(l)' = LeaseAttempts(l)
  BY DEF LeaseAttempts, Steady, AttemptKept, SameIdentity
<1>3. n = proc'[p]
  BY Lands
<1> QED BY <1>1, <1>2, <1>3 DEF Lasts

(* Steps of p that leave the rows and the leases alone.                    *)
Leaves == UNCHANGED <<clock, trialState, workState, lease>> /\ Steady

(* They keep the invariant when the new duties hold.                       *)
LEMMA LeavesAgree ==
    ASSUME SoleInv, AgreeInv, NEW p \in Procs, NEW r, Ours(p, r), NEW n, Leaves,
           proc' = [proc EXCEPT ![p] = n], r.pc # "release", r.batch \subseteq n.batch,
           AgreeDuty(p, n)'
    PROVE  AgreeInv'
<1>1. \A w \in Work : Agrees(w)'
  BY DEF AgreeInv, Agrees, Leaves
<1>2. \A l \in Active(lease') : Lasts(l)'
  BY LeaseLasts DEF Leaves
<1> QED BY <1>1, <1>2, AgreeAfter

(* The labels, by what p knows there.                                      *)
LEMMA PrepAgrees ==
    ASSUME NEW p, NEW n, n.pc \in Preparing, n.lost = {} PROVE AgreeDuty(p, n)'
<1>1. n.pc \notin Working /\ n.pc \notin Reconciling /\ n.pc \notin Settling
      /\ n.pc \notin {"write_work", "settle_work", "renew", "reconcile", "settle_attempt",
                      "settle_trial", "settle_retry", "settle_requeue"}
  BY DEF Preparing, Working, Reconciling, Settling, Starting, Recording
<1> QED BY <1>1 DEF AgreeDuty, LostDuty, TrialDuty, UnknownDuty

(* A process that works a batch off.                                       *)
LEMMA WorkAgrees ==
    ASSUME NEW p, NEW n, n.pc \in Working, \A l \in n.lost : lease'[l].expires <= clock',
           n.pc = "renew" => n.beat <= clock' /\ n.todo \subseteq n.pend,
           n.pc = "write_work" => trialState'[attempt'[n.cur].work] = n.res.state
    PROVE  AgreeDuty(p, n)'
<1>1. n.pc \notin Preparing /\ n.pc \notin Reconciling /\ n.pc \notin Settling
      /\ n.pc \notin {"settle_work", "reconcile", "settle_attempt",
                      "settle_trial", "settle_retry", "settle_requeue"}
  BY DEF Preparing, Working, Reconciling, Settling, Starting, Recording
<1> QED BY <1>1 DEF AgreeDuty, LostDuty, TrialDuty, UnknownDuty

(* A process that reconciles.                                              *)
LEMMA RestAgrees ==
    ASSUME NEW p, NEW n, n.pc \in Reconciling, UnknownDuty(p, n)', TrialDuty(n)'
    PROVE  AgreeDuty(p, n)'
<1>1. n.pc \notin Preparing /\ n.pc \notin Working /\ n.pc # "renew"
  BY DEF Preparing, Working, Reconciling, Settling, Starting, Recording
<1> QED BY <1>1 DEF AgreeDuty, LostDuty

-----------------------------------------------------------------------------
(* A record that differs from r in its label only.                         *)
Relabelled(p, r, n, x) ==
    /\ proc' = [proc EXCEPT ![p] = n] /\ n.pc = x /\ n.cur = r.cur /\ n.batch = r.batch
    /\ n.todo = r.todo /\ n.lost = r.lost /\ n.res = r.res

(* Goto(p, x) gives p such a record.                                       *)
LEMMA GotoRelabels ==
    ASSUME NEW p \in Procs, NEW r, Ours(p, r), NEW x, Goto(p, x)
    PROVE  \E n : Relabelled(p, r, n, x)
<1>1. PICK n : n = [r EXCEPT !.pc = x]
  OBVIOUS
<1>2. r \in ProcRecords /\ r = proc[p]
  BY DEF Ours
<1>3. /\ n.pc = x /\ n.cur = r.cur /\ n.batch = r.batch /\ n.todo = r.todo /\ n.lost = r.lost
      /\ n.res = r.res
  BY <1>1, <1>2 DEF ProcRecords
<1>4. proc' = [proc EXCEPT ![p] = n]
  BY <1>1, <1>2 DEF Goto
<1> QED BY <1>3, <1>4 DEF Relabelled

(* Quiet calls leave the attempts what they are.                           *)
LEMMA QuietSteady == ASSUME SoleInv, NEW p \in Procs, QuietMove(p) PROVE Steady
BY QuietAttempts DEF QuietMove, SoleInv, SchedulerInv, SchedulerTypeOK

(* What the invariant says of the process that takes a step.               *)
LEMMA OwnDuty == ASSUME AgreeInv, NEW p \in Procs, NEW r, Ours(p, r) PROVE AgreeDuty(p, r)
BY DEF AgreeInv, Ours

(* Preparing a batch, and starting its attempts.                           *)
LEMMA PrepStepsAgree ==
    ASSUME SoleInv, AgreeInv, NEW p \in Procs, NEW r, Ours(p, r),
           ListRuns(p) \/ MarkRun(p) \/ MarkPlan(p) \/ AttemptRunning(p)
    PROVE  AgreeInv'
<1>1. r = proc[p] /\ r \in ProcRecords
      /\ r.pc \in {"batch", "run_running", "plan_started", "attempt_running"}
  BY DEF ListRuns, MarkRun, MarkPlan, AttemptRunning, At, Ours
<1>2. r.pc \in Preparing /\ r.pc # "release" /\ r.pc \notin Working
  BY <1>1 DEF Preparing, Starting, Working, Recording
<1>3. r.lost = {}
  BY <1>2, OwnDuty DEF AgreeDuty, LostDuty
<1>4. Steady
  BY MarkMoves, PoolMoves, QuietSteady DEF SoleInv
<1>5. Leaves
  BY <1>4 DEF Leaves, ListRuns, MarkRun, MarkPlan, AttemptRunning, UpdateRun, UpdatePlan,
     TransitionAttempt, NoStoreCall, storeVars
<1>6. ASSUME NEW n, proc' = [proc EXCEPT ![p] = n], n.lost = r.lost, n.batch = r.batch,
             n.pc \in Preparing \cup {"wait"}
      PROVE  AgreeInv'
  <2>1. AgreeDuty(p, n)'
    <3>1. CASE n.pc \in Preparing
      BY <1>3, <1>6, <3>1, PrepAgrees
    <3>2. CASE n.pc = "wait"
      <4>1. n.pc \in Working
        BY <3>2 DEF Working
      <4> QED BY <1>3, <1>6, <3>2, <4>1, WorkAgrees
    <3> QED BY <1>6, <3>1, <3>2
  <2> QED BY <1>2, <1>5, <1>6, <2>1, LeavesAgree
<1>7. \A x \in {"run_running", "plan_started", "create"} : x \in Preparing
  BY DEF Preparing
<1>8. ASSUME NEW T, NEW x \in {"run_running", "plan_started", "create"},
             proc' = [proc EXCEPT ![p] = [r EXCEPT !.pc = x, !.todo = T]]
      PROVE  AgreeInv'
  <2>1. PICK n : n = [r EXCEPT !.pc = x, !.todo = T]
    OBVIOUS
  <2>2. n.pc = x /\ n.batch = r.batch /\ n.lost = r.lost
    BY <1>1, <2>1 DEF ProcRecords
  <2> QED BY <1>6, <1>7, <1>8, <2>1, <2>2
<1>9. CASE ListRuns(p)
  <2>1. PICK T : T = BatchRuns(p)
    OBVIOUS
  <2>2. proc' = [proc EXCEPT ![p] = [r EXCEPT !.pc = "run_running", !.todo = T]]
    BY <1>1, <1>9, <2>1 DEF ListRuns
  <2> QED BY <1>8, <2>2
<1>10. CASE MarkRun(p)
  <2>1. PICK q \in r.todo :
           proc' = IF r.todo = {q}
                   THEN [proc EXCEPT ![p].pc = "plan_started", ![p].todo = BatchPlans(p)]
                   ELSE [proc EXCEPT ![p].todo = @ \ {q}]
    BY <1>1, <1>10 DEF MarkRun
  <2>2. CASE r.todo = {q}
    <3>1. PICK T : T = BatchPlans(p)
      OBVIOUS
    <3>2. proc' = [proc EXCEPT ![p] = [r EXCEPT !.pc = "plan_started", !.todo = T]]
      BY <1>1, <2>1, <2>2, <3>1
    <3> QED BY <1>8, <3>2
  <2>3. CASE r.todo # {q}
    <3>1. PICK n : n = [r EXCEPT !.todo = r.todo \ {q}]
      OBVIOUS
    <3>2. proc' = [proc EXCEPT ![p] = n]
      BY <1>1, <2>1, <2>3, <3>1
    <3>3. n.pc = r.pc /\ n.batch = r.batch /\ n.lost = r.lost
      BY <1>1, <3>1 DEF ProcRecords
    <3> QED BY <1>2, <1>6, <3>2, <3>3
  <2> QED BY <2>2, <2>3
<1>11. CASE MarkPlan(p)
  <2>1. PICK q \in r.todo :
           proc' = [proc EXCEPT ![p].todo = @ \ {q}, ![p].pc = IF r.todo = {q} THEN "create" ELSE @]
    BY <1>1, <1>11 DEF MarkPlan
  <2>2. r.pc = "plan_started"
    BY <1>1, <1>11 DEF MarkPlan, At
  <2>3. PICK x \in {"create", "plan_started"} : x = IF r.todo = {q} THEN "create" ELSE r.pc
    BY <2>2
  <2>4. PICK n : n = [r EXCEPT !.todo = r.todo \ {q}, !.pc = x]
    OBVIOUS
  <2>5. proc' = [proc EXCEPT ![p] = n]
    BY <1>1, <2>1, <2>3, <2>4
  <2>6. n.pc = x /\ n.batch = r.batch /\ n.lost = r.lost
    BY <1>1, <2>4 DEF ProcRecords
  <2> QED BY <1>6, <1>7, <2>5, <2>6
<1>12. CASE AttemptRunning(p)
  <2>1. PICK x \in {"wait", "create"} : x = IF r.batch = {} THEN "wait" ELSE "create"
    OBVIOUS
  <2>2. PICK n : n = [r EXCEPT !.pc = x, !.cur = None, !.pend = r.pend \cup {r.cur}]
    OBVIOUS
  <2>3. proc' = [proc EXCEPT ![p] = n]
    BY <1>1, <1>12, <2>1, <2>2 DEF AttemptRunning, Cur
  <2>4. n.pc = x /\ n.batch = r.batch /\ n.lost = r.lost
    BY <1>1, <2>2 DEF ProcRecords
  <2> QED BY <1>6, <1>7, <2>3, <2>4
<1> QED BY <1>9, <1>10, <1>11, <1>12

(* Waiting, and recording a result up to the trial's row.                  *)
LEMMA WaitStepsAgree ==
    ASSUME SoleInv, AgreeInv, NEW p \in Procs, NEW r, Ours(p, r),
           \/ Wake(p) \/ (\E a \in AttemptIds : HandleDone(p, a)) \/ WriteAttempt(p)
           \/ RetryCheck(p) \/ RequeueRefused(p) \/ CompletePlan(p) \/ HandleEnd(p) \/ RenewEnd(p)
    PROVE  AgreeInv'
<1>1. r = proc[p] /\ r \in ProcRecords
      /\ r.pc \in {"wait", "handle", "write_attempt", "retry", "requeue", "complete", "renew"}
  BY DEF Wake, HandleDone, WriteAttempt, RetryCheck, RequeueRefused, CompletePlan, HandleEnd,
     RenewEnd, At, Ours
<1>2. r.pc \in Working /\ r.pc # "release" /\ r.batch = {}
  <2>1. r.pc \in Working /\ r.pc # "release"
    BY <1>1 DEF Working, Recording
  <2> QED BY <2>1, Phases DEF Ours, Duty, PhaseDuty
<1>3. \A l \in r.lost : lease[l].expires <= clock
  BY <1>2, OwnDuty DEF AgreeDuty, LostDuty
<1>4. Steady
  BY HandleMoves, WriteMoves, RetryMoves, PutDownMoves, RenewMoves, QuietSteady DEF SoleInv
<1>5. Leaves
  BY <1>4 DEF Leaves, Wake, HandleDone, WriteAttempt, RetryCheck, RequeueRefused, CompletePlan,
     HandleEnd, RenewEnd, TransitionAttempt, CompletePlanIfTerminal, NoStoreCall, storeVars
<1>6. ASSUME NEW n, proc' = [proc EXCEPT ![p] = n], n.lost = r.lost, n.pc \in Working,
             n.pc # "write_work", n.pc = "renew" => n.beat = clock /\ n.todo = n.pend
      PROVE  AgreeInv'
  <2>1. clock \in Nat
    BY StoreConstants DEF SoleInv, SchedulerInv, SchedulerTypeOK, StoreTypeOK
  <2>2. AgreeDuty(p, n)'
    BY <1>3, <1>5, <1>6, <2>1, WorkAgrees DEF Leaves
  <2> QED BY <1>2, <1>5, <1>6, <2>2, LeavesAgree
<1>7. \A x \in {"wait", "handle", "write_attempt", "write_trial", "requeue", "release", "abort", "renew"} :
         x \in Working
  BY DEF Working, Recording
<1>8. ASSUME NEW x \in {"write_trial", "requeue", "release", "abort"}, Goto(p, x) PROVE AgreeInv'
  <2>1. PICK n : Relabelled(p, r, n, x)
    BY <1>8, GotoRelabels
  <2> QED BY <1>6, <1>7, <2>1 DEF Relabelled
<1>9. CASE Wake(p)
  <2>1. PICK done : done = {a \in r.pend : worker[a] \in Finished}
    OBVIOUS
  <2>2. PICK n : n = [r EXCEPT !.pc = "handle", !.done = done, !.pend = r.pend \ done]
    OBVIOUS
  <2>3. n.pc = "handle" /\ n.lost = r.lost
    BY <1>1, <2>2 DEF ProcRecords
  <2>4. proc' = [proc EXCEPT ![p] = n]
    BY <1>1, <1>9, <2>1, <2>2 DEF Wake
  <2> QED BY <1>6, <1>7, <2>3, <2>4
<1>10. ASSUME NEW a \in AttemptIds, HandleDone(p, a) PROVE AgreeInv'
  <2>1. PICK x \in {"release_quietly", "write_attempt"} :
           x = IF workState[attempt[a].work] \in {"cancelled", "unknown"}
               THEN "release_quietly" ELSE "write_attempt"
    OBVIOUS
  <2>2. PICK res :
           res = IF workState[attempt[a].work] \in {"cancelled", "unknown"} THEN NoResult
                 ELSE IF LeaseLost(p, a) THEN Result("unknown", "unknown", "pending", FALSE)
                 ELSE OutcomeResult(a)
    OBVIOUS
  <2>3. PICK n : n = [r EXCEPT !.cur = a, !.done = r.done \ {a}, !.pc = x, !.res = res]
    OBVIOUS
  <2>4. n.pc = x /\ n.lost = r.lost
    BY <1>1, <2>3 DEF ProcRecords
  <2>5. proc' = [proc EXCEPT ![p] = n]
    BY <1>1, <1>10, <2>1, <2>2, <2>3 DEF HandleDone
  <2>6. a \in Busy(r) /\ WorkStateOf(a) \in {"running", "cancel_requested"}
    BY <1>1, <1>10 DEF HandleDone, Busy, Ours, Duty, BusyDuty
  <2>7. x = "write_attempt"
    BY <2>1, <2>6 DEF WorkStateOf
  <2> QED BY <1>6, <1>7, <2>4, <2>5, <2>7
<1>11. CASE WriteAttempt(p) \/ RetryCheck(p) \/ RequeueRefused(p)
  BY <1>8, <1>11 DEF WriteAttempt, RetryCheck, RequeueRefused
<1>12. CASE CompletePlan(p)
  <2>1. PICK n : n = [r EXCEPT !.pc = "handle", !.cur = None, !.res = NoResult]
    OBVIOUS
  <2>2. n.pc = "handle" /\ n.lost = r.lost
    BY <1>1, <2>1 DEF ProcRecords
  <2>3. proc' = [proc EXCEPT ![p] = n]
    BY <1>1, <1>12, <2>1 DEF CompletePlan
  <2> QED BY <1>6, <1>7, <2>2, <2>3
<1>13. CASE HandleEnd(p) /\ r.pend # {}
  <2>1. PICK n : n = [r EXCEPT !.pc = "renew", !.beat = clock, !.todo = r.pend]
    OBVIOUS
  <2>2. n.pc = "renew" /\ n.lost = r.lost /\ n.beat = clock /\ n.todo = n.pend
    BY <1>1, <2>1 DEF ProcRecords
  <2>3. proc' = [proc EXCEPT ![p] = n]
    BY <1>1, <1>13, <2>1 DEF HandleEnd
  <2> QED BY <1>6, <1>7, <2>2, <2>3
<1>14. CASE HandleEnd(p) /\ r.pend = {}
  <2>1. PICK n : n = BeginDispatch(p, [IdleProc EXCEPT !.now = clock])
    OBVIOUS
  <2>2. n.pc = "lease" /\ n.lost = {} /\ n.batch = {}
    BY <2>1 DEF BeginDispatch, IdleProc
  <2>3. proc' = [proc EXCEPT ![p] = n]
    BY <1>1, <1>14, <2>1 DEF HandleEnd
  <2>4. n.pc \in Preparing
    BY <2>2 DEF Preparing
  <2>5. AgreeDuty(p, n)'
    BY <2>2, <2>4, PrepAgrees
  <2> QED BY <1>2, <1>5, <2>3, <2>5, LeavesAgree
<1>15. CASE RenewEnd(p)
  <2>1. PICK n : n = [r EXCEPT !.pc = "wait", !.beat = 0]
    OBVIOUS
  <2>2. n.pc = "wait" /\ n.lost = r.lost
    BY <1>1, <2>1 DEF ProcRecords
  <2>3. proc' = [proc EXCEPT ![p] = n]
    BY <1>1, <1>15, <2>1 DEF RenewEnd
  <2> QED BY <1>6, <1>7, <2>2, <2>3
<1> QED BY <1>9, <1>10, <1>11, <1>12, <1>13, <1>14, <1>15

(* A heartbeat renews leases of running work, or notes that one has run    *)
(* out.                                                                    *)
LEMMA RenewAgrees ==
    ASSUME SoleInv, AgreeInv, NEW p \in Procs, NEW r, Ours(p, r), Renew(p) PROVE AgreeInv'
<1>1. r = proc[p] /\ r \in ProcRecords /\ r.pc = "renew" /\ r.pc \in Working /\ r.batch = {}
  <2>1. r = proc[p] /\ r \in ProcRecords /\ r.pc = "renew" /\ r.pc \in Working
    BY DEF Renew, At, Ours, Working
  <2> QED BY <2>1, Phases DEF Ours, Duty, PhaseDuty
<1>2. r.beat <= clock /\ r.todo \subseteq r.pend /\ \A l \in r.lost : lease[l].expires <= clock
  BY <1>1, OwnDuty DEF AgreeDuty, LostDuty
<1>3. Steady
  BY RenewMoves, QuietSteady DEF SoleInv
<1>4. PICK a \in r.todo :
         LET l == attempt[a].lease
             rest == [proc[p] EXCEPT !.todo = @ \ {a}]
         IN  \/ /\ ~LeaseLost(p, a)
                /\ RenewLease(l, Owner, proc[p].beat)
                /\ proc' = [proc EXCEPT ![p] = rest]
             \/ /\ ~LeaseLost(p, a) /\ ~Renewable(l, Owner, proc[p].beat)
                /\ proc' = [proc EXCEPT ![p] = [rest EXCEPT !.lost = @ \cup {l}]]
                /\ NoStoreCall
             \/ /\ LeaseLost(p, a)
                /\ proc' = [proc EXCEPT ![p] = rest]
                /\ NoStoreCall
  BY <1>1 DEF Renew
<1>5. PICK l : l = attempt[a].lease
  OBVIOUS
<1>6. a \in Existing /\ a \in Busy(r)
  BY <1>1, <1>2, BusyExists DEF Busy
<1>7. /\ l \in LeaseIds /\ lease[l].state = "active" /\ lease[l].owner = Owner
      /\ lease[l].work = attempt[a].work /\ workState[lease[l].work] \in {"running", "cancel_requested"}
  <2>1. IsActive(a) /\ WorkStateOf(a) \in {"running", "cancel_requested"}
    BY <1>6 DEF Ours, Duty, BusyDuty
  <2>2. l \in LeaseIds /\ a \in AttemptIds
    BY <1>5, <1>6 DEF SoleInv, SchedulerInv, RowInv, Existing
  <2>3. lease[l].work = attempt[a].work
    BY <1>5, <2>2, StoreConstants DEF SoleInv, SchedulerInv, AttemptIdentity
  <2> QED BY <1>5, <2>1, <2>2, <2>3 DEF IsActive, WorkStateOf, SoleInv, OwnerInv
<1>8. PICK rest : rest = [r EXCEPT !.todo = r.todo \ {a}]
  OBVIOUS
<1>9. /\ rest.pc = "renew" /\ rest.lost = r.lost /\ rest.beat = r.beat /\ rest.todo = r.todo \ {a}
      /\ rest.pend = r.pend /\ rest.batch = r.batch /\ rest \in ProcRecords
  <2>1. r.todo \in Todos /\ r.todo \ {a} \in Todos
    BY <1>1 DEF ProcRecords, Todos
  <2> QED BY <1>1, <1>8, <2>1 DEF ProcRecords
<1>10. \/ ~LeaseLost(p, a) /\ RenewLease(l, Owner, r.beat) /\ proc' = [proc EXCEPT ![p] = rest]
       \/ /\ ~Renewable(l, Owner, r.beat) /\ NoStoreCall
          /\ proc' = [proc EXCEPT ![p] = [rest EXCEPT !.lost = rest.lost \cup {l}]]
       \/ proc' = [proc EXCEPT ![p] = rest] /\ NoStoreCall
  BY <1>1, <1>4, <1>5, <1>8
<1>11. CASE NoStoreCall /\ proc' = [proc EXCEPT ![p] = rest]
  <2>1. Leaves
    BY <1>3, <1>11 DEF Leaves, NoStoreCall, storeVars
  <2>2. AgreeDuty(p, rest)'
    BY <1>1, <1>2, <1>9, <2>1, WorkAgrees DEF Leaves
  <2> QED BY <1>1, <1>9, <1>11, <2>1, <2>2, LeavesAgree
<1>12. CASE /\ ~Renewable(l, Owner, r.beat) /\ NoStoreCall
            /\ proc' = [proc EXCEPT ![p] = [rest EXCEPT !.lost = rest.lost \cup {l}]]
  <2>1. Leaves
    BY <1>3, <1>12 DEF Leaves, NoStoreCall, storeVars
  <2>2. PICK n : n = [rest EXCEPT !.lost = rest.lost \cup {l}]
    OBVIOUS
  <2>3. /\ n.pc = "renew" /\ n.lost = r.lost \cup {l} /\ n.beat = r.beat /\ n.todo = r.todo \ {a}
        /\ n.pend = r.pend /\ n.batch = r.batch
    BY <1>9, <2>2 DEF ProcRecords
  <2>4. lease[l].expires <= clock
    <3>1. lease[l].expires \in Nat /\ r.beat \in Nat /\ clock \in Nat
      BY <1>1, <1>7, StoreConstants DEF SoleInv, SchedulerInv, SchedulerTypeOK, StoreTypeOK, LeaseRows, ProcRecords
    <3> QED BY <1>2, <1>7, <1>12, <3>1 DEF Renewable
  <2>5. AgreeDuty(p, n)'
    BY <1>1, <1>2, <2>1, <2>3, <2>4, WorkAgrees DEF Leaves
  <2> QED BY <1>1, <1>12, <2>1, <2>2, <2>3, <2>5, LeavesAgree
<1>13. CASE ~LeaseLost(p, a) /\ RenewLease(l, Owner, r.beat) /\ proc' = [proc EXCEPT ![p] = rest]
  <2>1. UNCHANGED <<clock, trialState, workState>>
    BY <1>13 DEF RenewLease
  <2>2. PICK row \in LeaseRows : row = lease[l]
    BY <1>7 DEF SoleInv, SchedulerInv, SchedulerTypeOK, StoreTypeOK
  <2>3. PICK new : new = [row EXCEPT !.expires = r.beat + LeaseTTL]
    OBVIOUS
  <2>4. new.state = row.state /\ new.work = row.work
    BY <2>2, <2>3 DEF LeaseRows
  <2>5. lease' = [lease EXCEPT ![l] = new] /\ lease \in [LeaseIds -> LeaseRows]
    BY <1>13, <2>2, <2>3 DEF RenewLease, SoleInv, SchedulerInv, SchedulerTypeOK, StoreTypeOK
  <2>6. (\A k \in LeaseIds \ {l} : lease'[k] = lease[k]) /\ lease'[l] = new
    BY <1>7, <2>5
  <2>7. \A w \in Work : Agrees(w)'
    BY <2>1 DEF AgreeInv, Agrees
  <2>8. ASSUME NEW k \in Active(lease') PROVE Lasts(k)'
    <3>1. k \in Active(lease)
      BY <2>2, <2>4, <2>6, <2>8 DEF Active
    <3>2. CASE k # l
      <4>1. lease'[k] = lease[k]
        BY <2>6, <3>1, <3>2 DEF Active
      <4> QED BY <1>1, <1>3, <1>9, <1>13, <2>1, <3>1, <4>1, LeaseLasts
    <3>3. CASE k = l
      <4>1. LeaseAttempts(l)' # {}
        BY <1>3, <1>5, <1>6 DEF LeaseAttempts, Existing, Steady, AttemptKept, SameIdentity
      <4>2. workState'[lease'[l].work] \in {"running", "cancel_requested"}
        BY <1>7, <2>1, <2>2, <2>4, <2>6
      <4> QED BY <3>3, <4>1, <4>2 DEF Lasts
    <3> QED BY <3>2, <3>3
  <2>9. AgreeDuty(p, rest)'
    <3>1. l \notin r.lost
      BY <1>1, <1>5, <1>13 DEF LeaseLost
    <3>2. r.lost \subseteq LeaseIds
      BY <1>1 DEF ProcRecords, LeaseSets
    <3>3. \A k \in r.lost : lease'[k].expires <= clock'
      BY <1>2, <2>1, <2>6, <3>1, <3>2
    <3> QED BY <1>1, <1>2, <1>9, <2>1, <3>3, WorkAgrees
  <2> QED BY <1>13, <2>7, <2>8, <2>9, AgreeAfter
<1> QED BY <1>10, <1>11, <1>12, <1>13

-----------------------------------------------------------------------------
(* Steps of p that write the rows of the work item w only.                 *)
WritesOnly(w) ==
    /\ UNCHANGED <<clock, lease>> /\ Steady
    /\ \A v \in Work \ {w} : workState'[v] = workState[v] /\ trialState'[v] = trialState[v]

(* They keep the invariant when the rows written agree, the lease of w     *)
(* lasts and the new duties hold.                                          *)
LEMMA WritesAgree ==
    ASSUME SoleInv, AgreeInv, NEW p \in Procs, NEW r, Ours(p, r), NEW n,
           proc' = [proc EXCEPT ![p] = n], NEW w \in Work, WritesOnly(w), r.pc # "release",
           r.batch \subseteq n.batch, Agrees(w)',
           \A l \in Active(lease) : lease[l].work = w => Lasts(l)',
           AgreeDuty(p, n)'
    PROVE  AgreeInv'
<1>1. \A v \in Work : Agrees(v)'
  BY DEF AgreeInv, Agrees, WritesOnly
<1>2. ASSUME NEW l \in Active(lease') PROVE Lasts(l)'
  <2>1. l \in Active(lease) /\ lease'[l] = lease[l] /\ lease[l].work \in Work
    BY <1>2 DEF WritesOnly, Active, SoleInv, SchedulerInv, RowInv
  <2>2. CASE lease[l].work # w
    BY <2>1, <2>2, LeaseLasts DEF WritesOnly
  <2>3. CASE lease[l].work = w
    BY <2>1, <2>3
  <2> QED BY <2>2, <2>3
<1> QED BY <1>1, <1>2, AgreeAfter

(* The attempt at hand, its work and its lease.                            *)
LEMMA AtHand ==
    ASSUME SoleInv, NEW p \in Procs, NEW r, Ours(p, r), r.pc \in Holding
    PROVE  /\ r.cur \in Existing /\ r.cur \in AttemptIds /\ attempt[r.cur].work \in Work
           /\ attempt[r.cur].work = CurWork(p) /\ attempt[r.cur].lease = CurLease(p)
           /\ attempt[r.cur].lease \in LeaseIds
           /\ lease[attempt[r.cur].lease].work = attempt[r.cur].work
<1>1. r = proc[p] /\ r.cur \in Existing
  BY DEF Ours, Good, Fits
<1>2. r.cur \in AttemptIds /\ attempt[r.cur].work \in Work /\ attempt[r.cur].lease \in LeaseIds
  BY <1>1 DEF SoleInv, SchedulerInv, RowInv, Existing
<1>3. lease[attempt[r.cur].lease].work = attempt[r.cur].work
  BY <1>2, StoreConstants DEF SoleInv, SchedulerInv, AttemptIdentity
<1> QED BY <1>1, <1>2, <1>3 DEF CurWork, CurLease, Cur

(* An attempt keeps its work item and lease.                               *)
LEMMA AttemptStays ==
    ASSUME Steady, NEW a \in AttemptIds
    PROVE  attempt'[a].work = attempt[a].work /\ attempt'[a].lease = attempt[a].lease
BY DEF Steady, AttemptKept, SameIdentity

(* Starting an attempt: its work is running when its trial is.             *)
LEMMA RunningAgrees ==
    ASSUME SoleInv, AgreeInv, NEW p \in Procs, NEW r, Ours(p, r), WorkRunning(p) \/ TrialRunning(p)
    PROVE  AgreeInv'
<1>1. r = proc[p] /\ r \in ProcRecords /\ r.pc \in {"work_running", "trial_running"}
  BY DEF WorkRunning, TrialRunning, At, Ours
<1>2. r.pc \in Preparing /\ r.pc \in Holding /\ r.pc # "release" /\ r.lost = {}
  <2>1. r.pc \in Preparing /\ r.pc \in Holding /\ r.pc # "release"
    BY <1>1 DEF Preparing, Starting, Holding
  <2> QED BY <2>1, OwnDuty DEF AgreeDuty, LostDuty
<1>3. Steady
  BY StartMoves, QuietSteady DEF SoleInv
<1>4. PICK w \in Work : w = attempt[r.cur].work
  BY <1>2, AtHand
<1>5. r.cur \in AttemptIds /\ w = CurWork(p) /\ Agrees(w)
  BY <1>2, <1>4, AtHand DEF AgreeInv
<1>6. PICK x \in {"trial_running", "attempt_running"} : Goto(p, x)
  BY DEF WorkRunning, TrialRunning
<1>7. PICK n : Relabelled(p, r, n, x)
  BY <1>6, GotoRelabels
<1>8. AgreeDuty(p, n)'
  <2>1. n.pc \in Preparing
    BY <1>7 DEF Relabelled, Preparing, Starting
  <2> QED BY <1>2, <1>7, <2>1, PrepAgrees DEF Relabelled
<1>9. /\ workState \in [Work -> WorkStates \cup {"absent"}]
      /\ trialState \in [Work -> TrialStates \cup {"absent"}]
  BY DEF SoleInv, SchedulerInv, SchedulerTypeOK, StoreTypeOK
<1>10. WritesOnly(w) /\ Agrees(w)' /\ workState'[w] \in {"running", "cancel_requested"}
  <2>1. CASE WorkRunning(p)
    <3>1. workState' = [workState EXCEPT ![w] = "running"] /\ UNCHANGED <<clock, lease, trialState>>
      BY <1>5, <2>1 DEF WorkRunning, UpdateWorkItem
    <3> QED BY <1>3, <1>5, <1>9, <3>1 DEF WritesOnly, Agrees, Terminal
  <2>2. CASE TrialRunning(p)
    <3>1. trialState' = [trialState EXCEPT ![w] = "running"] /\ UNCHANGED <<clock, lease, workState>>
      BY <1>5, <2>2 DEF TrialRunning, UpdatePlannedTrial
    <3>2. workState[w] \in {"running", "cancel_requested"}
      <4>1. r.pc = "trial_running"
        BY <1>1, <2>2 DEF TrialRunning, At
      <4> QED BY <1>4, <1>5, <4>1 DEF Ours, Duty, BusyDuty, Busy, WorkStateOf
    <3> QED BY <1>3, <1>5, <1>9, <3>1, <3>2 DEF WritesOnly, Agrees, Terminal
  <2> QED BY <2>1, <2>2
<1>11. ASSUME NEW l \in Active(lease), lease[l].work = w PROVE Lasts(l)'
  BY <1>2, <1>3, <1>7, <1>10, <1>11, LeaseLasts DEF WritesOnly, Relabelled
<1> QED BY <1>2, <1>7, <1>8, <1>10, <1>11, WritesAgree DEF Relabelled

(* What a process that records a result knows.                             *)
LEMMA RecordsAgree ==
    ASSUME SoleInv, AgreeInv, NEW p \in Procs, NEW r, Ours(p, r), r.pc \in Recording
    PROVE  /\ r.cur \in AttemptIds /\ IsActive(r.cur) /\ r.batch = {}
           /\ attempt[r.cur].work \in Work /\ attempt[r.cur].work = CurWork(p)
           /\ attempt[r.cur].lease = CurLease(p) /\ attempt[r.cur].lease \in Active(lease)
           /\ \A l \in Active(lease) : lease[l].work = attempt[r.cur].work => l = attempt[r.cur].lease
           /\ \A l \in r.lost : lease[l].expires <= clock
<1>1. r.pc \in Holding /\ r.pc \in Working /\ r.pc \notin Preparing
  BY Phases DEF Recording, Holding, Working
<1>2. IsActive(r.cur) /\ r.batch = {}
  BY <1>1 DEF Ours, Duty, HandDuty, PhaseDuty
<1>3. /\ r.cur \in AttemptIds /\ attempt[r.cur].work \in Work /\ attempt[r.cur].work = CurWork(p)
      /\ attempt[r.cur].lease = CurLease(p) /\ attempt[r.cur].lease \in LeaseIds
      /\ lease[attempt[r.cur].lease].work = attempt[r.cur].work
  BY <1>1, AtHand
<1>4. attempt[r.cur].lease \in Active(lease)
  BY <1>2, <1>3 DEF Active, IsActive
<1>5. \A l \in Active(lease) : lease[l].work = attempt[r.cur].work => l = attempt[r.cur].lease
  BY <1>3, <1>4 DEF SoleInv, SchedulerInv, LeaseExclusive
<1>6. \A l \in r.lost : lease[l].expires <= clock
  BY <1>1, OwnDuty DEF AgreeDuty, LostDuty
<1> QED BY <1>2, <1>3, <1>4, <1>5, <1>6

(* The trial's row is written while the work item is not terminal.         *)
LEMMA WriteTrialAgrees ==
    ASSUME SoleInv, AgreeInv, NEW p \in Procs, NEW r, Ours(p, r), WriteTrial(p) PROVE AgreeInv'
<1>1. r = proc[p] /\ r \in ProcRecords /\ r.pc = "write_trial"
  BY DEF WriteTrial, At, Ours
<1>2. r.pc \in Recording /\ r.pc \in Writing /\ r.pc # "release"
  BY <1>1 DEF Recording, Writing
<1>3. Steady
  BY WriteMoves, QuietSteady DEF SoleInv
<1>4. PICK w \in Work : w = attempt[r.cur].work
  BY <1>2, RecordsAgree
<1>5. r.cur \in AttemptIds /\ w = CurWork(p) /\ Agrees(w) /\ r.batch = {}
  BY <1>2, <1>4, RecordsAgree DEF AgreeInv
<1>6. r.res.state \in Outcomes
  BY <1>2 DEF Ours, Good, Fits
<1>7. PICK n : Relabelled(p, r, n, "write_work")
  BY GotoRelabels DEF WriteTrial
<1>8. /\ trialState' = [trialState EXCEPT ![w] = r.res.state]
      /\ UNCHANGED <<clock, lease, workState>>
  BY <1>1, <1>5 DEF WriteTrial, UpdatePlannedTrial
<1>9. trialState'[w] = r.res.state /\ \A v \in Work \ {w} : trialState'[v] = trialState[v]
  BY <1>8 DEF SoleInv, SchedulerInv, SchedulerTypeOK, StoreTypeOK
<1>10. workState[w] \in {"running", "cancel_requested"}
  BY <1>1, <1>4, <1>5 DEF Ours, Duty, BusyDuty, Busy, WorkStateOf
<1>11. WritesOnly(w) /\ Agrees(w)'
  BY <1>3, <1>5, <1>6, <1>8, <1>9, <1>10 DEF WritesOnly, Agrees, Terminal, Outcomes
<1>12. ASSUME NEW l \in Active(lease), lease[l].work = w PROVE Lasts(l)'
  BY <1>2, <1>3, <1>5, <1>7, <1>8, <1>12, LeaseLasts DEF Relabelled
<1>13. AgreeDuty(p, n)'
  <2>1. n.pc \in Working /\ n.pc # "renew"
    BY <1>7 DEF Relabelled, Working, Recording
  <2>2. trialState'[attempt'[n.cur].work] = n.res.state
    BY <1>3, <1>4, <1>5, <1>7, <1>9, AttemptStays DEF Relabelled
  <2>3. \A l \in n.lost : lease'[l].expires <= clock'
    BY <1>2, <1>7, <1>8, RecordsAgree DEF Relabelled
  <2> QED BY <2>1, <2>2, <2>3, WorkAgrees
<1> QED BY <1>2, <1>5, <1>7, <1>11, <1>12, <1>13, WritesAgree DEF Relabelled

(* A lease that p is about to release, or that it lost, lasts.             *)
LEMMA HeldLasts ==
    ASSUME SoleInv, Steady, NEW p \in Procs, NEW r, NEW n, proc' = [proc EXCEPT ![p] = n],
           NEW a \in AttemptIds, NEW l, l = attempt[a].lease, n.cur = a,
           \/ n.pc = "release"
           \/ workState'[lease'[l].work] \notin {"queued", "unknown"}
           \/ workState'[lease'[l].work] # "queued" /\ lease'[l].expires <= clock'
    PROVE  Lasts(l)'
<1>1. n = proc'[p]
  BY Lands
<1>2. LeaseAttempts(l)' # {}
  BY AttemptStays DEF LeaseAttempts
<1>3. n.pc = "release" => Releasing(l)'
  BY <1>1, AttemptStays DEF Releasing
<1> QED BY <1>2, <1>3 DEF Lasts

(* The work item's row is written after the trial's and says the same.     *)
LEMMA WriteWorkAgrees ==
    ASSUME SoleInv, AgreeInv, NEW p \in Procs, NEW r, Ours(p, r), WriteWork(p) PROVE AgreeInv'
<1>1. r = proc[p] /\ r \in ProcRecords /\ r.pc = "write_work"
  BY DEF WriteWork, At, Ours
<1>2. r.pc \in Recording /\ r.pc \in Writing /\ r.pc \in Reporting /\ r.pc # "release"
  BY <1>1 DEF Recording, Writing, Reporting
<1>3. Steady
  BY WriteMoves, QuietSteady DEF SoleInv
<1>4. PICK w \in Work : w = attempt[r.cur].work
  BY <1>2, RecordsAgree
<1>5. PICK l : l = attempt[r.cur].lease
  OBVIOUS
<1>6. /\ r.cur \in AttemptIds /\ w = CurWork(p) /\ Agrees(w) /\ r.batch = {}
      /\ l \in Active(lease) /\ l = CurLease(p) /\ lease[l].work = w
  <2>1. r.pc \in Holding
    BY <1>1 DEF Holding
  <2> QED BY <1>2, <1>4, <1>5, <2>1, RecordsAgree, AtHand DEF AgreeInv
<1>7. r.res.state \in Outcomes /\ trialState[w] = r.res.state /\ (r.res.retry => r.res.state = "failed")
  <2>1. TrialDuty(r)
    BY OwnDuty DEF AgreeDuty
  <2> QED BY <1>1, <1>2, <1>4, <2>1 DEF Ours, Good, Fits, Duty, ResultDuty, TrialDuty
<1>8. PICK x \in {"complete", "retry", "release"} :
         /\ Goto(p, x) /\ (x = "retry" => r.res.retry) /\ (x = "complete" => l \in r.lost)
  BY <1>1, <1>5 DEF WriteWork, LeaseLost, Cur
<1>9. PICK n : Relabelled(p, r, n, x)
  BY <1>8, GotoRelabels
<1>10. workState' = [workState EXCEPT ![w] = r.res.state] /\ UNCHANGED <<clock, lease, trialState>>
  BY <1>1, <1>6 DEF WriteWork, UpdateWorkItem
<1>11. workState'[w] = r.res.state /\ \A v \in Work \ {w} : workState'[v] = workState[v]
  BY <1>10 DEF SoleInv, SchedulerInv, SchedulerTypeOK, StoreTypeOK
<1>12. WritesOnly(w) /\ Agrees(w)'
  BY <1>3, <1>6, <1>7, <1>10, <1>11 DEF WritesOnly, Agrees, Terminal, Outcomes
<1>13. Lasts(l)'
  <2>1. x = "complete" => lease'[l].expires <= clock'
    BY <1>2, <1>8, <1>10, RecordsAgree
  <2>2. /\ x = "retry" => workState'[lease'[l].work] = "failed"
        /\ workState'[lease'[l].work] # "queued"
    BY <1>6, <1>7, <1>8, <1>10, <1>11 DEF Outcomes
  <2>3. n.cur = r.cur /\ n.pc = x
    BY <1>9 DEF Relabelled
  <2> QED BY <1>3, <1>5, <1>6, <1>8, <1>9, <2>1, <2>2, <2>3, HeldLasts DEF Relabelled
<1>14. \A k \in Active(lease) : lease[k].work = w => Lasts(k)'
  BY <1>2, <1>4, <1>5, <1>13, RecordsAgree
<1>15. AgreeDuty(p, n)'
  <2>1. n.pc \in Working /\ n.pc # "renew" /\ n.pc # "write_work"
    BY <1>8, <1>9 DEF Relabelled, Working, Recording
  <2>2. \A k \in n.lost : lease'[k].expires <= clock'
    BY <1>2, <1>9, <1>10, RecordsAgree DEF Relabelled
  <2> QED BY <2>1, <2>2, WorkAgrees
<1> QED BY <1>2, <1>6, <1>9, <1>12, <1>14, <1>15, WritesAgree DEF Relabelled

(* Queueing a retry: the trial had failed too, and the lease is at hand.   *)
LEMMA RequeueAgrees ==
    ASSUME SoleInv, AgreeInv, NEW p \in Procs, NEW r, Ours(p, r), Requeue(p) PROVE AgreeInv'
<1>1. r = proc[p] /\ r \in ProcRecords /\ r.pc = "requeue"
  BY DEF Requeue, At, Ours
<1>2. r.pc \in Recording /\ r.pc # "release"
  BY <1>1 DEF Recording
<1>3. Steady
  BY RetryMoves, QuietSteady DEF SoleInv
<1>4. PICK w \in Work : w = attempt[r.cur].work
  BY <1>2, RecordsAgree
<1>5. /\ r.cur \in AttemptIds /\ w = CurWork(p) /\ Agrees(w) /\ r.batch = {}
      /\ \A l \in Active(lease) : lease[l].work = w => l = attempt[r.cur].lease
  BY <1>2, <1>4, RecordsAgree DEF AgreeInv
<1>6. workState[w] = "failed" /\ trialState[w] = "failed"
  <2>1. workState[w] = "failed"
    BY <1>1, <1>4 DEF Ours, Duty, WorkDuty, WorkStateOf
  <2> QED BY <1>5, <2>1 DEF Agrees, Terminal
<1>7. /\ workState' = [workState EXCEPT ![w] = "queued"]
      /\ trialState' = [trialState EXCEPT ![w] = "queued"] /\ UNCHANGED <<clock, lease>>
  BY <1>1, <1>5, <1>6 DEF Requeue, ScheduleRetry
<1>8. WritesOnly(w) /\ Agrees(w)'
  <2>1. /\ workState \in [Work -> WorkStates \cup {"absent"}]
        /\ trialState \in [Work -> TrialStates \cup {"absent"}]
    BY DEF SoleInv, SchedulerInv, SchedulerTypeOK, StoreTypeOK
  <2> QED BY <1>3, <1>7, <2>1 DEF WritesOnly, Agrees, Terminal
<1>9. PICK n : Relabelled(p, r, n, "release")
  BY GotoRelabels DEF Requeue
<1>10. \A l \in Active(lease) : lease[l].work = w => Lasts(l)'
  BY <1>3, <1>5, <1>9, HeldLasts DEF Relabelled
<1>11. AgreeDuty(p, n)'
  <2>1. n.pc \in Working /\ n.pc # "renew" /\ n.pc # "write_work"
    BY <1>9 DEF Relabelled, Working, Recording
  <2>2. \A k \in n.lost : lease'[k].expires <= clock'
    BY <1>2, <1>7, <1>9, RecordsAgree DEF Relabelled
  <2> QED BY <2>1, <2>2, WorkAgrees
<1> QED BY <1>2, <1>5, <1>8, <1>9, <1>10, <1>11, WritesAgree DEF Relabelled

(* Once released it is no longer active, and there is no other.            *)
LEMMA ReleaseAgrees ==
    ASSUME SoleInv, AgreeInv, NEW p \in Procs, NEW r, Ours(p, r), Release(p) PROVE AgreeInv'
<1>1. r = proc[p] /\ r \in ProcRecords /\ r.pc = "release" /\ r.pc \in Recording
  BY DEF Release, At, Ours, Recording
<1>2. Steady
  BY ReleaseMoves, QuietSteady DEF SoleInv
<1>3. PICK l \in Active(lease) : l = attempt[r.cur].lease /\ l = CurLease(p) /\ lease[l].work = attempt[r.cur].work
  <2>1. r.pc \in Holding
    BY <1>1 DEF Holding
  <2> QED BY <1>1, <2>1, RecordsAgree, AtHand
<1>4. r.cur \in AttemptIds /\ r.batch = {} /\ l \in LeaseIds /\ \A k \in r.lost : lease[k].expires <= clock
  BY <1>1, RecordsAgree DEF Active
<1>5. PICK n : Relabelled(p, r, n, "complete")
  BY GotoRelabels DEF Release
<1>6. workState[lease[l].work] \notin {"leased", "running"}
  BY <1>1, <1>3 DEF Ours, Duty, WorkDuty, WorkStateOf
<1>7. UNCHANGED <<clock, trialState, workState>> /\ lease' = [lease EXCEPT ![l].state = "released"]
  BY <1>3, <1>6 DEF Release, ReleaseLease
<1>8. PICK row \in LeaseRows : row = lease[l]
  BY <1>4 DEF SoleInv, SchedulerInv, SchedulerTypeOK, StoreTypeOK
<1>9. PICK new : new = [row EXCEPT !.state = "released"]
  OBVIOUS
<1>10. new.state = "released" /\ new.expires = row.expires
  BY <1>8, <1>9 DEF LeaseRows
<1>11. lease'[l] = new /\ \A k \in LeaseIds \ {l} : lease'[k] = lease[k]
  <2>1. lease' = [lease EXCEPT ![l] = new] /\ lease \in [LeaseIds -> LeaseRows]
    BY <1>7, <1>8, <1>9 DEF SoleInv, SchedulerInv, SchedulerTypeOK, StoreTypeOK
  <2> QED BY <1>4, <2>1
<1>12. \A w \in Work : Agrees(w)'
  BY <1>7 DEF AgreeInv, Agrees
<1>13. ASSUME NEW k \in Active(lease') PROVE Lasts(k)'
  <2>1. k \in Active(lease) /\ k # l /\ lease'[k] = lease[k]
    BY <1>10, <1>11, <1>13 DEF Active
  <2>2. LeaseAttempts(k) # {} /\ workState[lease[k].work] # "queued"
    BY <1>3, <1>4, <2>1, HeldBy
  <2>3. workState[lease[k].work] = "unknown" => lease[k].expires <= clock
    BY <1>3, <1>4, <2>1, HeldBy
  <2>4. LeaseAttempts(k)' # {}
    BY <1>2, <2>2 DEF LeaseAttempts, Steady, AttemptKept, SameIdentity
  <2> QED BY <1>7, <2>1, <2>2, <2>3, <2>4 DEF Lasts
<1>14. AgreeDuty(p, n)'
  <2>1. n.pc \in Working /\ n.pc # "renew" /\ n.pc # "write_work"
    BY <1>5 DEF Relabelled, Working
  <2>2. ASSUME NEW k \in r.lost PROVE lease'[k].expires = lease[k].expires
    <3>1. k \in LeaseIds
      BY <1>1, <2>2 DEF ProcRecords, LeaseSets
    <3> QED BY <1>8, <1>10, <1>11, <3>1
  <2>3. \A k \in n.lost : lease'[k].expires <= clock'
    BY <1>4, <1>5, <1>7, <2>2 DEF Relabelled
  <2> QED BY <2>1, <2>3, WorkAgrees
<1> QED BY <1>5, <1>12, <1>13, <1>14, AgreeAfter DEF Relabelled

-----------------------------------------------------------------------------
(* The expiry of leases by a process that neither prepares an attempt nor  *)
(* releases one gives up running work only: every lease that runs out      *)
(* carries an attempt, and its work is not queued.                         *)
LEMMA ExpiryAgrees ==
    ASSUME SoleInv, AgreeInv, NEW p \in Procs, NEW r, Ours(p, r), r.pc # "release",
           NEW D \in SUBSET Active(lease), D \cap r.batch = {},
           NEW ws, ws = ExpiredWork(D), NEW ts, ts = ExpiredTrials(D), NEW v \in Work
    PROVE  /\ ws[v] \in {workState[v], "unknown"} /\ ts[v] # "absent" /\ ws[v] # "absent"
           /\ ws[v] \in Terminal => ts[v] = ws[v]
           /\ ws[v] = "queued" => ts[v] \in {"planned", "queued"}
           /\ (\A l \in D : lease[l].work # v) => ws[v] = workState[v]
<1>1. Agrees(v)
  BY DEF AgreeInv
<1>2. ASSUME NEW l \in D, lease[l].work = v PROVE workState[v] # "queued" /\ LeaseAttempts(l) # {}
  BY <1>2, HeldBy
<1>3. CASE \A l \in D : lease[l].work # v
  <2>1. ws[v] = workState[v] /\ ts[v] = trialState[v]
    BY <1>3 DEF ExpiredWork, ExpiredTrials
  <2> QED BY <1>1, <1>3, <2>1 DEF Agrees
<1>4. CASE \E l \in D : lease[l].work = v
  <2>1. workState[v] # "queued" /\ ws[v] \in {workState[v], "unknown"}
    BY <1>2, <1>4 DEF ExpiredWork
  <2>2. ts[v] \in {trialState[v], "unknown"}
    BY DEF ExpiredTrials
  <2>3. trialState[v] \in Terminal => ts[v] = trialState[v]
    BY DEF ExpiredTrials, Terminal
  <2> QED BY <1>1, <1>4, <2>1, <2>2, <2>3 DEF Agrees, Terminal
<1> QED BY <1>3, <1>4

(* What an expiry leaves active is not in D, nor is its work.              *)
LEMMA ExpirySpares ==
    ASSUME SoleInv, NEW D \in SUBSET Active(lease), NEW k \in LeaseIds,
           ExpiredLeases(D)[k].state = "active"
    PROVE  /\ k \in Active(lease) /\ k \notin D /\ ExpiredLeases(D)[k] = lease[k]
           /\ \A l \in D : lease[l].work # lease[k].work
<1>1. k \notin D
  <2>1. ASSUME k \in D PROVE FALSE
    <3>1. PICK row \in LeaseRows : row = lease[k]
      BY DEF SoleInv, SchedulerInv, SchedulerTypeOK, StoreTypeOK
    <3>2. ExpiredLeases(D)[k] = [row EXCEPT !.state = "expired"]
      BY <2>1, <3>1 DEF ExpiredLeases
    <3>3. [row EXCEPT !.state = "expired"].state = "expired"
      BY DEF LeaseRows
    <3> QED BY <3>2, <3>3
  <2> QED BY <2>1
<1>2. ExpiredLeases(D)[k] = lease[k]
  BY <1>1 DEF ExpiredLeases
<1>3. k \in Active(lease)
  BY <1>2 DEF Active
<1>4. \A l \in D : lease[l].work # lease[k].work
  BY <1>1, <1>3 DEF SoleInv, SchedulerInv, LeaseExclusive
<1> QED BY <1>1, <1>2, <1>3, <1>4

(* The leases of a batch are not due.                                      *)
LEMMA BatchSpared ==
    ASSUME SoleInv, NEW p \in Procs, NEW r, Ours(p, r), NEW D, D = Due(Work, r.now)
    PROVE  D \cap r.batch = {} /\ D \in SUBSET Active(lease)
<1>1. ASSUME NEW l \in r.batch PROVE l \notin D
  <2>1. lease[l].expires > r.now /\ l \in LeaseIds
    BY DEF Ours, Duty, BatchDuty, Good, Unused
  <2>2. lease[l].expires \in Nat /\ r.now \in Nat
    BY <2>1 DEF Ours, ProcRecords, SoleInv, SchedulerInv, SchedulerTypeOK, StoreTypeOK, LeaseRows
  <2> QED BY <2>1, <2>2 DEF Due
<1> QED BY <1>1 DEF Due

(* A step of p that expires leases and does nothing else to the tables.    *)
LEMMA ExpiringAgrees ==
    ASSUME SoleInv, AgreeInv, NEW p \in Procs, NEW r, Ours(p, r), r.pc # "release", NEW n,
           proc' = [proc EXCEPT ![p] = n], Steady, r.batch \subseteq n.batch,
           NEW W, NEW t, NEW D, D = Due(W, t), D \cap r.batch = {}, ExpireLeases(W, t), AgreeDuty(p, n)'
    PROVE  AgreeInv'
<1>1. /\ workState' = ExpiredWork(D) /\ trialState' = ExpiredTrials(D) /\ lease' = ExpiredLeases(D)
      /\ UNCHANGED clock /\ D \in SUBSET Active(lease)
  BY DEF ExpireLeases, Due
<1>2. \A v \in Work : Agrees(v)'
  BY <1>1, ExpiryAgrees DEF Agrees
<1>3. ASSUME NEW k \in Active(lease') PROVE Lasts(k)'
  <2>1. k \in LeaseIds /\ ExpiredLeases(D)[k].state = "active"
    BY <1>1, <1>3 DEF Active
  <2>2. k \in Active(lease) /\ lease'[k] = lease[k] /\ \A l \in D : lease[l].work # lease[k].work
    BY <1>1, <2>1, ExpirySpares
  <2>3. lease[k].work \in Work
    BY <2>2 DEF Active, SoleInv, SchedulerInv, RowInv
  <2>4. workState'[lease[k].work] = workState[lease[k].work]
    BY <1>1, <2>2, <2>3, ExpiryAgrees
  <2> QED BY <1>1, <2>2, <2>4, LeaseLasts
<1> QED BY <1>2, <1>3, AgreeAfter

-----------------------------------------------------------------------------
(* A command that ends: the process is idle again.                         *)
LEMMA QuitAgrees ==
    ASSUME SoleInv, AgreeInv, NEW p \in Procs, NEW r, Ours(p, r), Leaves, r.pc # "release",
           r.batch = {}, Quit(p)
    PROVE  AgreeInv'
<1>1. PICK n : n = IdleProc
  OBVIOUS
<1>2. n.pc = "idle" /\ n.batch = {} /\ proc' = [proc EXCEPT ![p] = n]
  BY <1>1 DEF IdleProc, Quit
<1>3. AgreeDuty(p, n)'
  BY <1>2, IdleAgrees
<1> QED BY <1>2, <1>3, LeavesAgree

(* Starting a run, and giving up a dispatch.                               *)
LEMMA EndsAgree ==
    ASSUME SoleInv, AgreeInv, NEW p \in Procs, NEW r, Ours(p, r), StartRun(p) \/ Abort(p)
    PROVE  AgreeInv'
<1>1. r = proc[p] /\ r.pc \in {"idle", "abort"}
  BY DEF StartRun, Abort, At, Ours
<1>2. r.pc # "release" /\ r.batch = {}
  <2>1. r.pc = "idle" => r.batch = {}
    BY RestingEmpty DEF Resting
  <2>2. r.pc = "abort" => r.pc \notin Preparing
    BY DEF Preparing, Starting
  <2>3. r.pc \notin Preparing => r.batch = {}
    BY DEF Ours, Duty, PhaseDuty
  <2> QED BY <1>1, <2>1, <2>2, <2>3
<1>3. QuietMove(p)
  BY EndMoves, CommandMoves DEF SoleInv, Command
<1>4. Leaves
  BY <1>3, QuietSteady DEF StartRun, Abort, NoStoreCall, storeVars, Leaves
<1>5. CASE StartRun(p)
  <2>1. PICK n : n = BeginDispatch(p, [IdleProc EXCEPT !.now = clock])
    OBVIOUS
  <2>2. n.pc = "lease" /\ n.lost = {} /\ n.batch = {}
    BY <2>1 DEF BeginDispatch, IdleProc
  <2>3. proc' = [proc EXCEPT ![p] = n]
    BY <1>5, <2>1 DEF StartRun
  <2>4. n.pc \in Preparing
    BY <2>2 DEF Preparing
  <2>5. AgreeDuty(p, n)'
    BY <2>2, <2>4, PrepAgrees
  <2> QED BY <1>2, <1>4, <2>2, <2>3, <2>5, LeavesAgree
<1>6. CASE Abort(p)
  BY <1>2, <1>4, <1>6, QuitAgrees DEF Abort
<1> QED BY <1>5, <1>6

(* No work left to lease: the expiry spares the batch.                     *)
LEMMA LeaseNoneAgrees ==
    ASSUME SoleInv, AgreeInv, NEW p \in Procs, NEW r, Ours(p, r), LeaseNone(p) PROVE AgreeInv'
<1>1. r = proc[p] /\ r.pc = "lease" /\ r.pc \in Preparing /\ r.pc # "release"
  BY DEF LeaseNone, At, Ours, Preparing
<1>2. r.lost = {}
  BY <1>1, OwnDuty DEF AgreeDuty, LostDuty
<1>3. Steady
  BY EndMoves, QuietSteady DEF SoleInv
<1>4. PICK D : D = Due(Work, r.now)
  OBVIOUS
<1>5. D \cap r.batch = {} /\ ExpireLeases(Work, r.now)
  BY <1>1, <1>4, BatchSpared DEF LeaseNone, LeaseNextNothing
<1>6. CASE r.batch = {}
  <2>1. PICK n : n = IdleProc
    OBVIOUS
  <2>2. n.pc = "idle" /\ n.batch = {} /\ proc' = [proc EXCEPT ![p] = n]
    BY <1>1, <1>6, <2>1 DEF IdleProc, Quit, LeaseNone
  <2>3. AgreeDuty(p, n)'
    BY <2>2, IdleAgrees
  <2> QED BY <1>1, <1>3, <1>4, <1>5, <1>6, <2>2, <2>3, ExpiringAgrees
<1>7. CASE r.batch # {}
  <2>1. PICK n : Relabelled(p, r, n, "batch")
    BY <1>1, <1>7, GotoRelabels DEF LeaseNone
  <2>2. n.pc \in Preparing
    BY <2>1 DEF Relabelled, Preparing
  <2>3. AgreeDuty(p, n)'
    BY <1>2, <2>1, <2>2, PrepAgrees DEF Relabelled
  <2> QED BY <1>1, <1>3, <1>4, <1>5, <2>1, <2>3, ExpiringAgrees DEF Relabelled
<1> QED BY <1>6, <1>7

(* Resuming a run: an active lease of unknown work has run out, so that    *)
(* the expiry takes it.                                                    *)
LEMMA ResumeAgrees ==
    ASSUME SoleInv, AgreeInv, NEW p \in Procs, NEW r, Ours(p, r), ResumeRun(p) PROVE AgreeInv'
<1>1. r = proc[p] /\ r \in ProcRecords /\ r.pc = "idle"
  BY DEF ResumeRun, At, Ours
<1>2. r.batch = {} /\ r.pc # "release"
  BY <1>1, RestingEmpty DEF Resting
<1>3. Steady
  BY CommandMoves, QuietSteady DEF SoleInv, Command
<1>4. PICK W : W = WorkOfRun(RunServed[p])
  OBVIOUS
<1>5. PICK D : D = Due(W, clock)
  OBVIOUS
<1>6. ExpireLeases(W, clock)
  BY <1>4 DEF ResumeRun
<1>7. PICK n : n = [r EXCEPT !.pc = "unknown_list", !.now = clock, !.ready = ~started[RunServed[p]]]
  OBVIOUS
<1>8. n.pc = "unknown_list" /\ n.batch = {}
  BY <1>1, <1>2, <1>7 DEF ProcRecords
<1>9. proc' = [proc EXCEPT ![p] = n]
  BY <1>1, <1>7 DEF ResumeRun
<1>10. /\ workState' = ExpiredWork(D) /\ lease' = ExpiredLeases(D) /\ UNCHANGED clock
       /\ D \in SUBSET Active(lease)
  BY <1>5, <1>6 DEF ExpireLeases, Due
<1>11. ASSUME NEW w \in W, workState'[w] = "unknown", NEW k \in Active(lease'), lease'[k].work = w
       PROVE  FALSE
  <2>1. k \in LeaseIds /\ ExpiredLeases(D)[k].state = "active"
    BY <1>10, <1>11 DEF Active
  <2>2. /\ k \in Active(lease) /\ k \notin D /\ lease[k].work = w
        /\ \A l \in D : lease[l].work # w
    BY <1>10, <1>11, <2>1, ExpirySpares
  <2>3. w \in Work
    BY <2>2 DEF Active, SoleInv, SchedulerInv, RowInv
  <2>4. workState[w] = "unknown"
    BY <1>2, <1>10, <1>11, <2>2, <2>3, ExpiryAgrees
  <2>5. lease[k].expires <= clock
    BY <1>2, <2>2, <2>4, HeldBy
  <2> QED BY <1>5, <1>11, <2>2, <2>5 DEF Due
<1>12. AgreeDuty(p, n)'
  <2>1. /\ n.pc \in Reconciling /\ n.pc \notin Settling /\ n.pc # "reconcile"
        /\ n.pc \notin {"write_work", "settle_work", "settle_attempt", "settle_trial",
                        "settle_retry", "settle_requeue"}
    BY <1>8 DEF Reconciling, Settling
  <2>2. UnknownDuty(p, n)'
    BY <1>4, <1>11, <2>1 DEF UnknownDuty, HasActiveLease
  <2>3. TrialDuty(n)'
    BY <2>1 DEF TrialDuty
  <2> QED BY <2>1, <2>2, <2>3, RestAgrees
<1> QED BY <1>2, <1>3, <1>5, <1>6, <1>8, <1>9, <1>12, ExpiringAgrees

(* Leasing one more work item.                                             *)
LEMMA LeaseOneAgrees ==
    ASSUME SoleInv, AgreeInv, NEW p \in Procs, NEW r, Ours(p, r), LeaseOne(p) PROVE AgreeInv'
<1>1. r = proc[p] /\ r \in ProcRecords /\ r.pc = "lease" /\ r.pc \in Preparing /\ r.pc # "release"
  BY DEF LeaseOne, At, Ours, Preparing
<1>2. r.lost = {} /\ r.now \in Nat
  BY <1>1, OwnDuty DEF AgreeDuty, LostDuty, ProcRecords
<1>3. PICK l \in LeaseIds, w \in Work :
         /\ LeaseNextWorkItem(l, w, Owner, r.now)
         /\ proc' = [proc EXCEPT ![p].batch = r.batch \cup {l},
                ![p].pc = IF Cardinality(r.batch \cup {l}) = GlobalLimit THEN "batch" ELSE "lease"]
  BY <1>1 DEF LeaseOne
<1>4. PICK D : D = Due(Work, r.now)
  OBVIOUS
<1>5. Granted(l, w, D, r.now)
  BY <1>3, <1>4, GrantFacts
<1>6. Steady
  <2>1. LeaseCall
    BY <1>2, <1>3 DEF LeaseCall
  <2> QED BY <2>1, QuietAttempts DEF SoleInv, SchedulerInv, SchedulerTypeOK
<1>7. PICK x \in {"batch", "lease"} :
          x = IF Cardinality(r.batch \cup {l}) = GlobalLimit THEN "batch" ELSE "lease"
  OBVIOUS
<1>8. PICK n : n = [r EXCEPT !.batch = r.batch \cup {l}, !.pc = x]
  OBVIOUS
<1>9. n.pc = x /\ n.batch = r.batch \cup {l} /\ n.lost = {}
  BY <1>1, <1>2, <1>8 DEF ProcRecords
<1>10. proc' = [proc EXCEPT ![p] = n]
  BY <1>1, <1>3, <1>7, <1>8
<1>11. D \in SUBSET Active(lease) /\ D \cap r.batch = {}
  BY <1>4, BatchSpared
<1>12. trialState' = ExpiredTrials(D) /\ UNCHANGED clock
  BY <1>3, <1>4 DEF LeaseNextWorkItem
<1>13. PICK ws, ts : ws = ExpiredWork(D) /\ ts = ExpiredTrials(D)
  OBVIOUS
<1>14. \A v \in Work :
          /\ ts[v] # "absent" /\ ws[v] # "absent" /\ (ws[v] \in Terminal => ts[v] = ws[v])
          /\ ws[v] = "queued" => ts[v] \in {"planned", "queued"}
  BY <1>1, <1>11, <1>13, ExpiryAgrees
<1>15. \A v \in Work : Agrees(v)'
  <2>1. workState'[w] = "leased" /\ \A v \in Work \ {w} : workState'[v] = ws[v]
    BY <1>5, <1>13 DEF Granted
  <2>2. trialState' = ts
    BY <1>12, <1>13
  <2> QED BY <1>14, <2>1, <2>2 DEF Agrees, Terminal
<1>16. ASSUME NEW k \in Active(lease') PROVE Lasts(k)'
  <2>1. CASE k = l
    <3>1. workState'[lease'[l].work] = "leased"
      BY <1>5 DEF Granted
    <3>2. n = proc'[p] /\ l \in n.batch
      BY <1>9, <1>10, Lands
    <3> QED BY <2>1, <3>1, <3>2 DEF Lasts
  <2>2. CASE k # l
    <3>1. k \in LeaseIds /\ lease'[k] = ExpiredLeases(D)[k]
      BY <1>5, <1>16, <2>2 DEF Granted, Active
    <3>2. ExpiredLeases(D)[k].state = "active"
      BY <1>16, <3>1 DEF Active
    <3>3. /\ k \in Active(lease) /\ lease'[k] = lease[k] /\ lease[k].work # w
          /\ \A j \in D : lease[j].work # lease[k].work
      BY <1>5, <1>11, <3>1, <3>2, ExpirySpares DEF Granted
    <3>4. lease[k].work \in Work
      BY <3>3 DEF Active, SoleInv, SchedulerInv, RowInv
    <3>5. ws[lease[k].work] = workState[lease[k].work]
      BY <1>1, <1>11, <1>13, <3>3, <3>4, ExpiryAgrees
    <3>6. workState'[lease[k].work] = workState[lease[k].work]
      BY <1>5, <1>13, <3>3, <3>4, <3>5 DEF Granted
    <3> QED BY <1>1, <1>6, <1>9, <1>10, <1>12, <3>3, <3>6, LeaseLasts
  <2> QED BY <2>1, <2>2
<1>17. AgreeDuty(p, n)'
  <2>1. n.pc \in Preparing
    BY <1>9 DEF Preparing
  <2> QED BY <1>9, <2>1, PrepAgrees
<1> QED BY <1>10, <1>15, <1>16, <1>17, AgreeAfter

(* The attempt created for a lease takes it out of the batch.              *)
LEMMA CreateAgrees ==
    ASSUME SoleInv, AgreeInv, NEW p \in Procs, NEW r, Ours(p, r), CreateNext(p) PROVE AgreeInv'
<1>1. r = proc[p] /\ r \in ProcRecords /\ r.pc = "create" /\ r.pc \in Preparing /\ r.pc # "release"
  BY DEF CreateNext, At, Ours, Preparing
<1>2. r.lost = {}
  BY <1>1, OwnDuty DEF AgreeDuty, LostDuty
<1>3. PICK l \in LeaseIds, a \in AttemptIds, k \in 0 .. MaxNumber - 1 :
         /\ l \in r.batch /\ IsNextRetry(lease[l].work, k)
         /\ CreateAttemptForLease(a, lease[l].work, 1, k, l, r.now)
         /\ proc' = [proc EXCEPT ![p].pc = "work_running", ![p].cur = a, ![p].batch = r.batch \ {l}]
  BY <1>1 DEF CreateNext, NextLease
<1>4. PICK w \in Work : w = lease[l].work /\ workState[w] \in {"leased", "cancel_requested"}
  BY <1>3 DEF Ours, Good, Duty, BatchDuty, Unused, SoleInv, SchedulerInv, RowInv
<1>5. l \in Unused /\ k \in Nat
  BY <1>3 DEF Ours, Good
<1>6. PICK m : Inserted(a, w, m, k, l)
  BY <1>3, <1>4, <1>5, InsertedFacts
<1>7. PICK n : n = [r EXCEPT !.pc = "work_running", !.cur = a, !.batch = r.batch \ {l}]
  OBVIOUS
<1>8. n.pc = "work_running" /\ n.batch = r.batch \ {l} /\ n.lost = {}
  BY <1>1, <1>2, <1>7 DEF ProcRecords
<1>9. proc' = [proc EXCEPT ![p] = n] /\ n = proc'[p]
  <2>1. proc' = [proc EXCEPT ![p] = n]
    BY <1>1, <1>3, <1>7
  <2> QED BY <2>1, Lands
<1>10. UNCHANGED <<clock, trialState, workState, lease>>
  BY <1>3 DEF CreateAttemptForLease, InsertAttempt
<1>11. \A v \in Work : Agrees(v)'
  BY <1>10 DEF AgreeInv, Agrees
<1>12. ASSUME NEW j \in Active(lease') PROVE Lasts(j)'
  <2>1. j \in Active(lease)
    BY <1>10, <1>12 DEF Active
  <2>2. /\ LeaseAttempts(j) = {} => j \in r.batch
        /\ workState[lease[j].work] # "queued"
        /\ workState[lease[j].work] = "unknown" => lease[j].expires <= clock
    BY <1>1, <2>1, HeldBy
  <2>3. LeaseAttempts(j)' = {} => j \in n.batch
    <3>1. CASE j = l
      BY <1>6, <3>1 DEF LeaseAttempts, Inserted
    <3>2. CASE j # l
      <4>1. LeaseAttempts(j)' = {} => LeaseAttempts(j) = {}
        <5>1. \A b \in AttemptIds : attempt[b].lease = j => attempt'[b].lease = j
          <6>1. attempt[a].lease # j
            BY <1>6, <2>1, StoreConstants DEF Inserted, SoleInv, SchedulerInv, RowInv, Existing, Active
          <6> QED BY <1>6, <6>1 DEF Inserted
        <5> QED BY <5>1 DEF LeaseAttempts
      <4> QED BY <1>8, <2>2, <3>2, <4>1
    <3> QED BY <3>1, <3>2
  <2> QED BY <1>9, <1>10, <2>2, <2>3 DEF Lasts
<1>13. AgreeDuty(p, n)'
  <2>1. n.pc \in Preparing
    BY <1>8 DEF Preparing, Starting
  <2> QED BY <1>8, <2>1, PrepAgrees
<1> QED BY <1>9, <1>11, <1>12, <1>13, AgreeAfter

(* The unique index never refuses a lease, and a lease of the batch still  *)
(* holds when its attempt is created.                                      *)
LEMMA NeverRefused ==
    ASSUME SoleInv, AgreeInv, NEW p \in Procs, NEW r, Ours(p, r)
    PROVE  ~LeaseRefused(p) /\ ~CreateRefused(p)
<1>1. r = proc[p]
  BY DEF Ours
<1>2. ASSUME LeaseRefused(p) PROVE FALSE
  <2>1. r.pc = "lease" /\ r.pc # "release"
    BY <1>1, <1>2 DEF LeaseRefused, At
  <2>2. PICK D : D = Due(Work, r.now)
    OBVIOUS
  <2>3. PICK w \in Work : /\ IsSelected(w, r.now, ExpiredWork(D), ExpiredLeases(D))
                          /\ HasActiveLease(w, ExpiredLeases(D))
    BY <1>1, <1>2, <2>2 DEF LeaseRefused, LeaseNextRaises
  <2>4. ExpiredWork(D)[w] = "queued"
    BY <2>3 DEF IsSelected, UnderLimits, Candidates
  <2>5. PICK k \in LeaseIds : ExpiredLeases(D)[k].state = "active" /\ ExpiredLeases(D)[k].work = w
    BY <2>3 DEF HasActiveLease, Active
  <2>6. D \in SUBSET Active(lease) /\ D \cap r.batch = {}
    BY <2>2, BatchSpared
  <2>7. k \in Active(lease) /\ lease[k].work = w /\ \A l \in D : lease[l].work # w
    BY <2>5, <2>6, ExpirySpares
  <2>8. workState[w] = "queued"
    BY <2>1, <2>4, <2>6, <2>7, ExpiryAgrees
  <2> QED BY <2>1, <2>7, <2>8, HeldBy
<1>3. ASSUME CreateRefused(p) PROVE FALSE
  <2>1. PICK l \in LeaseIds : l \in r.batch /\ ~LeaseHolds(l, lease[l].work, r.now)
    BY <1>1, <1>3 DEF CreateRefused, NextLease
  <2> QED BY <2>1 DEF LeaseHolds, Ours, Duty, BatchDuty
<1> QED BY <1>2, <1>3

-----------------------------------------------------------------------------
(* What a process that reconciles knows.                                   *)
LEMMA RestKnows ==
    ASSUME SoleInv, AgreeInv, NEW p \in Procs, NEW r, Ours(p, r), r.pc \in Reconciling
    PROVE  /\ r = proc[p] /\ r \in ProcRecords /\ r.pc # "release" /\ r.batch = {}
           /\ UnknownDuty(p, r) /\ TrialDuty(r)
           /\ r.pc \in Settling => /\ r.cur \in AttemptIds /\ attempt[r.cur].work \in Work
                                   /\ attempt[r.cur].work = CurWork(p)
<1>1. r.pc # "release" /\ r.pc \in Resting
  BY DEF Reconciling, Settling, Resting
<1>2. r.batch = {}
  BY <1>1, RestingEmpty
<1>3. UnknownDuty(p, r) /\ TrialDuty(r)
  BY OwnDuty DEF AgreeDuty
<1>4. ASSUME r.pc \in Settling
      PROVE  r.cur \in AttemptIds /\ attempt[r.cur].work \in Work /\ attempt[r.cur].work = CurWork(p)
  <2>1. r.pc \in Holding
    BY <1>4 DEF Holding
  <2> QED BY <2>1, AtHand
<1> QED BY <1>1, <1>2, <1>3, <1>4 DEF Ours

(* It keeps the invariant when it leaves the rows and the leases alone.    *)
LEMMA RestLeavesAgree ==
    ASSUME SoleInv, AgreeInv, NEW p \in Procs, NEW r, Ours(p, r), r.pc \in Reconciling, Leaves,
           NEW n, proc' = [proc EXCEPT ![p] = n], n.pc \in Reconciling \ {"settle_work"},
           UnknownDuty(p, n), n.pc \in Settling => n.cur \in AttemptIds
    PROVE  AgreeInv'
<1>1. r.pc # "release" /\ r.batch = {}
  BY RestKnows
<1>2. n.pc \in Settling => attempt'[n.cur].work = attempt[n.cur].work
  BY AttemptStays DEF Leaves
<1>3. \A w : HasActiveLease(w, lease)' <=> HasActiveLease(w, lease)
  BY DEF Leaves, HasActiveLease, Active
<1>4. \A x \in {"settle_attempt", "settle_trial", "settle_work", "settle_retry", "settle_requeue"} :
         x \in Settling
  BY DEF Settling
<1>5. UnknownDuty(p, n)'
  <2>1. n.pc \in Reconciling =>
          \A w \in WorkOfRun(RunServed[p]) : workState'[w] = "unknown" => ~HasActiveLease(w, lease)'
    BY <1>3 DEF UnknownDuty, Leaves
  <2>2. n.pc \in {"reconcile"} \cup Settling =>
          \A w \in n.todo : w \in WorkOfRun(RunServed[p]) /\ workState'[w] = "unknown"
    BY DEF UnknownDuty, Leaves
  <2>3. n.pc \in Settling =>
          attempt'[n.cur].work \notin n.todo /\ ~HasActiveLease(attempt[n.cur].work, lease)'
    <3>1. ASSUME n.pc \in Settling
          PROVE  attempt'[n.cur].work \notin n.todo /\ ~HasActiveLease(attempt[n.cur].work, lease)'
      <4>1. PICK w : w = attempt[n.cur].work
        OBVIOUS
      <4>2. w \notin n.todo /\ ~HasActiveLease(w, lease)
        BY <3>1, <4>1 DEF UnknownDuty
      <4>3. ~HasActiveLease(w, lease)'
        BY <1>3, <4>2
      <4>4. attempt'[n.cur].work = w
        BY <1>2, <3>1, <4>1
      <4> QED BY <4>2, <4>3, <4>4 DEF HasActiveLease, Active
    <3> QED BY <3>1
  <2>4. /\ n.pc \in {"settle_attempt", "settle_trial", "settle_work"} => WorkStateOf(n.cur)' = "unknown"
        /\ n.pc \in {"settle_retry", "settle_requeue"} => WorkStateOf(n.cur)' = "failed"
    BY <1>2, <1>4 DEF UnknownDuty, Leaves, WorkStateOf
  <2> QED BY <2>1, <2>2, <2>3, <2>4 DEF UnknownDuty
<1>6. TrialDuty(n)'
  BY DEF TrialDuty, Reconciling, Settling
<1>7. AgreeDuty(p, n)'
  BY <1>5, <1>6, RestAgrees
<1> QED BY <1>1, <1>7, LeavesAgree

(* Listing the unknown work, and asking for one item.                      *)
LEMMA ListAgrees ==
    ASSUME SoleInv, AgreeInv, NEW p \in Procs, NEW r, Ours(p, r), UnknownList(p) \/ ReconcileItem(p)
    PROVE  AgreeInv'
<1>1. r.pc \in {"unknown_list", "reconcile"} /\ r.pc \in Reconciling
  BY DEF UnknownList, ReconcileItem, At, Ours, Reconciling
<1>2. r = proc[p] /\ r \in ProcRecords /\ UnknownDuty(p, r)
  BY <1>1, RestKnows
<1>3. Steady
  BY ReconcileMoves, QuietSteady DEF SoleInv
<1>4. CASE UnknownList(p)
  <2>1. PICK T : T = {w \in WorkOfRun(RunServed[p]) : workState[w] = "unknown"}
    OBVIOUS
  <2>2. PICK n : n = [r EXCEPT !.pc = "reconcile", !.todo = T]
    OBVIOUS
  <2>3. n.pc = "reconcile" /\ n.todo = T
    BY <1>2, <2>2 DEF ProcRecords
  <2>4. proc' = [proc EXCEPT ![p] = n]
    BY <1>2, <1>4, <2>1, <2>2 DEF UnknownList
  <2>5. Leaves
    BY <1>3, <1>4 DEF UnknownList, Leaves, NoStoreCall, storeVars
  <2>6. n.pc \in Reconciling /\ n.pc \notin Settling
    BY <2>3 DEF Reconciling, Settling
  <2>7. UnknownDuty(p, n)
    BY <1>1, <1>2, <2>1, <2>3, <2>6 DEF UnknownDuty
  <2> QED BY <1>1, <2>3, <2>4, <2>5, <2>6, <2>7, RestLeavesAgree
<1>5. CASE ReconcileItem(p)
  <2>0. r.pc = "reconcile"
    BY <1>2, <1>5 DEF ReconcileItem, At
  <2>1. PICK w \in r.todo :
          \/ proc' = [proc EXCEPT ![p].todo = @ \ {w}] /\ NoStoreCall
          \/ \E a \in AttemptIds :
                /\ IsLatestAttempt(a, w)
                /\ \E res \in Reconciled(a) :
                      /\ WriteOutcome(a, res.state, None, None,
                                      IF res.state = "succeeded" THEN "completed" ELSE "failed")
                      /\ proc' = [proc EXCEPT ![p].todo = @ \ {w}, ![p].cur = a, ![p].res = res,
                                              ![p].pc = "settle_attempt"]
    BY <1>2, <1>5 DEF ReconcileItem
  <2>2. CASE proc' = [proc EXCEPT ![p].todo = @ \ {w}] /\ NoStoreCall
    <3>1. PICK n : n = [r EXCEPT !.todo = r.todo \ {w}]
      OBVIOUS
    <3>2. n.pc = "reconcile" /\ n.todo = r.todo \ {w}
      BY <1>2, <2>0, <3>1 DEF ProcRecords
    <3>3. proc' = [proc EXCEPT ![p] = n]
      BY <1>2, <2>2, <3>1
    <3>4. Leaves
      BY <1>3, <2>2 DEF Leaves, NoStoreCall, storeVars
    <3>5. n.pc \in Reconciling /\ n.pc \notin Settling
      BY <3>2 DEF Reconciling, Settling
    <3>6. UnknownDuty(p, n)
      BY <1>2, <2>0, <3>2, <3>5 DEF UnknownDuty, Reconciling
    <3> QED BY <1>1, <3>2, <3>3, <3>4, <3>5, <3>6, RestLeavesAgree
  <2>3. ASSUME NEW a \in AttemptIds, IsLatestAttempt(a, w), NEW res, NEW sub,
               WriteOutcome(a, res.state, None, None, sub),
               proc' = [proc EXCEPT ![p].todo = @ \ {w}, ![p].cur = a, ![p].res = res,
                                    ![p].pc = "settle_attempt"]
        PROVE  AgreeInv'
    <3>1. PICK n : n = [r EXCEPT !.todo = r.todo \ {w}, !.cur = a, !.res = res, !.pc = "settle_attempt"]
      OBVIOUS
    <3>2. n.pc = "settle_attempt" /\ n.todo = r.todo \ {w} /\ n.cur = a
      BY <1>2, <3>1 DEF ProcRecords
    <3>3. proc' = [proc EXCEPT ![p] = n]
      BY <1>2, <2>3, <3>1
    <3>4. Leaves
      BY <1>3, <2>3 DEF Leaves, WriteOutcome
    <3>5. n.pc \in Reconciling /\ n.pc \in Settling
      BY <3>2 DEF Reconciling, Settling
    <3>6. attempt[a].work = w
      BY <2>3 DEF IsLatestAttempt, AttemptsOf
    <3>7. w \in WorkOfRun(RunServed[p]) /\ workState[w] = "unknown" /\ ~HasActiveLease(w, lease)
      BY <1>1, <1>2, <2>0 DEF UnknownDuty
    <3>8. UnknownDuty(p, n)
      BY <1>1, <1>2, <2>0, <3>2, <3>6, <3>7 DEF UnknownDuty, WorkStateOf
    <3> QED BY <1>1, <3>2, <3>3, <3>4, <3>5, <3>8, RestLeavesAgree
  <2> QED BY <2>1, <2>2, <2>3
<1> QED BY <1>4, <1>5

(* Steps of a settlement that leave the work and the trial alone.          *)
LEMMA SettleStepsAgree ==
    ASSUME SoleInv, AgreeInv, NEW p \in Procs, NEW r, Ours(p, r),
           SettleAttempt(p) \/ SettleRetry(p) \/ SettlePlan(p)
    PROVE  AgreeInv'
<1>1. r.pc \in {"settle_attempt", "settle_retry", "settle_plan"} /\ r.pc \in Reconciling /\ r.pc \in Settling
  BY DEF SettleAttempt, SettleRetry, SettlePlan, At, Ours, Reconciling, Settling
<1>2. r = proc[p] /\ r \in ProcRecords /\ UnknownDuty(p, r) /\ r.cur \in AttemptIds
  BY <1>1, RestKnows
<1>3. Steady
  BY SettleMoves, PutDownMoves, QuietSteady DEF SoleInv
<1>4. Leaves
  BY <1>3 DEF Leaves, SettleAttempt, SettleRetry, SettlePlan, TransitionAttempt,
     CompletePlanIfTerminal, NoStoreCall, storeVars
<1>5. CASE SettleAttempt(p) \/ SettleRetry(p)
  <2>1. PICK x \in {"settle_trial", "settle_requeue", "settle_plan"} :
           /\ Goto(p, x)
           /\ x = "settle_trial" => r.pc = "settle_attempt"
           /\ x = "settle_requeue" => r.pc = "settle_retry"
    BY <1>2, <1>5 DEF SettleAttempt, SettleRetry, At
  <2>2. PICK n : Relabelled(p, r, n, x)
    BY <2>1, GotoRelabels
  <2>3. n.pc \in Reconciling /\ n.pc \in Settling /\ n.pc # "settle_work"
    BY <2>2 DEF Relabelled, Reconciling, Settling
  <2>4. UnknownDuty(p, n)
    BY <1>1, <1>2, <2>1, <2>2 DEF UnknownDuty, Relabelled
  <2> QED BY <1>1, <1>2, <1>4, <2>2, <2>3, <2>4, RestLeavesAgree DEF Relabelled
<1>6. CASE SettlePlan(p)
  <2>1. PICK n : n = [r EXCEPT !.pc = "reconcile", !.cur = None, !.res = NoResult]
    OBVIOUS
  <2>2. n.pc = "reconcile" /\ n.todo = r.todo
    BY <1>2, <2>1 DEF ProcRecords
  <2>3. proc' = [proc EXCEPT ![p] = n]
    BY <1>2, <1>6, <2>1 DEF SettlePlan
  <2>4. n.pc \in Reconciling /\ n.pc \notin Settling
    BY <2>2 DEF Reconciling, Settling
  <2>5. UnknownDuty(p, n)
    BY <1>1, <1>2, <2>2, <2>4 DEF UnknownDuty
  <2> QED BY <1>1, <1>4, <2>2, <2>3, <2>4, <2>5, RestLeavesAgree
<1> QED BY <1>5, <1>6

(* A settlement that writes the rows of its work item w, which no active   *)
(* lease holds.                                                            *)
LEMMA SettlingAgrees ==
    ASSUME SoleInv, AgreeInv, NEW p \in Procs, NEW r, Ours(p, r), r.pc \in Settling,
           NEW w \in Work, w = attempt[r.cur].work, WritesOnly(w), Agrees(w)',
           NEW n, proc' = [proc EXCEPT ![p] = n], n.pc \in {"reconcile"} \cup Settling,
           n.pc \in Settling => n.cur = r.cur, n.todo = r.todo,
           n.pc \in {"settle_attempt", "settle_trial", "settle_work"} => workState'[w] = "unknown",
           n.pc \in {"settle_retry", "settle_requeue"} => workState'[w] = "failed",
           n.pc = "settle_work" => trialState'[w] = n.res.state
    PROVE  AgreeInv'
<1>1. r.pc \in Reconciling /\ n.pc \in Reconciling
  BY DEF Reconciling
<1>2. r.pc # "release" /\ r.batch = {} /\ UnknownDuty(p, r) /\ r.cur \in AttemptIds
  BY <1>1, RestKnows
<1>3. ~HasActiveLease(w, lease) /\ w \notin r.todo
  BY <1>2 DEF UnknownDuty
<1>4. \A v : HasActiveLease(v, lease)' <=> HasActiveLease(v, lease)
  BY DEF WritesOnly, HasActiveLease, Active
<1>5. n.pc \in Settling => attempt'[n.cur].work = w
  BY <1>2, AttemptStays DEF WritesOnly
<1>6. \A v \in WorkOfRun(RunServed[p]) : v \in Work
  BY DEF WorkOfRun
<1>7. \A x \in {"settle_attempt", "settle_trial", "settle_work", "settle_retry", "settle_requeue"} :
         x \in Settling
  BY DEF Settling
<1>8. UnknownDuty(p, n)'
  <2>1. ASSUME NEW v \in WorkOfRun(RunServed[p]), workState'[v] = "unknown"
        PROVE  ~HasActiveLease(v, lease)'
    <3>1. CASE v = w
      BY <1>3, <1>4, <3>1
    <3>2. CASE v # w
      <4>1. workState[v] = "unknown"
        BY <1>6, <2>1, <3>2 DEF WritesOnly
      <4>2. ~HasActiveLease(v, lease)
        BY <1>1, <1>2, <4>1 DEF UnknownDuty
      <4> QED BY <1>4, <4>2
    <3> QED BY <3>1, <3>2
  <2>2. \A v \in n.todo : v \in WorkOfRun(RunServed[p]) /\ workState'[v] = "unknown"
    <3>1. \A v \in r.todo : v \in WorkOfRun(RunServed[p]) /\ workState[v] = "unknown" /\ v # w
      BY <1>2, <1>3 DEF UnknownDuty
    <3> QED BY <1>6, <3>1 DEF WritesOnly
  <2>3. n.pc \in Settling =>
          attempt'[n.cur].work \notin n.todo /\ ~HasActiveLease(attempt[n.cur].work, lease)'
    <3>1. ~HasActiveLease(w, lease)'
      BY <1>3, <1>4
    <3> QED BY <1>3, <1>5, <3>1 DEF HasActiveLease, Active
  <2>4. /\ n.pc \in {"settle_attempt", "settle_trial", "settle_work"} => WorkStateOf(n.cur)' = "unknown"
        /\ n.pc \in {"settle_retry", "settle_requeue"} => WorkStateOf(n.cur)' = "failed"
    BY <1>5, <1>7 DEF WorkStateOf
  <2> QED BY <2>1, <2>2, <2>3, <2>4 DEF UnknownDuty
<1>9. TrialDuty(n)'
  <2>1. n.pc # "write_work"
    BY DEF Settling
  <2> QED BY <1>5, <1>7, <2>1 DEF TrialDuty
<1>10. AgreeDuty(p, n)'
  BY <1>1, <1>8, <1>9, RestAgrees
<1>11. \A l \in Active(lease) : lease[l].work # w
  BY <1>3 DEF HasActiveLease
<1> QED BY <1>2, <1>10, <1>11, WritesAgree

-----------------------------------------------------------------------------
(* What the provider said goes into the trial's row, then into the work's. *)
LEMMA SettleRowsAgree ==
    ASSUME SoleInv, AgreeInv, NEW p \in Procs, NEW r, Ours(p, r), SettleTrial(p) \/ SettleWork(p)
    PROVE  AgreeInv'
<1>1. /\ r.pc \in {"settle_trial", "settle_work"} /\ r.pc \in Reconciling /\ r.pc \in Settling
      /\ r.pc \in Writing /\ r.pc \in Reporting
  BY DEF SettleTrial, SettleWork, At, Ours, Reconciling, Settling, Writing, Reporting
<1>2. r = proc[p] /\ r \in ProcRecords /\ UnknownDuty(p, r) /\ TrialDuty(r) /\ r.cur \in AttemptIds
  BY <1>1, RestKnows
<1>3. PICK w \in Work : w = attempt[r.cur].work /\ w = CurWork(p)
  BY <1>1, RestKnows
<1>4. Steady
  BY SettleMoves, QuietSteady DEF SoleInv
<1>5. r.res.state \in Outcomes /\ (r.res.retry => r.res.state = "failed")
  BY <1>1 DEF Ours, Good, Fits, Duty, ResultDuty
<1>6. workState[w] = "unknown" /\ Agrees(w)
  BY <1>1, <1>2, <1>3 DEF UnknownDuty, WorkStateOf, AgreeInv
<1>7. /\ workState \in [Work -> WorkStates \cup {"absent"}]
      /\ trialState \in [Work -> TrialStates \cup {"absent"}]
  BY DEF SoleInv, SchedulerInv, SchedulerTypeOK, StoreTypeOK
<1>8. CASE SettleTrial(p)
  <2>1. PICK n : Relabelled(p, r, n, "settle_work")
    BY <1>8, GotoRelabels DEF SettleTrial
  <2>2. /\ trialState' = [trialState EXCEPT ![w] = r.res.state]
        /\ UNCHANGED <<clock, lease, workState>>
    BY <1>2, <1>3, <1>8 DEF SettleTrial, UpdatePlannedTrial
  <2>3. WritesOnly(w) /\ Agrees(w)' /\ workState'[w] = "unknown" /\ trialState'[w] = r.res.state
    BY <1>4, <1>5, <1>6, <1>7, <2>2 DEF WritesOnly, Agrees, Terminal, Outcomes
  <2>4. n.pc \in Settling /\ n.pc = "settle_work" /\ n.cur = r.cur /\ n.todo = r.todo /\ n.res = r.res
        /\ proc' = [proc EXCEPT ![p] = n]
    BY <2>1 DEF Relabelled, Settling
  <2> QED BY <1>1, <1>3, <2>3, <2>4, SettlingAgrees
<1>9. CASE SettleWork(p)
  <2>1. r.pc = "settle_work"
    BY <1>2, <1>9 DEF SettleWork, At
  <2>2. PICK x \in {"settle_retry", "settle_plan"} : Goto(p, x) /\ (x = "settle_retry" => r.res.retry)
    BY <1>2, <1>9 DEF SettleWork
  <2>3. PICK n : Relabelled(p, r, n, x)
    BY <2>2, GotoRelabels
  <2>4. /\ workState' = [workState EXCEPT ![w] = r.res.state]
        /\ UNCHANGED <<clock, lease, trialState>>
    BY <1>2, <1>3, <1>9 DEF SettleWork, UpdateWorkItem
  <2>5. trialState[w] = r.res.state
    BY <1>2, <1>3, <2>1 DEF TrialDuty
  <2>6. WritesOnly(w) /\ Agrees(w)' /\ workState'[w] = r.res.state
    BY <1>4, <1>5, <1>6, <1>7, <2>4, <2>5 DEF WritesOnly, Agrees, Terminal, Outcomes
  <2>7. n.pc \in Settling /\ n.pc = x /\ n.cur = r.cur /\ n.todo = r.todo
        /\ proc' = [proc EXCEPT ![p] = n]
    BY <2>3 DEF Relabelled, Settling
  <2>8. n.pc \in {"settle_retry", "settle_requeue"} => workState'[w] = "failed"
    BY <1>5, <2>2, <2>6, <2>7
  <2> QED BY <1>1, <1>3, <2>6, <2>7, <2>8, SettlingAgrees
<1> QED BY <1>8, <1>9

(* A settlement that queues a retry: work and trial had failed.            *)
LEMMA SettleRequeueAgrees ==
    ASSUME SoleInv, AgreeInv, NEW p \in Procs, NEW r, Ours(p, r), SettleRequeue(p) PROVE AgreeInv'
<1>1. r.pc = "settle_requeue" /\ r.pc \in Reconciling /\ r.pc \in Settling
  BY DEF SettleRequeue, At, Ours, Reconciling, Settling
<1>2. /\ r = proc[p] /\ r \in ProcRecords /\ UnknownDuty(p, r) /\ r.cur \in AttemptIds
      /\ r.pc # "release" /\ r.batch = {}
  BY <1>1, RestKnows
<1>3. PICK w \in Work : w = attempt[r.cur].work /\ w = CurWork(p)
  BY <1>1, RestKnows
<1>4. Steady
  BY PutDownMoves, QuietSteady DEF SoleInv
<1>5. workState[w] = "failed" /\ trialState[w] = "failed"
  <2>1. workState[w] = "failed" /\ Agrees(w)
    BY <1>1, <1>2, <1>3 DEF UnknownDuty, WorkStateOf, AgreeInv
  <2> QED BY <2>1 DEF Agrees, Terminal
<1>6. CASE Quit(p) /\ NoStoreCall
  <2>1. Leaves
    BY <1>4, <1>6 DEF Leaves, NoStoreCall, storeVars
  <2> QED BY <1>2, <1>6, <2>1, QuitAgrees
<1>7. CASE /\ ScheduleRetry(CurWork(p), proc[p].now + Backoff)
           /\ proc' = [proc EXCEPT ![p].pc = "reconcile", ![p].cur = None, ![p].res = NoResult]
  <2>1. PICK n : n = [r EXCEPT !.pc = "reconcile", !.cur = None, !.res = NoResult]
    OBVIOUS
  <2>2. n.pc = "reconcile" /\ n.todo = r.todo
    BY <1>2, <2>1 DEF ProcRecords
  <2>3. proc' = [proc EXCEPT ![p] = n]
    BY <1>2, <1>7, <2>1
  <2>4. /\ workState' = [workState EXCEPT ![w] = "queued"]
        /\ trialState' = [trialState EXCEPT ![w] = "queued"] /\ UNCHANGED <<clock, lease>>
    BY <1>3, <1>5, <1>7 DEF ScheduleRetry
  <2>5. WritesOnly(w) /\ Agrees(w)'
    <3>1. /\ workState \in [Work -> WorkStates \cup {"absent"}]
          /\ trialState \in [Work -> TrialStates \cup {"absent"}]
      BY DEF SoleInv, SchedulerInv, SchedulerTypeOK, StoreTypeOK
    <3> QED BY <1>4, <2>4, <3>1 DEF WritesOnly, Agrees, Terminal
  <2>6. n.pc \in {"reconcile"} \cup Settling /\ n.pc \notin Settling
    BY <2>2 DEF Settling
  <2> QED BY <1>1, <1>3, <2>2, <2>3, <2>5, <2>6, SettlingAgrees
<1> QED BY <1>6, <1>7 DEF SettleRequeue

(* The end of a reconciliation.                                            *)
LEMMA ReconcileEndAgrees ==
    ASSUME SoleInv, AgreeInv, NEW p \in Procs, NEW r, Ours(p, r), ReconcileEnd(p) PROVE AgreeInv'
<1>1. r.pc = "reconcile" /\ r.pc \in Reconciling
  BY DEF ReconcileEnd, At, Ours, Reconciling
<1>2. r = proc[p] /\ r \in ProcRecords /\ r.pc # "release" /\ r.batch = {}
  BY <1>1, RestKnows
<1>3. Steady
  BY ReconcileMoves, QuietSteady DEF SoleInv
<1>4. Leaves
  BY <1>3 DEF ReconcileEnd, Leaves, NoStoreCall, storeVars
<1>5. CASE Quit(p)
  BY <1>2, <1>4, <1>5, QuitAgrees
<1>6. CASE proc' = [proc EXCEPT ![p] = BeginDispatch(p, @)]
  <2>1. PICK n : n = BeginDispatch(p, r)
    OBVIOUS
  <2>2. n.pc = "lease" /\ n.lost = {} /\ n.batch = {}
    BY <1>2, <2>1 DEF BeginDispatch, ProcRecords
  <2>3. proc' = [proc EXCEPT ![p] = n]
    BY <1>2, <1>6, <2>1
  <2>4. n.pc \in Preparing
    BY <2>2 DEF Preparing
  <2>5. AgreeDuty(p, n)'
    BY <2>2, <2>4, PrepAgrees
  <2> QED BY <1>2, <1>4, <2>2, <2>3, <2>5, LeavesAgree
<1> QED BY <1>5, <1>6 DEF ReconcileEnd

(* Every step of the dispatching process but a crash.                      *)
LEMMA ProcAgrees ==
    ASSUME SoleDispatcher, SoleInv, AgreeInv, NEW p \in Procs, ProcStep(p), ~Cancel(p), ~Crash(p)
    PROVE  AgreeInv'
<1>1. PICK r : Ours(p, r)
  BY OursExists
<1>2. ~ReleaseQuietly(p) /\ ~ReleaseRefused(p) /\ ~UnknownTrial(p) /\ ~UnknownWork(p) /\ ~CancelActive(p)
  BY <1>1, NeverTaken
<1>3. ~LeaseRefused(p) /\ ~CreateRefused(p)
  BY <1>1, NeverRefused
<1>4. CASE Dispatch(p)
  <2>1. CASE LeaseOne(p) \/ LeaseNone(p) \/ CreateNext(p) \/ WorkRunning(p) \/ TrialRunning(p)
    BY <1>1, <2>1, LeaseOneAgrees, LeaseNoneAgrees, CreateAgrees, RunningAgrees
  <2>2. CASE ListRuns(p) \/ MarkRun(p) \/ MarkPlan(p) \/ AttemptRunning(p)
    BY <1>1, <2>2, PrepStepsAgree
  <2>3. CASE \/ Wake(p) \/ (\E a \in AttemptIds : HandleDone(p, a)) \/ WriteAttempt(p)
             \/ RetryCheck(p) \/ RequeueRefused(p) \/ CompletePlan(p) \/ HandleEnd(p) \/ RenewEnd(p)
    BY <1>1, <2>3, WaitStepsAgree
  <2>4. CASE WriteTrial(p) \/ WriteWork(p) \/ Requeue(p) \/ Abort(p) \/ Release(p) \/ Renew(p)
    BY <1>1, <2>4, WriteTrialAgrees, WriteWorkAgrees, RequeueAgrees, EndsAgree, ReleaseAgrees, RenewAgrees
  <2> QED BY <1>2, <1>3, <1>4, <2>1, <2>2, <2>3, <2>4 DEF Dispatch
<1>5. CASE Reconcile(p)
  BY <1>1, <1>5, ListAgrees, SettleStepsAgree, SettleRowsAgree, SettleRequeueAgrees, ReconcileEndAgrees
     DEF Reconcile
<1>6. CASE StartRun(p) \/ ResumeRun(p)
  BY <1>1, <1>6, EndsAgree, ResumeAgrees
<1> QED BY <1>2, <1>4, <1>5, <1>6 DEF ProcStep, Command

-----------------------------------------------------------------------------
(* A step outside the dispatching process: the clock may go on, and work   *)
(* and trials may be cancelled, both of a work item that is queued.        *)
TrialDrifts(w) ==
    \/ trialState'[w] = trialState[w]
    \/ trialState[w] \in {"planned", "queued"} /\ trialState'[w] = "cancelled"

Outside ==
    /\ clock' \in Nat /\ clock <= clock' /\ UNCHANGED <<proc, lease>> /\ Steady
    /\ \A w \in Work : /\ Drifts(w) /\ TrialDrifts(w)
                       /\ workState[w] = "queued" /\ workState'[w] = "cancelled" =>
                             (trialState[w] \in {"planned", "queued"} => trialState'[w] = "cancelled")
                       /\ workState'[w] = "queued" => trialState'[w] = trialState[w]

(* Such a step keeps the invariant.                                        *)
LEMMA OutsideAgrees == ASSUME SoleInv, AgreeInv, Outside PROVE AgreeInv'
<1>1. \A w \in Work : Agrees(w)'
  BY DEF AgreeInv, Agrees, Outside, Drifts, TrialDrifts, Terminal
<1>2. clock \in Nat /\ clock' \in Nat
  <2>1. clock \in Nat
    BY StoreConstants DEF SoleInv, SchedulerInv, SchedulerTypeOK, StoreTypeOK
  <2> QED BY <2>1 DEF Outside
<1>3. /\ proc' = proc /\ lease' = lease
      /\ \A a \in AttemptIds : /\ attempt'[a].work = attempt[a].work
                               /\ attempt'[a].lease = attempt[a].lease
  BY DEF Outside, Steady, AttemptKept, SameIdentity
<1>4. ASSUME NEW q \in Procs, proc[q].pc \in Holding
      PROVE  proc[q].cur \in AttemptIds /\ attempt[proc[q].cur].work \in Work
  BY <1>4, InHand DEF SoleInv, Cur, CurWork
<1>5. \A l \in Active(lease') : Lasts(l)'
  <2> SUFFICES ASSUME NEW l \in Active(lease) PROVE Lasts(l)'
    BY <1>3
  <2>1. Lasts(l) /\ lease[l].work \in Work /\ lease[l].expires \in Nat
    <3>1. l \in LeaseIds /\ lease[l].state = "active"
      BY DEF Active
    <3>2. lease[l].work \in Work
      BY <3>1 DEF SoleInv, SchedulerInv, RowInv
    <3>3. lease[l].expires \in Nat
      BY <3>1 DEF SoleInv, SchedulerInv, SchedulerTypeOK, StoreTypeOK, LeaseRows
    <3> QED BY <3>2, <3>3 DEF AgreeInv
  <2>2. LeaseAttempts(l)' = LeaseAttempts(l)
    BY <1>3 DEF LeaseAttempts
  <2>3. Releasing(l) => Releasing(l)'
    <3> SUFFICES ASSUME NEW q \in Procs, proc[q].pc = "release", attempt[proc[q].cur].lease = l
                 PROVE  Releasing(l)'
      BY DEF Releasing
    <3>1. proc[q].cur \in AttemptIds
      BY <1>4 DEF Holding
    <3> QED BY <1>3, <3>1 DEF Releasing
  <2>4. lease[l].expires <= clock => lease[l].expires <= clock'
    BY <1>2, <2>1 DEF Outside
  <2>5. Drifts(lease[l].work)
    BY <2>1 DEF Outside
  <2>6. /\ workState'[lease[l].work] = "queued" => workState[lease[l].work] = "queued"
        /\ workState'[lease[l].work] = "unknown" => workState[lease[l].work] = "unknown"
    BY <2>5 DEF Drifts
  <2> QED BY <1>3, <2>1, <2>2, <2>3, <2>4, <2>6 DEF Lasts
<1>6. ASSUME NEW q \in Procs PROVE AgreeDuty(q, proc[q])'
  <2>1. PICK r : r = proc[q]
    OBVIOUS
  <2>2. r = proc'[q] /\ r \in ProcRecords /\ AgreeDuty(q, r) /\ Good(r)
    BY <1>3, <2>1 DEF AgreeInv, SoleInv, SchedulerInv, SchedulerTypeOK, ProcInv
  <2>3. r.pc \in Holding => r.cur \in AttemptIds /\ attempt[r.cur].work \in Work
    BY <1>4, <2>1
  <2>4. LostDuty(r)'
    <3>1. r.lost \subseteq LeaseIds /\ r.beat \in Nat
      BY <2>2 DEF ProcRecords, LeaseSets
    <3>2. \A l \in LeaseIds : lease[l].expires \in Nat
      BY DEF SoleInv, SchedulerInv, SchedulerTypeOK, StoreTypeOK, LeaseRows
    <3>3. clock <= clock'
      BY DEF Outside
    <3>4. \A l \in r.lost : lease[l].expires <= clock => lease[l].expires <= clock'
      BY <1>2, <3>1, <3>2, <3>3
    <3>5. r.beat <= clock => r.beat <= clock'
      BY <1>2, <3>1, <3>3
    <3> QED BY <1>3, <2>2, <3>4, <3>5 DEF AgreeDuty, LostDuty
  <2>5. TrialDuty(r)'
    <3> SUFFICES ASSUME r.pc \in {"write_work", "settle_work"}
                 PROVE  trialState'[attempt'[r.cur].work] = r.res.state
      BY DEF TrialDuty
    <3>1. r.pc \in Holding /\ r.pc \in Writing
      BY DEF Holding, Writing, Settling
    <3>2. r.res.state \in Outcomes /\ trialState[attempt[r.cur].work] = r.res.state
      BY <2>2, <3>1 DEF Good, Fits, AgreeDuty, TrialDuty
    <3>3. TrialDrifts(attempt[r.cur].work)
      BY <2>3, <3>1 DEF Outside
    <3> QED BY <1>3, <2>3, <3>1, <3>2, <3>3 DEF TrialDrifts, Outcomes
  <2>6. UnknownDuty(q, r)'
    <3>1. UnknownDuty(q, r)
      BY <2>2 DEF AgreeDuty
    <3>2. \A w \in Work : /\ workState'[w] = "unknown" <=> workState[w] = "unknown"
                          /\ workState[w] = "failed" => workState'[w] = "failed"
      BY DEF Outside, Drifts
    <3>3. /\ \A w : HasActiveLease(w, lease') <=> HasActiveLease(w, lease)
          /\ WorkOfRun(RunServed[q]) \subseteq Work
      BY <1>3 DEF WorkOfRun
    <3>4. /\ r.pc \in Settling => r.pc \in Holding
          /\ r.pc \in {"settle_attempt", "settle_trial", "settle_work", "settle_retry", "settle_requeue"}
                => r.pc \in Settling
      BY DEF Holding, Settling
    <3>5. r.pc \in Settling => /\ attempt'[r.cur].work = attempt[r.cur].work
                              /\ WorkStateOf(r.cur)' = workState'[attempt[r.cur].work]
                              /\ attempt[r.cur].work \in Work
      BY <1>3, <2>3, <3>4 DEF WorkStateOf
    <3> QED BY <3>1, <3>2, <3>3, <3>4, <3>5 DEF UnknownDuty, WorkStateOf
  <2>7. AgreeDuty(q, r)'
    BY <2>4, <2>5, <2>6 DEF AgreeDuty
  <2> QED BY <2>2, <2>7, AgreeOf
<1> QED BY <1>1, <1>5, <1>6 DEF AgreeInv

-----------------------------------------------------------------------------
(* A cancellation takes a trial that has not started along with its work.  *)
LEMMA CancelOutside ==
    ASSUME SoleInv, NEW r, NEW W, NEW whole \in BOOLEAN, RequestCancellation(r, W, whole), UNCHANGED proc
    PROVE  Outside
<1>1. StoreTypeOK /\ QuietCall
  BY DEF SoleInv, SchedulerInv, SchedulerTypeOK, QuietCall
<1>2. Steady
  BY <1>1, QuietAttempts
<1>3. clock \in Nat /\ clock' = clock /\ lease' = lease
  BY <1>1, StoreConstants DEF StoreTypeOK, RequestCancellation
<1>4. ASSUME NEW w \in Work
      PROVE  /\ Drifts(w) /\ TrialDrifts(w)
             /\ workState[w] = "queued" /\ workState'[w] = "cancelled" =>
                   (trialState[w] \in {"planned", "queued"} => trialState'[w] = "cancelled")
             /\ workState'[w] = "queued" => trialState'[w] = trialState[w]
  <2>1. /\ trialState'[w] = IF w \in W /\ trialState[w] \in {"planned", "queued"}
                            THEN "cancelled" ELSE trialState[w]
        /\ workState'[w] = IF w \in W /\ workState[w] = "queued" THEN "cancelled"
                           ELSE IF w \in W /\ workState[w] \in {"leased", "running"}
                           THEN "cancel_requested" ELSE workState[w]
    BY DEF RequestCancellation
  <2> QED BY <2>1 DEF Drifts, TrialDrifts
<1> QED BY <1>2, <1>3, <1>4 DEF Outside

(* The workers and the jobs write neither trials nor work.                 *)
LEMMA WorkersOutside ==
    ASSUME SoleInv, NEW a \in AttemptIds, WorkerStep(a) \/ JobFinishes(a)
    PROVE  Outside /\ UNCHANGED <<trialState, workState, planState, runStatus, cancelRequested>>
<1>1. StoreTypeOK /\ QuietCall /\ UNCHANGED proc
  BY WorkerKeeps DEF SoleInv, SchedulerInv, SchedulerTypeOK
<1>2. Steady
  BY <1>1, QuietAttempts
<1>3. UNCHANGED <<lease, workState>>
  BY WorkerWrites
<1>4. UNCHANGED <<clock, trialState, planState, runStatus, cancelRequested>>
  BY DEF WorkerStep, WorkerRejects, WorkerRecords, WorkerSubmits, WorkerBinds, WorkerCollects,
     WorkerGivesUp, WorkerUncertain, WorkerBreaks, JobFinishes, NoStoreCall, storeVars, WriteOutcome,
     RecordBackendSubmission
<1>5. clock \in Nat
  BY <1>1, StoreConstants DEF StoreTypeOK
<1> QED BY <1>1, <1>2, <1>3, <1>4, <1>5 DEF Outside, Drifts, TrialDrifts

(* The steps that are not of the dispatching process are outside.          *)
LEMMA OthersOutside ==
    ASSUME SoleDispatcher, SoleInv,
           (Tick /\ UNCHANGED procVars) \/ UNCHANGED vars \/ \E p \in Procs : Cancel(p)
    PROVE  Outside
<1>1. StoreTypeOK /\ clock \in Nat
  BY StoreConstants DEF SoleInv, SchedulerInv, SchedulerTypeOK, StoreTypeOK
<1>2. CASE Tick /\ UNCHANGED procVars
  <2>1. QuietCall /\ clock' = clock + 1 /\ UNCHANGED <<proc, lease, trialState, workState>>
    BY <1>2 DEF Tick, procVars, QuietCall
  <2>2. Steady
    BY <1>1, <2>1, QuietAttempts
  <2> QED BY <1>1, <2>1, <2>2 DEF Outside, Drifts, TrialDrifts
<1>3. CASE UNCHANGED vars
  <2>1. QuietCall /\ UNCHANGED <<clock, proc, lease, trialState, workState>>
    BY <1>3 DEF vars, storeVars, procVars, QuietCall
  <2>2. Steady
    BY <1>1, <2>1, QuietAttempts
  <2> QED BY <1>1, <2>1, <2>2 DEF Outside, Drifts, TrialDrifts
<1>4. ASSUME NEW p \in Procs, Cancel(p) PROVE Outside
  <2>1. "cancel_active" \notin Commands[p]
    BY DEF SoleDispatcher
  <2>2. CASE RequestCancellation(RunServed[p], WorkOfRun(RunServed[p]), TRUE) /\ UNCHANGED proc
    BY <2>2, CancelOutside
  <2>3. CASE (\E w \in WorkOfRun(RunServed[p]) : RequestCancellation(RunServed[p], {w}, FALSE))
             /\ UNCHANGED proc
    BY <2>3, CancelOutside
  <2> QED BY <1>4, <2>1, <2>2, <2>3 DEF Cancel
<1> QED BY <1>2, <1>3, <1>4

(* Every step but a crash keeps the invariant.                             *)
LEMMA AgreeStep ==
    ASSUME SoleDispatcher, SoleInv, AgreeInv, [Next]_vars, \A p \in Procs : ~Crash(p) PROVE AgreeInv'
<1>1. CASE (Tick /\ UNCHANGED procVars) \/ UNCHANGED vars \/ \E p \in Procs : Cancel(p)
  BY <1>1, OthersOutside, OutsideAgrees
<1>2. CASE \E a \in AttemptIds : WorkerStep(a) \/ JobFinishes(a)
  BY <1>2, WorkersOutside, OutsideAgrees
<1>3. CASE \E p \in Procs : ProcStep(p) /\ ~Cancel(p)
  BY <1>3, ProcAgrees
<1> QED BY <1>1, <1>2, <1>3 DEF Next, ProcStep

(* Initially every trial is planned and all work is queued.                *)
LEMMA AgreeInit == Init => AgreeInv
<1> SUFFICES ASSUME Init PROVE AgreeInv
  OBVIOUS
<1>1. \A w \in Work : Agrees(w)
  BY DEF Init, Agrees, Terminal
<1>2. Active(lease) = {}
  BY DEF Init, Active, NoLease
<1>3. \A p \in Procs : proc[p].pc = "idle"
  BY DEF Init, IdleProc
<1> QED BY <1>1, <1>2, <1>3, IdleAgrees DEF AgreeInv

(* No process crashes when none may.                                       *)
LEMMA NoCrash == ASSUME SchedulerTypeOK, MaxCrashes = 0, NEW p \in Procs PROVE ~Crash(p)
BY DEF SchedulerTypeOK, Crash

(* While the machine stays up, a finished work item and its planned trial  *)
(* tell the same story: the dispatching process writes the trial's row     *)
(* first, and nobody comes between its two writes.                         *)
THEOREM TrialsAgree == ASSUME SoleDispatcher, MaxCrashes = 0 PROVE Spec => []TrialAgrees
<1>1. SoleInv /\ AgreeInv /\ [Next]_vars => AgreeInv'
  BY AgreeStep, NoCrash DEF SoleInv, SchedulerInv
<1>2. AgreeInv => TrialAgrees
  BY DEF AgreeInv, Agrees, TrialAgrees
<1> QED BY <1>1, <1>2, AgreeInit, SoleHolds, PTL DEF Spec

-----------------------------------------------------------------------------
(* Steps that leave done what is done; a done row is never written again.  *)
StaysDone == \A w \in Work : Done(w) => Done(w)'
SameStatus == UNCHANGED <<planState, runStatus, cancelRequested>>

(* An expiry leaves it, ...                                                *)
LEMMA ExpiryLeavesDone ==
    ASSUME NEW D, NEW w \in Work, Done(w)
    PROVE  ExpiredWork(D)[w] = workState[w] /\ ExpiredTrials(D)[w] = trialState[w]
BY DEF ExpiredWork, ExpiredTrials, Done, Terminal

(* ... so does what writes the rows of one work item that is not done, ... *)
LEMMA WritesLeaveDone ==
    ASSUME SoleInv, NEW w \in Work, ~Done(w),
           (\E s : UpdateWorkItem(w, s)) \/ (\E s : UpdatePlannedTrial(w, s))
    PROVE  StaysDone /\ SameStatus
<1>1. /\ workState \in [Work -> WorkStates \cup {"absent"}]
      /\ trialState \in [Work -> TrialStates \cup {"absent"}]
  BY DEF SoleInv, SchedulerInv, SchedulerTypeOK, StoreTypeOK
<1>2. \A v \in Work : v # w => workState'[v] = workState[v] /\ trialState'[v] = trialState[v]
  BY <1>1 DEF UpdateWorkItem, UpdatePlannedTrial
<1> QED BY <1>2 DEF UpdateWorkItem, UpdatePlannedTrial, StaysDone, SameStatus, Done

(* ... and so does a dispatch but for a retry it queues.                   *)
LEMMA DispatchLeavesDone ==
    ASSUME SoleInv, NEW p \in Procs, NEW r, Ours(p, r), Dispatch(p), ~Requeue(p) PROVE StaysDone
<1>1. ~ReleaseQuietly(p) /\ ~ReleaseRefused(p) /\ ~UnknownTrial(p) /\ ~UnknownWork(p)
  BY NeverTaken
<1>2. /\ r = proc[p] /\ BusyDuty(r) /\ WorkDuty(r)
      /\ workState \in [Work -> WorkStates \cup {"absent"}]
      /\ trialState \in [Work -> TrialStates \cup {"absent"}]
  BY DEF Ours, Duty, SoleInv, SchedulerInv, SchedulerTypeOK, StoreTypeOK
<1>3. ASSUME r.pc \in {"work_running", "trial_running", "write_trial", "write_work"}
      PROVE  CurWork(p) \in Work /\ ~Done(CurWork(p))
  <2>1. r.cur \in AttemptIds /\ CurWork(p) \in Work /\ CurWork(p) = attempt[r.cur].work
    BY <1>2, <1>3, InHand DEF SoleInv, Holding, Cur, CurWork
  <2>2. workState[CurWork(p)] \in {"leased", "running", "cancel_requested"}
    BY <1>2, <1>3, <2>1 DEF BusyDuty, Busy, WorkDuty, WorkStateOf
  <2> QED BY <2>1, <2>2 DEF Done, Terminal
<1>4. CASE LeaseOne(p)
  <2>1. PICK l \in LeaseIds, w \in Work : LeaseNextWorkItem(l, w, Owner, proc[p].now)
    BY <1>4 DEF LeaseOne
  <2>2. PICK D : D = Due(Work, proc[p].now)
    OBVIOUS
  <2>3. /\ ExpiredWork(D)[w] = "queued" /\ workState' = [ExpiredWork(D) EXCEPT ![w] = "leased"]
        /\ trialState' = ExpiredTrials(D)
    BY <2>1, <2>2 DEF LeaseNextWorkItem, IsSelected, UnderLimits, Candidates
  <2>4. ASSUME NEW v \in Work, Done(v) PROVE Done(v)'
    <3>1. ExpiredWork(D)[v] = workState[v] /\ ExpiredTrials(D)[v] = trialState[v]
      BY <2>4, ExpiryLeavesDone
    <3>2. v # w
      BY <2>3, <2>4, <3>1 DEF Done, Terminal
    <3>3. workState'[v] = workState[v] /\ trialState'[v] = trialState[v]
      BY <2>3, <3>1, <3>2 DEF ExpiredWork
    <3> QED BY <2>4, <3>3 DEF Done
  <2> QED BY <2>4 DEF StaysDone
<1>5. CASE LeaseNone(p)
  <2>1. PICK D : workState' = ExpiredWork(D) /\ trialState' = ExpiredTrials(D)
    BY <1>5 DEF LeaseNone, LeaseNextNothing, ExpireLeases
  <2> QED BY <2>1, ExpiryLeavesDone DEF StaysDone, Done
<1>6. CASE WorkRunning(p) \/ TrialRunning(p) \/ WriteTrial(p) \/ WriteWork(p)
  <2>1. r.pc \in {"work_running", "trial_running", "write_trial", "write_work"}
    BY <1>2, <1>6 DEF WorkRunning, TrialRunning, WriteTrial, WriteWork, At
  <2>2. (\E s : UpdateWorkItem(CurWork(p), s)) \/ (\E s : UpdatePlannedTrial(CurWork(p), s))
    BY <1>6 DEF WorkRunning, TrialRunning, WriteTrial, WriteWork
  <2> QED BY <1>3, <2>1, <2>2, WritesLeaveDone
<1>7. CASE Release(p)
  <2>1. ReleaseLease(CurLease(p), Owner)
    BY <1>7 DEF Release
  <2>2. PICK v : v = lease[CurLease(p)].work
    OBVIOUS
  <2>3. /\ workState' = IF workState[v] \in {"leased", "running"}
                        THEN [workState EXCEPT ![v] = "queued"] ELSE workState
        /\ trialState' = trialState
    BY <2>1, <2>2 DEF ReleaseLease
  <2> QED BY <1>2, <2>3 DEF StaysDone, Done, Terminal
<1>8. CASE UNCHANGED <<trialState, workState>>
  BY <1>8 DEF StaysDone, Done
<1>9. \/ LeaseOne(p) \/ LeaseNone(p) \/ WorkRunning(p) \/ TrialRunning(p) \/ WriteTrial(p)
      \/ WriteWork(p) \/ Release(p) \/ UNCHANGED <<trialState, workState>>
  <2>1. ASSUME LeaseRefused(p) \/ ListRuns(p) \/ CreateRefused(p) \/ Wake(p)
               \/ (\E a \in AttemptIds : HandleDone(p, a)) \/ RetryCheck(p) \/ RequeueRefused(p)
               \/ Abort(p) \/ HandleEnd(p) \/ RenewEnd(p)
        PROVE  UNCHANGED <<trialState, workState>>
    BY <2>1 DEF LeaseRefused, ListRuns, CreateRefused, Wake, HandleDone, RetryCheck, RequeueRefused,
       Abort, HandleEnd, RenewEnd, NoStoreCall, storeVars
  <2>2. ASSUME MarkRun(p) \/ MarkPlan(p) \/ AttemptRunning(p) \/ WriteAttempt(p) \/ CompletePlan(p)
        PROVE  UNCHANGED <<trialState, workState>>
    BY <2>2 DEF MarkRun, MarkPlan, AttemptRunning, WriteAttempt, CompletePlan, UpdateRun, UpdatePlan,
       TransitionAttempt, CompletePlanIfTerminal
  <2>3. CreateNext(p) => UNCHANGED <<trialState, workState>>
    BY DEF CreateNext, CreateAttemptForLease, InsertAttempt
  <2>4. Renew(p) => UNCHANGED <<trialState, workState>>
    BY DEF Renew, RenewLease, NoStoreCall, storeVars
  <2> QED BY <1>1, <2>1, <2>2, <2>3, <2>4 DEF Dispatch
<1> QED BY <1>4, <1>5, <1>6, <1>7, <1>8, <1>9

(* A reconciliation writes only unknown work.                              *)
LEMMA ReconcileLeavesDone ==
    ASSUME SoleInv, AgreeInv, NEW p \in Procs, NEW r, Ours(p, r), Reconcile(p), ~SettleRequeue(p)
    PROVE  StaysDone
<1>1. CASE SettleTrial(p) \/ SettleWork(p)
  <2>1. r.pc \in {"settle_trial", "settle_work"} /\ r.pc \in Reconciling /\ r.pc \in Settling
    BY <1>1 DEF SettleTrial, SettleWork, At, Ours, Reconciling, Settling
  <2>2. CurWork(p) \in Work /\ UnknownDuty(p, r) /\ CurWork(p) = attempt[r.cur].work
    BY <2>1, RestKnows
  <2>3. workState[CurWork(p)] = "unknown"
    BY <2>1, <2>2 DEF UnknownDuty, WorkStateOf
  <2>4. (\E s : UpdateWorkItem(CurWork(p), s)) \/ (\E s : UpdatePlannedTrial(CurWork(p), s))
    BY <1>1 DEF SettleTrial, SettleWork
  <2>5. ~Done(CurWork(p))
    BY <2>3 DEF Done, Terminal
  <2> QED BY <2>2, <2>4, <2>5, WritesLeaveDone
<1>2. SettleTrial(p) \/ SettleWork(p) \/ UNCHANGED <<trialState, workState>>
  BY DEF Reconcile, UnknownList, ReconcileItem, SettleAttempt, SettleRetry, SettlePlan,
     ReconcileEnd, NoStoreCall, storeVars, WriteOutcome, TransitionAttempt, CompletePlanIfTerminal
<1> QED BY <1>1, <1>2 DEF StaysDone, Done

(* A run and its plans are closed only when their work is done.            *)
LEMMA CompletionIsDone ==
    ASSUME SoleInv, AgreeInv, NEW q \in Plans, CompletePlanIfTerminal(q), NEW w \in Work, Over(w)'
    PROVE  Over(w) \/ Done(w)'
<1>1. /\ UNCHANGED <<trialState, workState>> /\ Agrees(w)
      /\ planState \in [Plans -> PlanStates \cup {"absent"}]
      /\ runStatus \in [Runs -> RunStatuses \cup {"absent"}]
  BY DEF CompletePlanIfTerminal, AgreeInv, SoleInv, SchedulerInv, SchedulerTypeOK, StoreTypeOK
<1>2. ASSUME ~Over(w), PlanOf[w] = q, Complete(WorkOfPlan(q), trialState, workState) PROVE Done(w)
  BY <1>1, <1>2 DEF Complete, AllTerminal, WorkOfPlan, Agrees, Done
<1>3. ASSUME RunOf(w) = RunOfPlan[q], Complete(WorkOfRun(RunOfPlan[q]), trialState, workState)
      PROVE  Done(w)
  BY <1>1, <1>3 DEF Complete, AllTerminal, WorkOfRun, Agrees, Done
<1>4. Done(w) => Done(w)'
  BY <1>1 DEF Done
<1>5. CASE UNCHANGED <<planState, runStatus>>
  BY <1>5 DEF Over
<1>6. CASE Complete(WorkOfPlan(q), trialState, workState)
  <2>1. PICK s : /\ planState' = [planState EXCEPT ![q] = "closed"]
                 /\ \/ runStatus' = runStatus
                    \/ /\ Complete(WorkOfRun(RunOfPlan[q]), trialState, workState)
                       /\ runStatus' = [runStatus EXCEPT ![RunOfPlan[q]] = s]
    BY <1>6 DEF CompletePlanIfTerminal
  <2>2. planState'[PlanOf[w]] = planState[PlanOf[w]] \/ PlanOf[w] = q
    BY <1>1, <2>1, StoreConstants
  <2>3. \/ runStatus'[RunOf(w)] = runStatus[RunOf(w)]
        \/ RunOf(w) = RunOfPlan[q] /\ Complete(WorkOfRun(RunOfPlan[q]), trialState, workState)
    BY <1>1, <2>1, StoreConstants DEF RunOf
  <2> QED BY <1>2, <1>3, <1>4, <1>6, <2>2, <2>3 DEF Over
<1> QED BY <1>5, <1>6 DEF CompletePlanIfTerminal

(* The dispatching process closes nothing else, and cancels nothing.       *)
LEMMA ClosesWhatIsDone ==
    ASSUME SoleInv, AgreeInv, NEW p \in Procs, NEW r, Ours(p, r),
           Dispatch(p) \/ Reconcile(p) \/ StartRun(p) \/ ResumeRun(p)
    PROVE  UNCHANGED cancelRequested /\ \A w \in Work : Over(w)' => Over(w) \/ Done(w)'
<1>1. ~ReleaseQuietly(p) /\ ~ReleaseRefused(p) /\ ~UnknownTrial(p) /\ ~UnknownWork(p)
  BY NeverTaken
<1>2. CASE SameStatus
  BY <1>2 DEF SameStatus, Over
<1>3. CASE MarkRun(p)
  <2>1. PICK e : UpdateRun(e, "running")
    BY <1>3 DEF MarkRun
  <2>2. runStatus \in [Runs -> RunStatuses \cup {"absent"}]
    BY DEF SoleInv, SchedulerInv, SchedulerTypeOK, StoreTypeOK
  <2>3. \A x \in Runs : runStatus'[x] \in RunTerminal => runStatus[x] \in RunTerminal
    BY <2>1, <2>2 DEF UpdateRun, RunTerminal
  <2>4. \A w \in Work : RunOf(w) \in Runs
    BY StoreConstants DEF RunOf
  <2> QED BY <2>1, <2>3, <2>4 DEF UpdateRun, Over
<1>4. CASE MarkPlan(p)
  <2>1. PICK e : UpdatePlan(e, "started")
    BY <1>4 DEF MarkPlan
  <2>2. planState \in [Plans -> PlanStates \cup {"absent"}]
    BY DEF SoleInv, SchedulerInv, SchedulerTypeOK, StoreTypeOK
  <2>3. \A x \in Plans : planState'[x] = "closed" => planState[x] = "closed"
    BY <2>1, <2>2 DEF UpdatePlan
  <2> QED BY <2>1, <2>3, StoreConstants DEF UpdatePlan, Over
<1>5. CASE CompletePlan(p) \/ SettlePlan(p)
  <2>1. r = proc[p] /\ r.pc \in {"complete", "settle_plan"}
    BY <1>5 DEF CompletePlan, SettlePlan, At, Ours
  <2>2. PlanOf[CurWork(p)] \in Plans
    BY <2>1, InHand DEF SoleInv, Holding, Settling
  <2>3. CompletePlanIfTerminal(PlanOf[CurWork(p)])
    BY <1>5 DEF CompletePlan, SettlePlan
  <2>4. UNCHANGED cancelRequested
    BY <2>3 DEF CompletePlanIfTerminal
  <2> QED BY <2>2, <2>3, <2>4, CompletionIsDone
<1>6. MarkRun(p) \/ MarkPlan(p) \/ CompletePlan(p) \/ SettlePlan(p) \/ SameStatus
  <2>1. ASSUME LeaseRefused(p) \/ ListRuns(p) \/ CreateRefused(p) \/ Wake(p)
               \/ (\E a \in AttemptIds : HandleDone(p, a)) \/ RetryCheck(p) \/ RequeueRefused(p)
               \/ Abort(p) \/ HandleEnd(p) \/ RenewEnd(p)
        PROVE  SameStatus
    BY <2>1 DEF LeaseRefused, ListRuns, CreateRefused, Wake, HandleDone, RetryCheck, RequeueRefused,
       Abort, HandleEnd, RenewEnd, NoStoreCall, storeVars, SameStatus
  <2>2. ASSUME WorkRunning(p) \/ TrialRunning(p) \/ AttemptRunning(p) \/ WriteAttempt(p)
               \/ WriteTrial(p) \/ WriteWork(p) \/ Requeue(p) \/ Release(p)
        PROVE  SameStatus
    BY <2>2 DEF WorkRunning, TrialRunning, AttemptRunning, WriteAttempt, WriteTrial, WriteWork, Requeue,
       Release, UpdateWorkItem, UpdatePlannedTrial, TransitionAttempt, ScheduleRetry, ReleaseLease,
       SameStatus
  <2>3. LeaseOne(p) \/ LeaseNone(p) => SameStatus
    BY DEF LeaseOne, LeaseNone, LeaseNextWorkItem, LeaseNextNothing, ExpireLeases, SameStatus
  <2>4. CreateNext(p) => SameStatus
    BY DEF CreateNext, CreateAttemptForLease, InsertAttempt, SameStatus
  <2>5. Renew(p) => SameStatus
    BY DEF Renew, RenewLease, NoStoreCall, storeVars, SameStatus
  <2>6. CASE Dispatch(p)
    BY <1>1, <2>1, <2>2, <2>3, <2>4, <2>5, <2>6 DEF Dispatch
  <2>7. CASE Reconcile(p)
    BY <2>7 DEF Reconcile, UnknownList, ReconcileItem, SettleAttempt, SettleTrial, SettleWork,
       SettleRetry, SettleRequeue, ReconcileEnd, NoStoreCall, storeVars, WriteOutcome, TransitionAttempt,
       UpdatePlannedTrial, UpdateWorkItem, ScheduleRetry, SameStatus
  <2>8. CASE StartRun(p) \/ ResumeRun(p)
    BY <2>8 DEF StartRun, ResumeRun, ExpireLeases, NoStoreCall, storeVars, SameStatus
  <2> QED BY <2>6, <2>7, <2>8
<1> QED BY <1>2, <1>3, <1>4, <1>5, <1>6

-----------------------------------------------------------------------------
(* The labels at which unknown work is asked for or settled.               *)
Asking == {"reconcile"} \cup Settling

(* Only two steps of a dispatch lead to where work may be queued again,    *)
(* and none to where unknown work is asked for or settled.                 *)
LEMMA DispatchEnters ==
    ASSUME SoleInv, NEW p \in Procs, NEW r, Ours(p, r), Dispatch(p),
           proc'[p].pc \in Retrying \cup Asking
    PROVE  WriteWork(p) \/ RetryCheck(p)
<1>1. r = proc[p] /\ r \in ProcRecords /\ proc \in [Procs -> ProcRecords]
  BY DEF Ours, SoleInv, SchedulerInv, SchedulerTypeOK
<1>2. ASSUME NEW n, proc' = [proc EXCEPT ![p] = n] PROVE n.pc \in Retrying \cup Asking
  BY <1>1, <1>2
<1>3. ~ReleaseQuietly(p) /\ ~ReleaseRefused(p) /\ ~UnknownTrial(p) /\ ~UnknownWork(p)
  BY NeverTaken
<1>4. ASSUME NEW x, Goto(p, x) PROVE x \in Retrying \cup Asking
  BY <1>4, GotoRelabels, <1>2 DEF Relabelled
<1>5. ~Quit(p)
  <2>1. PICK n : n = IdleProc
    OBVIOUS
  <2>2. n.pc = "idle"
    BY <2>1 DEF IdleProc
  <2> QED BY <1>2, <2>1, <2>2 DEF Quit, Retrying, Asking, Settling
<1>6. ASSUME NEW i, i \in ProcRecords, proc' = [proc EXCEPT ![p] = BeginDispatch(p, i)] PROVE FALSE
  <2>1. BeginDispatch(p, i).pc = "lease"
    BY <1>6 DEF BeginDispatch, ProcRecords
  <2> QED BY <1>2, <1>6, <2>1 DEF Retrying, Asking, Settling
<1>7. [IdleProc EXCEPT !.now = clock] \in ProcRecords
  <2>1. clock \in Nat
    BY StoreConstants DEF SoleInv, SchedulerInv, SchedulerTypeOK, StoreTypeOK
  <2> QED BY <2>1 DEF IdleProc, ProcRecords, NoResult, Results, Labels, LeaseSets, AttemptSets, Todos, Currents
<1>8. ~LeaseOne(p) /\ ~LeaseNone(p) /\ ~LeaseRefused(p)
  <2>1. ASSUME LeaseOne(p) PROVE FALSE
    <3>1. PICK b : proc' = [proc EXCEPT ![p].batch = b,
                               ![p].pc = IF Cardinality(b) = GlobalLimit THEN "batch" ELSE "lease"]
      BY <2>1 DEF LeaseOne
    <3>2. PICK x : x = IF Cardinality(b) = GlobalLimit THEN "batch" ELSE "lease"
      OBVIOUS
    <3>3. proc' = [proc EXCEPT ![p].batch = b, ![p].pc = x] /\ x \in {"batch", "lease"}
      BY <3>1, <3>2
    <3> QED BY <1>1, <3>3 DEF ProcRecords, Retrying, Asking, Settling
  <2>2. ~LeaseNone(p) /\ ~LeaseRefused(p)
    BY <1>4, <1>5 DEF LeaseNone, LeaseRefused, Retrying, Asking, Settling
  <2> QED BY <2>1, <2>2
<1>9. ~ListRuns(p) /\ ~MarkRun(p) /\ ~MarkPlan(p)
  <2>1. ~ListRuns(p)
    BY <1>1 DEF ListRuns, ProcRecords, Retrying, Asking, Settling
  <2>2. ASSUME MarkRun(p) PROVE FALSE
    <3>1. PICK q : proc' = IF r.todo = {q}
                           THEN [proc EXCEPT ![p].pc = "plan_started", ![p].todo = BatchPlans(p)]
                           ELSE [proc EXCEPT ![p].todo = @ \ {q}]
      BY <1>1, <2>2 DEF MarkRun
    <3>2. r.pc = "run_running"
      BY <1>1, <2>2 DEF MarkRun, At
    <3>3. CASE proc' = [proc EXCEPT ![p].pc = "plan_started", ![p].todo = BatchPlans(p)]
      BY <1>1, <3>3 DEF ProcRecords, Retrying, Asking, Settling
    <3>4. CASE proc' = [proc EXCEPT ![p].todo = @ \ {q}]
      BY <1>1, <3>2, <3>4 DEF ProcRecords, Retrying, Asking, Settling
    <3> QED BY <3>1, <3>3, <3>4
  <2>3. ASSUME MarkPlan(p) PROVE FALSE
    <3>1. PICK q : proc' = [proc EXCEPT ![p].todo = @ \ {q},
                               ![p].pc = IF r.todo = {q} THEN "create" ELSE @]
      BY <1>1, <2>3 DEF MarkPlan
    <3>2. PICK x : x = IF r.todo = {q} THEN "create" ELSE r.pc
      OBVIOUS
    <3>3. proc' = [proc EXCEPT ![p].todo = @ \ {q}, ![p].pc = x]
      BY <1>1, <3>1, <3>2 DEF ProcRecords
    <3>4. x \in {"create", "plan_started"}
      BY <1>1, <2>3, <3>2 DEF MarkPlan, At
    <3> QED BY <1>1, <3>3, <3>4 DEF ProcRecords, Retrying, Asking, Settling
  <2> QED BY <2>1, <2>2, <2>3
<1>10. ~CreateNext(p) /\ ~CreateRefused(p) /\ ~WorkRunning(p) /\ ~TrialRunning(p) /\ ~AttemptRunning(p)
  <2>1. ASSUME CreateNext(p) PROVE FALSE
    <3>1. PICK l \in LeaseIds, a \in AttemptIds :
             proc' = [proc EXCEPT ![p].pc = "work_running", ![p].cur = a, ![p].batch = @ \ {l}]
      BY <2>1 DEF CreateNext
    <3> QED BY <1>1, <3>1 DEF ProcRecords, Retrying, Asking, Settling
  <2>2. ASSUME AttemptRunning(p) PROVE FALSE
    <3>1. PICK x : x = IF r.batch = {} THEN "wait" ELSE "create"
      OBVIOUS
    <3>2. PICK d : d = r.pend \cup {r.cur}
      OBVIOUS
    <3>3. proc' = [proc EXCEPT ![p].pc = x, ![p].cur = None, ![p].pend = d]
      BY <1>1, <2>2, <3>1, <3>2 DEF AttemptRunning, Cur
    <3> QED BY <1>1, <3>1, <3>3 DEF ProcRecords, Retrying, Asking, Settling
  <2>3. ~CreateRefused(p) /\ ~WorkRunning(p) /\ ~TrialRunning(p)
    BY <1>4, <1>5 DEF CreateRefused, WorkRunning, TrialRunning, Retrying, Asking, Settling
  <2> QED BY <2>1, <2>2, <2>3
<1>11. ~Wake(p) /\ ~(\E a \in AttemptIds : HandleDone(p, a)) /\ ~CompletePlan(p)
  <2>1. ASSUME Wake(p) PROVE FALSE
    <3>1. PICK d : proc' = [proc EXCEPT ![p].pc = "handle", ![p].done = d, ![p].pend = @ \ d]
      BY <2>1 DEF Wake
    <3> QED BY <1>1, <3>1 DEF ProcRecords, Retrying, Asking, Settling
  <2>3. ~CompletePlan(p)
    BY <1>1 DEF CompletePlan, ProcRecords, Retrying, Asking, Settling
  <2>2. ASSUME NEW a \in AttemptIds, HandleDone(p, a) PROVE FALSE
    <3>1. PICK x : x = IF workState[attempt[a].work] \in {"cancelled", "unknown"}
                       THEN "release_quietly" ELSE "write_attempt"
      OBVIOUS
    <3>2. PICK res : res = IF workState[attempt[a].work] \in {"cancelled", "unknown"} THEN NoResult
                           ELSE IF LeaseLost(p, a) THEN Result("unknown", "unknown", "pending", FALSE)
                           ELSE OutcomeResult(a)
      OBVIOUS
    <3>3. proc' = [proc EXCEPT ![p].cur = a, ![p].done = @ \ {a}, ![p].pc = x, ![p].res = res]
      BY <2>2, <3>1, <3>2 DEF HandleDone
    <3> QED BY <1>1, <3>1, <3>3 DEF ProcRecords, Retrying, Asking, Settling
  <2> QED BY <2>1, <2>2, <2>3
<1>12. ~WriteAttempt(p) /\ ~WriteTrial(p) /\ ~Requeue(p) /\ ~RequeueRefused(p) /\ ~Abort(p) /\ ~Release(p)
  BY <1>4, <1>5 DEF WriteAttempt, WriteTrial, Requeue, RequeueRefused, Abort, Release, Retrying, Asking, Settling
<1>13. ~HandleEnd(p) /\ ~Renew(p) /\ ~RenewEnd(p)
  <2>1. ~RenewEnd(p)
    BY <1>1 DEF RenewEnd, ProcRecords, Retrying, Asking, Settling
  <2>2. ~HandleEnd(p)
    <3>1. proc' # [proc EXCEPT ![p].pc = "renew", ![p].beat = clock, ![p].todo = proc[p].pend]
      BY <1>1 DEF ProcRecords, Retrying, Asking, Settling
    <3> QED BY <1>6, <1>7, <3>1 DEF HandleEnd
  <2>3. ~Renew(p)
    <3>1. ASSUME NEW a, proc' = [proc EXCEPT ![p] = [proc[p] EXCEPT !.todo = @ \ {a}]],
                 At(p, "renew")
          PROVE  FALSE
      BY <1>1, <3>1 DEF At, ProcRecords, Retrying, Asking, Settling
    <3>2. ASSUME NEW a, NEW l, At(p, "renew"),
                 proc' = [proc EXCEPT ![p] = [[proc[p] EXCEPT !.todo = @ \ {a}] EXCEPT !.lost = @ \cup {l}]]
          PROVE  FALSE
      BY <1>1, <3>2 DEF At, ProcRecords, Retrying, Asking, Settling
    <3> QED BY <3>1, <3>2 DEF Renew
  <2> QED BY <2>1, <2>2, <2>3
<1> QED BY <1>3, <1>8, <1>9, <1>10, <1>11, <1>12, <1>13 DEF Dispatch

(* Only four steps lead to where work may be queued again.                 *)
LEMMA EntersRetrying ==
    ASSUME SoleInv, NEW p \in Procs, NEW r, Ours(p, r),
           Dispatch(p) \/ Reconcile(p) \/ StartRun(p) \/ ResumeRun(p), proc'[p].pc \in Retrying
    PROVE  WriteWork(p) \/ RetryCheck(p) \/ SettleWork(p) \/ SettleRetry(p)
<1>1. r = proc[p] /\ r \in ProcRecords /\ proc \in [Procs -> ProcRecords]
  BY DEF Ours, SoleInv, SchedulerInv, SchedulerTypeOK
<1>2. ASSUME NEW n, proc' = [proc EXCEPT ![p] = n] PROVE n.pc \in Retrying
  BY <1>1, <1>2
<1>4. ASSUME NEW x, Goto(p, x) PROVE x \in Retrying
  BY <1>4, GotoRelabels, <1>2 DEF Relabelled
<1>5. ~Quit(p)
  <2>1. PICK n : n = IdleProc
    OBVIOUS
  <2>2. n.pc = "idle"
    BY <2>1 DEF IdleProc
  <2> QED BY <1>2, <2>1, <2>2 DEF Quit, Retrying
<1>6. ASSUME NEW i, i \in ProcRecords, proc' = [proc EXCEPT ![p] = BeginDispatch(p, i)] PROVE FALSE
  <2>1. BeginDispatch(p, i).pc = "lease"
    BY <1>6 DEF BeginDispatch, ProcRecords
  <2> QED BY <1>2, <1>6, <2>1 DEF Retrying
<1>7. [IdleProc EXCEPT !.now = clock] \in ProcRecords
  <2>1. clock \in Nat
    BY StoreConstants DEF SoleInv, SchedulerInv, SchedulerTypeOK, StoreTypeOK
  <2> QED BY <2>1 DEF IdleProc, ProcRecords, NoResult, Results, Labels, LeaseSets, AttemptSets, Todos, Currents
<1>14. ASSUME Reconcile(p) PROVE SettleWork(p) \/ SettleRetry(p)
  <2>1. ~UnknownList(p) /\ ~SettlePlan(p)
    BY <1>1 DEF UnknownList, SettlePlan, ProcRecords, Retrying
  <2>2. ASSUME ReconcileItem(p) PROVE FALSE
    <3>1. r.pc = "reconcile"
      BY <1>1, <2>2 DEF ReconcileItem, At
    <3>2. PICK w \in proc[p].todo :
             \/ proc' = [proc EXCEPT ![p].todo = @ \ {w}] /\ NoStoreCall
             \/ \E a \in AttemptIds :
                   /\ IsLatestAttempt(a, w)
                   /\ HasBackend /\ submission[a].state # "absent"
                   /\ \E res \in Reconciled(a) :
                         /\ WriteOutcome(a, res.state, None, None,
                                         IF res.state = "succeeded" THEN "completed" ELSE "failed")
                         /\ proc' = [proc EXCEPT ![p].todo = @ \ {w}, ![p].cur = a, ![p].res = res,
                                                 ![p].pc = "settle_attempt"]
      BY <2>2 DEF ReconcileItem
    <3>3. CASE proc' = [proc EXCEPT ![p].todo = @ \ {w}]
      BY <1>1, <3>1, <3>3 DEF ProcRecords, Retrying
    <3>4. CASE proc' # [proc EXCEPT ![p].todo = @ \ {w}]
      <4>1. PICK a \in AttemptIds : \E res \in Reconciled(a) :
               proc' = [proc EXCEPT ![p].todo = @ \ {w}, ![p].cur = a, ![p].res = res,
                                    ![p].pc = "settle_attempt"]
        BY <3>2, <3>4
      <4>2. PICK res \in Reconciled(a) :
               proc' = [proc EXCEPT ![p].todo = @ \ {w}, ![p].cur = a, ![p].res = res,
                                    ![p].pc = "settle_attempt"]
        BY <4>1
      <4> QED BY <1>1, <4>2 DEF ProcRecords, Retrying
    <3> QED BY <3>3, <3>4
  <2>3. ~SettleAttempt(p) /\ ~SettleTrial(p)
    BY <1>4 DEF SettleAttempt, SettleTrial, Retrying
  <2>4. ~SettleRequeue(p)
    <3>1. proc' # [proc EXCEPT ![p].pc = "reconcile", ![p].cur = None, ![p].res = NoResult]
      BY <1>1 DEF ProcRecords, Retrying
    <3> QED BY <1>5, <3>1 DEF SettleRequeue
  <2>5. ~ReconcileEnd(p)
    BY <1>1, <1>5, <1>6 DEF ReconcileEnd
  <2> QED BY <1>14, <2>1, <2>2, <2>3, <2>4, <2>5 DEF Reconcile
<1>15. ~StartRun(p) /\ ~ResumeRun(p)
  <2>1. ~StartRun(p)
    BY <1>6, <1>7 DEF StartRun
  <2>2. ~ResumeRun(p)
    BY <1>1 DEF ResumeRun, ProcRecords, Retrying
  <2> QED BY <2>1, <2>2
<1> QED BY <1>14, <1>15, DispatchEnters

(* The work of an attempt that may have to be queued again.                *)
LEMMA RetriesHold ==
    ASSUME SoleInv, NEW q \in Procs, proc[q].pc \in Retrying
    PROVE  proc[q].cur \in AttemptIds /\ attempt[proc[q].cur].work \in Work
<1>1. proc[q].pc \in Holding
  BY DEF Retrying, Holding, Settling
<1> QED BY <1>1, InHand DEF SoleInv, Cur, CurWork

(* Work that has just failed was running or unknown, so it was not over.   *)
LEMMA RetriesKnow ==
    ASSUME SoleInv, AgreeInv, ClosedInv, NEW p \in Procs, NEW r, Ours(p, r),
           Dispatch(p) \/ Reconcile(p) \/ StartRun(p) \/ ResumeRun(p)
    PROVE  RetryDuty(proc[p])'
<1> SUFFICES ASSUME proc'[p].pc \in Retrying PROVE RetryDuty(proc[p])'
  BY DEF RetryDuty
<1>1. WriteWork(p) \/ RetryCheck(p) \/ SettleWork(p) \/ SettleRetry(p)
  BY EntersRetrying
<1>2. r = proc[p] /\ r.pc \in {"write_work", "retry", "settle_work", "settle_retry"}
  BY <1>1 DEF Ours, WriteWork, RetryCheck, SettleWork, SettleRetry, At
<1>3. r.cur \in AttemptIds /\ CurWork(p) \in Work /\ CurWork(p) = attempt[r.cur].work
  BY <1>2, InHand DEF SoleInv, Holding, Settling, Cur, CurWork
<1>4. PICK w \in Work : w = attempt[r.cur].work
  BY <1>3
<1>5. SameStatus /\ UNCHANGED attempt
  BY <1>1 DEF WriteWork, RetryCheck, SettleWork, SettleRetry, UpdateWorkItem, NoStoreCall, storeVars,
     SameStatus
<1>6. PICK x : Goto(p, x)
  BY <1>1 DEF WriteWork, RetryCheck, SettleWork, SettleRetry
<1>7. PICK n : Relabelled(p, r, n, x)
  BY <1>6, GotoRelabels
<1>8. proc'[p].cur = r.cur
  BY <1>7, Lands DEF Relabelled
<1>9. Over(w)' = Over(w) /\ cancelRequested'[RunOf(w)] = cancelRequested[RunOf(w)]
  BY <1>5 DEF SameStatus, Over
<1>10. CASE r.pc \in {"retry", "settle_retry"}
  <2>1. RetryDuty(r) /\ r.pc \in Retrying
    BY <1>2, <1>10 DEF ClosedInv, Retrying
  <2> QED BY <1>4, <1>5, <1>8, <1>9, <2>1 DEF RetryDuty
<1>11. CASE r.pc \in {"write_work", "settle_work"}
  <2>1. workState[w] \in {"running", "cancel_requested", "unknown"}
    <3>1. r.pc = "write_work" => workState[w] \in {"running", "cancel_requested"}
      <4> SUFFICES ASSUME r.pc = "write_work" PROVE workState[w] \in {"running", "cancel_requested"}
        OBVIOUS
      <4>1. BusyDuty(r) /\ r.cur \in Busy(r)
        BY <1>3 DEF Ours, Duty, Busy
      <4> QED BY <1>4, <4>1 DEF BusyDuty, WorkStateOf
    <3>2. r.pc = "settle_work" => workState[w] = "unknown"
      <4> SUFFICES ASSUME r.pc = "settle_work" PROVE workState[w] = "unknown"
        OBVIOUS
      <4>1. r.pc \in Reconciling
        BY DEF Reconciling, Settling
      <4>2. UnknownDuty(p, r)
        BY <4>1, RestKnows
      <4> QED BY <1>4, <4>2 DEF UnknownDuty, WorkStateOf
    <3> QED BY <1>11, <3>1, <3>2
  <2>2. ~Over(w)
    BY <2>1 DEF ClosedInv, Done, Terminal
  <2> QED BY <1>4, <1>5, <1>8, <1>9, <2>2 DEF RetryDuty
<1> QED BY <1>2, <1>10, <1>11

(* What is queued again is not over: its run's cancellation would have     *)
(* refused the retry.                                                      *)
LEMMA RequeueIsNotOver ==
    ASSUME SoleInv, ClosedInv, NEW p \in Procs, NEW r, Ours(p, r), Requeue(p) \/ SettleRequeue(p),
           NEW w \in Work, Over(w)
    PROVE  Done(w)'
<1>1. Done(w)
  BY DEF ClosedInv
<1>2. /\ workState \in [Work -> WorkStates \cup {"absent"}]
      /\ trialState \in [Work -> TrialStates \cup {"absent"}]
  BY DEF SoleInv, SchedulerInv, SchedulerTypeOK, StoreTypeOK
<1>3. CASE UNCHANGED <<trialState, workState>>
  BY <1>1, <1>3 DEF Done
<1>4. ASSUME NEW t, ScheduleRetry(CurWork(p), t) PROVE Done(w)'
  <2>1. r = proc[p] /\ r.pc \in Retrying
    BY DEF Requeue, SettleRequeue, At, Ours, Retrying
  <2>2. RetryDuty(r) /\ CurWork(p) = attempt[r.cur].work
    BY <2>1 DEF ClosedInv, CurWork, Cur
  <2>3. ~cancelRequested[RunOf(CurWork(p))]
    BY <1>4 DEF ScheduleRetry, RetryAllowed
  <2>4. w # CurWork(p)
    BY <2>1, <2>2, <2>3 DEF RetryDuty
  <2>5. trialState'[w] = trialState[w] /\ workState'[w] = workState[w]
    BY <1>2, <1>4, <2>4 DEF ScheduleRetry
  <2> QED BY <1>1, <2>5 DEF Done
<1>5. (\E t : ScheduleRetry(CurWork(p), t)) \/ UNCHANGED <<trialState, workState>>
  BY DEF Requeue, SettleRequeue, NoStoreCall, storeVars
<1> QED BY <1>3, <1>4, <1>5

(* The dispatching process keeps closed what is closed.                    *)
LEMMA ProcCloses ==
    ASSUME SoleDispatcher, SoleInv, SoleInv', AgreeInv, ClosedInv, NEW p \in Procs, ProcStep(p),
           ~Cancel(p), ~Crash(p)
    PROVE  ClosedInv'
<1>1. PICK r : Ours(p, r)
  BY OursExists
<1>2. ~CancelActive(p)
  BY <1>1, NeverTaken
<1>3. Dispatch(p) \/ Reconcile(p) \/ StartRun(p) \/ ResumeRun(p)
  BY <1>2 DEF ProcStep, Command
<1>4. ASSUME ~Requeue(p), ~SettleRequeue(p) PROVE StaysDone
  <2>1. CASE StartRun(p)
    BY <2>1 DEF StartRun, NoStoreCall, storeVars, StaysDone, Done
  <2>2. CASE ResumeRun(p)
    <3>1. PICK D : workState' = ExpiredWork(D) /\ trialState' = ExpiredTrials(D)
      BY <2>2 DEF ResumeRun, ExpireLeases
    <3> QED BY <3>1, ExpiryLeavesDone DEF StaysDone, Done
  <2> QED BY <1>1, <1>3, <1>4, <2>1, <2>2, DispatchLeavesDone, ReconcileLeavesDone
<1>5. ASSUME NEW w \in Work, Over(w)' PROVE Done(w)'
  <2>1. Over(w) \/ Done(w)'
    BY <1>1, <1>3, <1>5, ClosesWhatIsDone
  <2>2. CASE Over(w)
    <3>1. Done(w)
      BY <2>2 DEF ClosedInv
    <3> QED BY <1>1, <1>4, <2>2, <3>1, RequeueIsNotOver DEF StaysDone
  <2> QED BY <2>1, <2>2
<1>6. ASSUME NEW q \in Procs PROVE RetryDuty(proc[q])'
  <2>1. CASE q = p
    BY <1>1, <1>3, <2>1, RetriesKnow
  <2>2. CASE q # p
    <3>1. proc'[q].pc = "idle"
      BY <1>1, <2>2 DEF SoleInv, DutyInv, SoleDispatcher, Ours
    <3> QED BY <3>1 DEF RetryDuty, Retrying
  <2> QED BY <2>1, <2>2
<1> QED BY <1>5, <1>6 DEF ClosedInv

(* A cancellation of the run closes what has become terminal, and says so. *)
LEMMA CancelCloses ==
    ASSUME SoleInv, ClosedInv, AgreeInv', NEW r \in Runs, RequestCancellation(r, WorkOfRun(r), TRUE),
           UNCHANGED proc
    PROVE  ClosedInv'
<1>1. /\ planState \in [Plans -> PlanStates \cup {"absent"}]
      /\ runStatus \in [Runs -> RunStatuses \cup {"absent"}]
      /\ cancelRequested \in [Runs -> BOOLEAN]
  BY DEF SoleInv, SchedulerInv, SchedulerTypeOK, StoreTypeOK
<1>2. ASSUME NEW w \in Work, Done(w) PROVE Done(w)'
  BY <1>2 DEF RequestCancellation, Done, Terminal
<1>3. /\ cancelRequested'[r] = TRUE
      /\ \A x \in Runs : cancelRequested[x] => cancelRequested'[x]
  BY <1>1 DEF RequestCancellation
<1>4. ASSUME NEW w \in Work, Over(w)', ~Over(w) PROVE Done(w)' /\ RunOf(w) = r
  <2>1. trialState'[w] # "absent" /\ workState'[w] # "absent"
    BY DEF AgreeInv, Agrees
  <2>2. PlanOf[w] \in Plans /\ RunOf(w) \in Runs /\ RunOf(w) = RunOfPlan[PlanOf[w]]
    BY StoreConstants DEF RunOf
  <2>3. CASE planState'[PlanOf[w]] = "closed"
    <3>1. /\ RunOfPlan[PlanOf[w]] = r
          /\ AllTerminal(WorkOfPlan(PlanOf[w]), trialState', workState')
      BY <1>4, <2>2, <2>3 DEF RequestCancellation, Over
    <3> QED BY <2>1, <2>2, <3>1 DEF AllTerminal, WorkOfPlan, Done
  <2>4. CASE runStatus'[RunOf(w)] \in RunTerminal
    <3>1. AllTerminal(WorkOfRun(r), trialState', workState') /\ RunOf(w) = r
      BY <1>1, <1>4, <2>2, <2>4 DEF RequestCancellation, Over
    <3> QED BY <2>1, <3>1 DEF AllTerminal, WorkOfRun, Done
  <2> QED BY <1>4, <2>3, <2>4 DEF Over
<1>5. \A w \in Work : Over(w)' => Done(w)'
  BY <1>2, <1>4 DEF ClosedInv
<1>6. ASSUME NEW q \in Procs PROVE RetryDuty(proc[q])'
  <2> SUFFICES ASSUME proc[q].pc \in Retrying, Over(attempt[proc[q].cur].work)'
               PROVE  cancelRequested'[RunOf(attempt[proc[q].cur].work)]
    BY DEF RetryDuty, RequestCancellation
  <2>1. PICK w \in Work : w = attempt[proc[q].cur].work
    BY RetriesHold
  <2>2. RunOf(w) \in Runs
    BY StoreConstants DEF RunOf
  <2>3. CASE Over(w)
    <3>1. cancelRequested[RunOf(w)]
      BY <2>1, <2>3 DEF ClosedInv, RetryDuty
    <3> QED BY <1>3, <2>1, <2>2, <3>1
  <2>4. CASE ~Over(w)
    <3>1. attempt' = attempt
      BY DEF RequestCancellation
    <3>2. Over(w)'
      BY <2>1, <3>1
    <3> QED BY <1>3, <1>4, <2>1, <2>4, <3>2
  <2> QED BY <2>3, <2>4
<1> QED BY <1>5, <1>6 DEF ClosedInv

(* A step that writes no row of the kind keeps what it finds.              *)
LEMMA StillCloses ==
    ASSUME SoleInv, ClosedInv, Steady,
           UNCHANGED <<proc, trialState, workState, planState, runStatus, cancelRequested>>
    PROVE  ClosedInv'
<1>1. \A w \in Work : Over(w)' => Done(w)'
  BY DEF ClosedInv, Over, Done
<1>2. ASSUME NEW q \in Procs PROVE RetryDuty(proc[q])'
  <2> SUFFICES ASSUME proc[q].pc \in Retrying, Over(attempt[proc[q].cur].work)'
               PROVE  cancelRequested[RunOf(attempt'[proc[q].cur].work)]
    BY DEF RetryDuty
  <2>1. PICK w \in Work : w = attempt[proc[q].cur].work
    BY RetriesHold
  <2>2. attempt'[proc[q].cur].work = w
    BY <2>1, RetriesHold DEF Steady, AttemptKept, SameIdentity
  <2>3. Over(w)
    BY <2>2 DEF Over
  <2> QED BY <2>1, <2>2, <2>3 DEF ClosedInv, RetryDuty
<1> QED BY <1>1, <1>2 DEF ClosedInv

(* Every step but a crash and a cancellation of a single trial.            *)
LEMMA ClosedStep ==
    ASSUME SoleDispatcher, \A p \in Procs : "cancel_trial" \notin Commands[p], SoleInv, SoleInv',
           AgreeInv, AgreeInv', ClosedInv, [Next]_vars, \A p \in Procs : ~Crash(p)
    PROVE  ClosedInv'
<1>1. CASE (Tick /\ UNCHANGED procVars) \/ UNCHANGED vars
  <2>1. Outside
    BY <1>1, OthersOutside
  <2>2. UNCHANGED <<proc, trialState, workState, planState, runStatus, cancelRequested>>
    BY <1>1 DEF Tick, procVars, vars, storeVars
  <2> QED BY <2>1, <2>2, StillCloses DEF Outside
<1>2. CASE \E a \in AttemptIds : WorkerStep(a) \/ JobFinishes(a)
  BY <1>2, WorkersOutside, StillCloses DEF Outside
<1>3. ASSUME NEW p \in Procs, Cancel(p) PROVE ClosedInv'
  <2>1. RequestCancellation(RunServed[p], WorkOfRun(RunServed[p]), TRUE) /\ UNCHANGED proc
    BY <1>3 DEF Cancel, SoleDispatcher
  <2>2. RunServed[p] \in Runs
    BY SchedulerConstants
  <2> QED BY <2>1, <2>2, CancelCloses
<1>4. CASE \E p \in Procs : ProcStep(p) /\ ~Cancel(p)
  BY <1>4, ProcCloses
<1> QED BY <1>1, <1>2, <1>3, <1>4 DEF Next, ProcStep

(* Initially no run is over and no plan closed.                            *)
LEMMA ClosedInit == Init => ClosedInv
BY StoreConstants DEF Init, ClosedInv, Over, RunTerminal, RunOf, RetryDuty, Retrying, IdleProc

(* While the machine stays up and nobody cancels a single trial, a run     *)
(* that reads completed or cancelled and a closed plan have no work item   *)
(* that could still run: no retry queues again what they count as done.    *)
THEOREM ClosedRunsAreDone ==
    ASSUME SoleDispatcher, MaxCrashes = 0, \A p \in Procs : "cancel_trial" \notin Commands[p]
    PROVE  Spec => []ClosedMeansTerminal
<1>1. SoleInv /\ AgreeInv /\ [Next]_vars => AgreeInv'
  BY AgreeStep, NoCrash DEF SoleInv, SchedulerInv
<1>2. SoleInv /\ SoleInv' /\ AgreeInv /\ AgreeInv' /\ ClosedInv /\ [Next]_vars => ClosedInv'
  BY ClosedStep, NoCrash DEF SoleInv, SchedulerInv
<1>3. ClosedInv => ClosedMeansTerminal
  BY StoreConstants DEF ClosedInv, ClosedMeansTerminal, AllTerminal, WorkOfRun, WorkOfPlan, Over, Done
<1> QED BY <1>1, <1>2, <1>3, AgreeInit, ClosedInit, SoleHolds, PTL DEF Spec

-----------------------------------------------------------------------------
(* Crashes or not: the work a reconciliation has still to ask about is     *)
(* unknown, and so is the work of the attempt it settles until that is     *)
(* written.                                                                *)
Listed(r) ==
    /\ r.pc \in Asking => \A w \in r.todo : w \in Work /\ workState[w] = "unknown"
    /\ r.pc \in Settling => attempt[r.cur].work \notin r.todo
    /\ r.pc \in {"settle_attempt", "settle_trial", "settle_work"} => WorkStateOf(r.cur) = "unknown"

ListedInv == \A p \in Procs : Listed(proc[p])

(* Elsewhere there is nothing to know.                                     *)
LEMMA Unlisted == ASSUME NEW n, n.pc \notin Asking PROVE Listed(n) /\ Listed(n)'
BY DEF Listed, Asking, Settling

(* The invariant after a step of p, when every other process is idle.      *)
LEMMA ListedAfter ==
    ASSUME SoleDispatcher, SoleInv', NEW p \in Procs, NEW r, Ours(p, r), NEW n, n = proc'[p], Listed(n)'
    PROVE  ListedInv'
<1>1. ASSUME NEW q \in Procs PROVE Listed(proc[q])'
  <2>1. CASE q = p
    BY <2>1 DEF Listed, WorkStateOf
  <2>2. CASE q # p
    <3>1. PICK m : m = proc'[q]
      OBVIOUS
    <3>2. m.pc = "idle"
      BY <2>2, <3>1 DEF SoleInv, DutyInv, SoleDispatcher, Ours
    <3>3. Listed(m)'
      BY <3>2, Unlisted DEF Asking, Settling
    <3> QED BY <3>1, <3>3 DEF Listed, WorkStateOf
  <2> QED BY <2>1, <2>2
<1> QED BY <1>1 DEF ListedInv

(* A dispatch leads to no such label.                                      *)
LEMMA DispatchLists ==
    ASSUME SoleInv, NEW p \in Procs, NEW r, Ours(p, r), Dispatch(p) PROVE proc'[p].pc \notin Asking
<1> SUFFICES ASSUME proc'[p].pc \in Asking PROVE FALSE
  OBVIOUS
<1>1. WriteWork(p) \/ RetryCheck(p)
  BY DispatchEnters
<1>2. PICK x \in {"complete", "retry", "requeue", "release"} : Goto(p, x)
  BY <1>1 DEF WriteWork, RetryCheck
<1>3. PICK n : Moved(p, r, n, x)
  BY <1>2, GotoMoved
<1> QED BY <1>2, <1>3 DEF Moved, Asking, Settling

(* Neither do the commands and a crash.                                    *)
LEMMA CommandsList ==
    ASSUME SoleInv, NEW p \in Procs, NEW r, Ours(p, r), StartRun(p) \/ ResumeRun(p) \/ Crash(p)
    PROVE  proc'[p].pc \notin Asking
<1>1. r = proc[p] /\ r \in ProcRecords /\ proc \in [Procs -> ProcRecords]
  BY DEF Ours, SoleInv, SchedulerInv, SchedulerTypeOK
<1>2. PICK i : i = IdleProc
  OBVIOUS
<1>3. CASE Crash(p)
  <2>1. i.pc = "idle" /\ proc'[p] = i
    BY <1>1, <1>2, <1>3 DEF Crash, Quit, IdleProc
  <2> QED BY <2>1 DEF Asking, Settling
<1>4. CASE StartRun(p)
  <2>1. PICK n : n = BeginDispatch(p, [IdleProc EXCEPT !.now = clock])
    OBVIOUS
  <2>2. n.pc = "lease"
    BY <2>1 DEF BeginDispatch, IdleProc
  <2>3. proc'[p] = n
    BY <1>1, <1>4, <2>1 DEF StartRun
  <2> QED BY <2>2, <2>3 DEF Asking, Settling
<1>5. CASE ResumeRun(p)
  <2>1. proc'[p].pc = "unknown_list"
    BY <1>1, <1>5 DEF ResumeRun, ProcRecords
  <2> QED BY <2>1 DEF Asking, Settling
<1> QED BY <1>3, <1>4, <1>5

(* A reconciliation writes the work of the attempt it settles, no other.   *)
LEMMA SettlingLists ==
    ASSUME SoleInv, ListedInv, NEW p \in Procs, NEW r, Ours(p, r), r.pc \in Settling, Steady,
           \A w \in Work : w # attempt[r.cur].work => workState'[w] = workState[w],
           NEW n, n.todo = r.todo, n.pc \in Settling => n.cur = r.cur,
           n.pc \in {"settle_attempt", "settle_trial", "settle_work"} =>
              workState'[attempt[r.cur].work] = "unknown"
    PROVE  Listed(n)'
<1>1. r.pc \in Holding /\ r.pc \in Asking /\ r = proc[p]
  BY DEF Holding, Asking, Ours
<1>2. PICK c \in AttemptIds : c = r.cur
  BY <1>1, InHand DEF SoleInv, Cur
<1>3. attempt'[c].work = attempt[c].work
  BY DEF Steady, AttemptKept, SameIdentity
<1>4. Listed(r)
  BY <1>1 DEF ListedInv
<1>5. \A w \in r.todo : w \in Work /\ workState[w] = "unknown" /\ w # attempt[c].work
  BY <1>1, <1>2, <1>4 DEF Listed
<1>6. \A w \in n.todo : w \in Work /\ workState'[w] = "unknown"
  BY <1>2, <1>5
<1>7. n.pc \in Settling => attempt'[n.cur].work \notin n.todo
  BY <1>2, <1>3, <1>5
<1>8. n.pc \in {"settle_attempt", "settle_trial", "settle_work"} => WorkStateOf(n.cur)' = "unknown"
  BY <1>2, <1>3 DEF WorkStateOf, Settling
<1> QED BY <1>6, <1>7, <1>8 DEF Listed

(* Every step of a settlement is of this kind.                             *)
LEMMA SettlementLists ==
    ASSUME SoleInv, ListedInv, NEW p \in Procs, NEW r, Ours(p, r),
           SettleAttempt(p) \/ SettleTrial(p) \/ SettleWork(p) \/ SettleRetry(p) \/ SettleRequeue(p)
           \/ SettlePlan(p)
    PROVE  \E n : n = proc'[p] /\ Listed(n)'
<1>1. /\ r.pc \in {"settle_attempt", "settle_trial", "settle_work", "settle_retry", "settle_requeue",
                   "settle_plan"}
      /\ r.pc \in Settling
  BY DEF SettleAttempt, SettleTrial, SettleWork, SettleRetry, SettleRequeue, SettlePlan, At, Ours, Settling
<1>2. r = proc[p] /\ r \in ProcRecords /\ Listed(r)
  BY DEF Ours, ListedInv
<1>3. PICK w \in Work : w = attempt[r.cur].work /\ w = CurWork(p)
  BY <1>1, <1>2, InHand DEF SoleInv, Holding, CurWork, Cur
<1>4. Steady
  BY SettleMoves, PutDownMoves, QuietSteady DEF SoleInv
<1>5. workState \in [Work -> WorkStates \cup {"absent"}]
  BY DEF SoleInv, SchedulerInv, SchedulerTypeOK, StoreTypeOK
<1>6. \A v \in Work : v # w => workState'[v] = workState[v]
  BY <1>3, <1>5 DEF SettleAttempt, SettleTrial, SettleWork, SettleRetry, SettleRequeue, SettlePlan,
     TransitionAttempt, UpdatePlannedTrial, UpdateWorkItem, ScheduleRetry, CompletePlanIfTerminal,
     NoStoreCall, storeVars
<1>7. ASSUME NEW x, Goto(p, x), x \in {"settle_trial", "settle_work"} => workState'[w] = "unknown",
             x # "settle_attempt"
      PROVE  \E n : n = proc'[p] /\ Listed(n)'
  <2>1. PICK n : Relabelled(p, r, n, x)
    BY <1>7, GotoRelabels
  <2>2. n = proc'[p] /\ n.pc = x /\ n.cur = r.cur /\ n.todo = r.todo
    BY <2>1, Lands DEF Relabelled
  <2> QED BY <1>1, <1>3, <1>4, <1>6, <1>7, <2>2, SettlingLists
<1>8. ASSUME proc' = [proc EXCEPT ![p].pc = "reconcile", ![p].cur = None, ![p].res = NoResult]
      PROVE  \E n : n = proc'[p] /\ Listed(n)'
  <2>1. PICK n : n = [r EXCEPT !.pc = "reconcile", !.cur = None, !.res = NoResult]
    OBVIOUS
  <2>2. n.pc = "reconcile" /\ n.todo = r.todo
    BY <1>2, <2>1 DEF ProcRecords
  <2>3. n = proc'[p]
    <3>1. proc' = [proc EXCEPT ![p] = n]
      BY <1>2, <1>8, <2>1
    <3> QED BY <3>1, Lands
  <2>4. n.pc \notin Settling
    BY <2>2 DEF Settling
  <2> QED BY <1>1, <1>3, <1>4, <1>6, <2>2, <2>3, <2>4, SettlingLists
<1>9. ASSUME Quit(p) PROVE \E n : n = proc'[p] /\ Listed(n)'
  <2>1. PICK n : n = IdleProc
    OBVIOUS
  <2>2. n.pc = "idle" /\ n = proc'[p]
    BY <1>9, <2>1, Lands DEF Quit, IdleProc
  <2> QED BY <2>2, Unlisted DEF Asking, Settling
<1>10. CASE SettleAttempt(p) \/ SettleTrial(p)
  <2>1. workState'[w] = "unknown"
    BY <1>2, <1>3, <1>10 DEF SettleAttempt, SettleTrial, At, TransitionAttempt, UpdatePlannedTrial,
       Listed, WorkStateOf
  <2> QED BY <1>7, <1>10, <2>1 DEF SettleAttempt, SettleTrial
<1>11. CASE SettleWork(p) \/ SettleRetry(p)
  <2>1. PICK x \in {"settle_retry", "settle_requeue", "settle_plan"} : Goto(p, x)
    BY <1>11 DEF SettleWork, SettleRetry
  <2> QED BY <1>7, <2>1
<1>12. CASE SettleRequeue(p) \/ SettlePlan(p)
  BY <1>8, <1>9, <1>12 DEF SettleRequeue, SettlePlan
<1> QED BY <1>10, <1>11, <1>12

(* Listing the unknown work, asking for one item, and the end.             *)
LEMMA ListingLists ==
    ASSUME SoleInv, ListedInv, NEW p \in Procs, NEW r, Ours(p, r),
           UnknownList(p) \/ ReconcileItem(p) \/ ReconcileEnd(p)
    PROVE  \E n : n = proc'[p] /\ Listed(n)'
<1>1. r = proc[p] /\ r \in ProcRecords /\ Listed(r)
  BY DEF Ours, ListedInv
<1>2. Steady /\ UNCHANGED workState
  <2>1. UNCHANGED workState
    BY DEF UnknownList, ReconcileItem, ReconcileEnd, WriteOutcome, NoStoreCall, storeVars
  <2> QED BY <2>1, ReconcileMoves, QuietSteady DEF SoleInv
<1>3. CASE UnknownList(p)
  <2>1. PICK T : T = {w \in WorkOfRun(RunServed[p]) : workState[w] = "unknown"}
    OBVIOUS
  <2>2. PICK n : n = [r EXCEPT !.pc = "reconcile", !.todo = T]
    OBVIOUS
  <2>3. n.pc = "reconcile" /\ n.todo = T
    BY <1>1, <2>2 DEF ProcRecords
  <2>4. n = proc'[p]
    <3>1. proc' = [proc EXCEPT ![p] = n]
      BY <1>1, <1>3, <2>1, <2>2 DEF UnknownList
    <3> QED BY <3>1, Lands
  <2>5. \A w \in T : w \in Work /\ workState'[w] = "unknown"
    BY <1>2, <2>1 DEF WorkOfRun
  <2> QED BY <2>3, <2>4, <2>5 DEF Listed, Settling
<1>4. CASE ReconcileItem(p)
  <2>1. r.pc = "reconcile" /\ r.pc \in Asking
    BY <1>1, <1>4 DEF ReconcileItem, At, Asking
  <2>2. PICK w \in r.todo :
          \/ proc' = [proc EXCEPT ![p].todo = @ \ {w}] /\ NoStoreCall
          \/ \E a \in AttemptIds :
                /\ IsLatestAttempt(a, w)
                /\ HasBackend /\ submission[a].state # "absent"
                /\ \E res \in Reconciled(a) :
                      /\ WriteOutcome(a, res.state, None, None,
                                      IF res.state = "succeeded" THEN "completed" ELSE "failed")
                      /\ proc' = [proc EXCEPT ![p].todo = @ \ {w}, ![p].cur = a, ![p].res = res,
                                              ![p].pc = "settle_attempt"]
    BY <1>1, <1>4 DEF ReconcileItem
  <2>3. \A v \in r.todo : v \in Work /\ workState[v] = "unknown" /\ workState'[v] = "unknown"
    BY <1>1, <1>2, <2>1 DEF Listed
  <2>4. CASE proc' = [proc EXCEPT ![p].todo = @ \ {w}]
    <3>1. PICK n : n = [r EXCEPT !.todo = r.todo \ {w}]
      OBVIOUS
    <3>2. n.pc = "reconcile" /\ n.todo = r.todo \ {w}
      BY <1>1, <2>1, <3>1 DEF ProcRecords
    <3>3. n = proc'[p]
      <4>1. proc' = [proc EXCEPT ![p] = n]
        BY <1>1, <2>4, <3>1
      <4> QED BY <4>1, Lands
    <3> QED BY <2>3, <3>2, <3>3 DEF Listed, Settling
  <2>5. ASSUME NEW a \in AttemptIds, IsLatestAttempt(a, w), NEW res,
               proc' = [proc EXCEPT ![p].todo = @ \ {w}, ![p].cur = a, ![p].res = res,
                                    ![p].pc = "settle_attempt"]
        PROVE  \E n : n = proc'[p] /\ Listed(n)'
    <3>1. PICK n : n = [r EXCEPT !.todo = r.todo \ {w}, !.cur = a, !.res = res, !.pc = "settle_attempt"]
      OBVIOUS
    <3>2. n.pc = "settle_attempt" /\ n.todo = r.todo \ {w} /\ n.cur = a
      BY <1>1, <3>1 DEF ProcRecords
    <3>3. n = proc'[p]
      <4>1. proc' = [proc EXCEPT ![p] = n]
        BY <1>1, <2>5, <3>1
      <4> QED BY <4>1, Lands
    <3>4. attempt'[a].work = w
      BY <1>2, <2>5 DEF IsLatestAttempt, AttemptsOf, Steady, AttemptKept, SameIdentity
    <3> QED BY <2>3, <3>2, <3>3, <3>4 DEF Listed, WorkStateOf
  <2>6. CASE proc' # [proc EXCEPT ![p].todo = @ \ {w}]
    <3>1. PICK a \in AttemptIds :
             /\ IsLatestAttempt(a, w)
             /\ \E res \in Reconciled(a) :
                   proc' = [proc EXCEPT ![p].todo = @ \ {w}, ![p].cur = a, ![p].res = res,
                                        ![p].pc = "settle_attempt"]
      BY <2>2, <2>6
    <3> QED BY <2>5, <3>1
  <2> QED BY <2>4, <2>6
<1>5. CASE ReconcileEnd(p)
  <2>1. PICK n : proc' = [proc EXCEPT ![p] = n] /\ n.pc \in {"idle", "lease"}
    <3>1. CASE Quit(p)
      <4>1. PICK n : n = IdleProc
        OBVIOUS
      <4>2. n.pc = "idle"
        BY <4>1 DEF IdleProc
      <4> QED BY <3>1, <4>1, <4>2 DEF Quit
    <3>2. CASE proc' = [proc EXCEPT ![p] = BeginDispatch(p, r)]
      <4>1. BeginDispatch(p, r).pc = "lease"
        BY <1>1 DEF BeginDispatch, ProcRecords
      <4> QED BY <3>2, <4>1
    <3> QED BY <1>1, <1>5, <3>1, <3>2 DEF ReconcileEnd
  <2> QED BY <2>1, Lands, Unlisted DEF Asking, Settling
<1> QED BY <1>3, <1>4, <1>5

(* Steps outside the dispatching process leave unknown work unknown.       *)
LEMMA OutsideLists == ASSUME SoleInv, ListedInv, Outside PROVE ListedInv'
<1> SUFFICES ASSUME NEW q \in Procs PROVE Listed(proc[q])'
  BY DEF ListedInv
<1>1. PICK r : r = proc[q]
  OBVIOUS
<1>2. r = proc'[q] /\ Listed(r)
  BY <1>1 DEF Outside, ListedInv
<1>3. \A w \in Work : workState[w] = "unknown" => workState'[w] = "unknown"
  BY DEF Outside, Drifts
<1>4. ASSUME r.pc \in Settling
      PROVE  r.cur \in AttemptIds /\ attempt[r.cur].work \in Work /\ attempt'[r.cur].work = attempt[r.cur].work
  <2>1. r.cur \in AttemptIds /\ attempt[r.cur].work \in Work
    BY <1>1, <1>4, InHand DEF SoleInv, Holding, Cur, CurWork
  <2> QED BY <2>1 DEF Outside, Steady, AttemptKept, SameIdentity
<1>5. Listed(r)'
  BY <1>2, <1>3, <1>4 DEF Listed, WorkStateOf, Settling
<1> QED BY <1>2, <1>5 DEF Listed, WorkStateOf

(* Every step keeps the invariant.                                         *)
LEMMA ListedStep ==
    ASSUME SoleDispatcher, SoleInv, SoleInv', ListedInv, [Next]_vars PROVE ListedInv'
<1>1. CASE (Tick /\ UNCHANGED procVars) \/ UNCHANGED vars \/ \E p \in Procs : Cancel(p)
  BY <1>1, OthersOutside, OutsideLists
<1>2. CASE \E a \in AttemptIds : WorkerStep(a) \/ JobFinishes(a)
  BY <1>2, WorkersOutside, OutsideLists
<1>3. ASSUME NEW p \in Procs, ProcStep(p), ~Cancel(p) PROVE ListedInv'
  <2>1. PICK r : Ours(p, r)
    BY <1>3, OursExists
  <2>2. ~CancelActive(p)
    BY <2>1, NeverTaken
  <2>3. CASE proc'[p].pc \notin Asking
    <3>1. PICK n : n = proc'[p]
      OBVIOUS
    <3> QED BY <2>1, <2>3, <3>1, Unlisted, ListedAfter
  <2>4. CASE Reconcile(p)
    <3>1. PICK n : n = proc'[p] /\ Listed(n)'
      BY <2>1, <2>4, ListingLists, SettlementLists DEF Reconcile
    <3> QED BY <2>1, <3>1, ListedAfter
  <2> QED BY <1>3, <2>1, <2>2, <2>3, <2>4, DispatchLists, CommandsList DEF ProcStep, Command
<1> QED BY <1>1, <1>2, <1>3 DEF Next, ProcStep

(* Initially every process is idle.                                        *)
LEMMA ListedInit == Init => ListedInv
<1> SUFFICES ASSUME Init, NEW p \in Procs PROVE Listed(proc[p])
  BY DEF ListedInv
<1>1. PICK n : n = IdleProc
  OBVIOUS
<1>2. n.pc = "idle" /\ proc[p] = n
  BY <1>1 DEF Init, IdleProc
<1> QED BY <1>2, Unlisted DEF Asking, Settling

-----------------------------------------------------------------------------
(* What a cancellation ends: a settlement writes unknown work or queues a  *)
(* retry that the flag of the run would refuse, ...                        *)
LEMMA ReconcileLeavesSettled ==
    ASSUME SoleInv, ListedInv, NEW p \in Procs, NEW r, Ours(p, r), Reconcile(p),
           NEW w \in Work, workState[w] \in Terminal
    PROVE  workState'[w] = workState[w] \/ Retried(w)
<1>1. r = proc[p] /\ Listed(r) /\ workState \in [Work -> WorkStates \cup {"absent"}]
  BY DEF Ours, ListedInv, SoleInv, SchedulerInv, SchedulerTypeOK, StoreTypeOK
<1>2. CASE UNCHANGED workState
  BY <1>2
<1>3. CASE SettleWork(p)
  <2>1. UpdateWorkItem(CurWork(p), r.res.state) /\ workState[CurWork(p)] = "unknown"
    BY <1>1, <1>3 DEF SettleWork, At, Listed, WorkStateOf, CurWork, Cur
  <2>2. w # CurWork(p)
    BY <2>1 DEF Terminal
  <2> QED BY <1>1, <2>1, <2>2 DEF UpdateWorkItem
<1>4. CASE SettleRequeue(p)
  <2>1. ASSUME NEW t, ScheduleRetry(CurWork(p), t) PROVE workState'[w] = workState[w] \/ Retried(w)
    BY <1>1, <2>1 DEF ScheduleRetry, RetryAllowed, Retried, Terminal
  <2> QED BY <1>4, <2>1 DEF SettleRequeue, NoStoreCall, storeVars
<1>5. SettleWork(p) \/ SettleRequeue(p) \/ UNCHANGED workState
  BY DEF Reconcile, UnknownList, ReconcileItem, SettleAttempt, SettleTrial, SettleRetry, SettlePlan,
     ReconcileEnd, NoStoreCall, storeVars, WriteOutcome, TransitionAttempt, UpdatePlannedTrial,
     CompletePlanIfTerminal
<1> QED BY <1>2, <1>3, <1>4, <1>5

(* ... the steps of a process start no job, ...                            *)
LEMMA ProcStartsNone ==
    ASSUME SoleInv, NEW p \in Procs, NEW r, Ours(p, r), ProcStep(p) PROVE UNCHANGED job
<1>1. ~CancelActive(p)
  BY NeverTaken
<1>2. Dispatch(p) => UNCHANGED job
  BY DEF Dispatch, LeaseOne, LeaseNone, LeaseRefused, ListRuns, MarkRun, MarkPlan, CreateNext,
     CreateRefused, WorkRunning, TrialRunning, AttemptRunning, Wake, HandleDone, ReleaseQuietly,
     WriteAttempt, WriteTrial, WriteWork, RetryCheck, Requeue, RequeueRefused, Abort, Release,
     ReleaseRefused, UnknownTrial, UnknownWork, CompletePlan, HandleEnd, Renew, RenewEnd, OnlyProc
<1>3. Reconcile(p) => UNCHANGED job
  BY DEF Reconcile, UnknownList, ReconcileItem, SettleAttempt, SettleTrial, SettleWork, SettleRetry,
     SettleRequeue, SettlePlan, ReconcileEnd, OnlyProc
<1>4. Command(p) \/ Crash(p) => UNCHANGED job
  BY DEF Command, StartRun, ResumeRun, Cancel, Crash, OnlyProc
<1> QED BY <1>1, <1>2, <1>3, <1>4 DEF ProcStep, Command

(* ... and a worker starts one only while its work is running.             *)
LEMMA StartsWhileRunning ==
    ASSUME SoleInv, NEW a \in AttemptIds, WorkerStep(a) \/ JobFinishes(a), NEW b \in AttemptIds,
           job[b] = "none", job'[b] # "none"
    PROVE  WorkStateOf(b) \in {"running", "cancel_requested"}
<1>1. worker[b] = "recorded"
  BY WorkerAdvances DEF Advances
<1>2. PICK p \in Procs : b \in proc[p].pend
  BY <1>1 DEF SoleInv, JobInv, Alive
<1>3. b \in Busy(proc[p]) /\ BusyDuty(proc[p])
  BY <1>2 DEF Busy, SoleInv, DutyInv, Duty
<1> QED BY <1>3 DEF BusyDuty

(* Cancellation is final, whatever crashes, expires or is recorded late:   *)
(* work that is cancelled before it ran stays so and starts no job, and    *)
(* what has ended in a cancelled run stays as it ended.                    *)
THEOREM CancelledStaysCancelled == ASSUME SoleDispatcher PROVE Spec => CancellationIsFinal
<1>1. SoleInv /\ ListedInv /\ [Next]_vars => [CancelStep]_vars
  <2> SUFFICES ASSUME SoleInv, ListedInv, [Next]_vars PROVE CancelStep
    OBVIOUS
  <2> DEFINE Keeps == \A w \in Work : workState[w] \in Terminal => workState'[w] = workState[w] \/ Retried(w)
  <2>1. ASSUME Keeps, NEW w \in Work, CancelledWork(w) \/ EndedInCancelledRun(w)
        PROVE  workState'[w] = workState[w]
    BY <2>1 DEF CancelledWork, EndedInCancelledRun, Retried, Terminal
  <2>2. ASSUME Keeps, UNCHANGED job PROVE CancelStep
    BY <2>1, <2>2 DEF CancelStep
  <2>3. CASE (Tick /\ UNCHANGED procVars) \/ UNCHANGED vars \/ \E p \in Procs : Cancel(p)
    <3>1. UNCHANGED job /\ \A w \in Work : Drifts(w)
      BY <2>3, OutsideDrifts
    <3>2. Keeps
      BY <3>1 DEF Drifts, Terminal
    <3> QED BY <2>2, <3>1, <3>2
  <2>4. ASSUME NEW a \in AttemptIds, WorkerStep(a) \/ JobFinishes(a) PROVE CancelStep
    <3>1. UNCHANGED workState
      BY <2>4, WorkerWrites
    <3>2. ASSUME NEW b \in AttemptIds, job[b] = "none", job'[b] # "none"
          PROVE  ~CancelledWork(attempt[b].work) /\ ~EndedInCancelledRun(attempt[b].work)
      BY <2>4, <3>2, StartsWhileRunning DEF WorkStateOf, CancelledWork, EndedInCancelledRun, Terminal
    <3> QED BY <3>1, <3>2 DEF CancelStep
  <2>5. ASSUME NEW p \in Procs, ProcStep(p), ~Cancel(p) PROVE CancelStep
    <3>1. PICK r : Ours(p, r)
      BY <2>5, OursExists
    <3>2. UNCHANGED job
      BY <2>5, <3>1, ProcStartsNone
    <3>3. CASE Dispatch(p)
      <4>1. Keeps
        BY <3>1, <3>3, DispatchLeavesSettled DEF StaysSettled
      <4> QED BY <2>2, <3>2, <4>1
    <3>4. CASE Reconcile(p)
      <4>1. Keeps
        BY <3>1, <3>4, ReconcileLeavesSettled
      <4> QED BY <2>2, <3>2, <4>1
    <3>5. CASE StartRun(p) \/ Crash(p)
      <4>1. Keeps
        BY <3>5 DEF StartRun, Crash, NoStoreCall, storeVars
      <4> QED BY <2>2, <3>2, <4>1
    <3>6. CASE ResumeRun(p)
      <4>1. PICK D : workState' = ExpiredWork(D)
        BY <3>6 DEF ResumeRun, ExpireLeases
      <4>2. Keeps
        BY <4>1, ExpiryLeavesSettled
      <4> QED BY <2>2, <3>2, <4>2
    <3>7. ~CancelActive(p)
      BY <3>1, NeverTaken
    <3> QED BY <2>5, <3>3, <3>4, <3>5, <3>6, <3>7 DEF ProcStep, Command
  <2> QED BY <2>3, <2>4, <2>5 DEF Next, ProcStep
<1>2. SoleInv /\ SoleInv' /\ ListedInv /\ [Next]_vars => ListedInv'
  BY ListedStep
<1> QED BY <1>1, <1>2, ListedInit, SoleHolds, PTL DEF Spec, CancellationIsFinal
=============================================================================
