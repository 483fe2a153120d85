------------------------ MODULE LocalSchedulerProofs ------------------------
(***************************************************************************)
(* Theorems about LocalScheduler for any runs, plans, work items and       *)
(* limits and any number of processes that start, resume and cancel.       *)
(***************************************************************************)
EXTENDS LocalScheduler, OperationalStoreProofs, FiniteSetTheorems

Labels == {"idle", "lease", "batch", "run_running", "plan_started", "create", "work_running",
           "trial_running", "attempt_running", "wait", "handle", "renew", "release_quietly",
           "write_attempt", "write_trial", "write_work", "retry", "requeue", "abort", "release",
           "unknown_trial", "unknown_work", "complete", "unknown_list", "reconcile",
           "settle_attempt", "settle_trial", "settle_work", "settle_retry", "settle_requeue",
           "settle_plan", "cancel_list", "cancel", "cancel_attempt", "cancel_work", "cancel_trial",
           "cancel_complete", "cancel_release"}
Outcomes == {"succeeded", "failed", "cancelled", "unknown"}
Results == [state : Outcomes \cup {None}, failure : Failures \cup {None},
            recon : Reconciliations \cup {None}, retry : BOOLEAN]
Todos == SUBSET (Runs \cup Plans \cup Work \cup AttemptIds)
Currents == AttemptIds \cup {None}
AttemptSets == SUBSET AttemptIds
LeaseSets == SUBSET LeaseIds
ProcRecords ==
    [pc : Labels, now : Nat, ready : BOOLEAN, beat : Nat, batch : LeaseSets, todo : Todos,
     cur : Currents, pend : AttemptSets, done : AttemptSets, lost : LeaseSets, res : Results]

(* Rows, processes, workers and jobs have their types.                     *)
SchedulerTypeOK ==
    /\ StoreTypeOK
    /\ proc \in [Procs -> ProcRecords]
    /\ worker \in [AttemptIds -> WorkerStates]
    /\ job \in [AttemptIds -> JobStates]
    /\ started \in [Runs -> BOOLEAN]
    /\ crashes \in 0 .. MaxCrashes

-----------------------------------------------------------------------------
(* What one step may do to the store, whoever takes it: one call, with     *)
(* values of the right types, or the merged writes of WriteOutcome and     *)
(* WorkerBinds.  Only LeaseCall grants a lease and only InsertCall inserts *)
(* an attempt.                                                             *)
LeaseCall == \E l \in LeaseIds, w \in Work, t \in Nat : LeaseNextWorkItem(l, w, Owner, t)

InsertCall ==
    \E a \in AttemptIds, w \in Work, k \in Nat, l \in LeaseIds, t \in Nat :
        CreateAttemptForLease(a, w, 1, k, l, t)

QuietCall ==
    \/ \E r : UpdateRun(r, "running")
    \/ \E q : UpdatePlan(q, "started")
    \/ \E w \in Work, s \in TrialStates : UpdatePlannedTrial(w, s)
    \/ \E w \in Work, s \in WorkStates : UpdateWorkItem(w, s)
    \/ \E r, W, whole : whole \in BOOLEAN /\ RequestCancellation(r, W, whole)
    \/ \E q \in Plans : CompletePlanIfTerminal(q)
    \/ \E w \in Work, t \in Nat : ScheduleRetry(w, t)
    \/ \E W, t : ExpireLeases(W, t)
    \/ \E l \in LeaseIds, t \in Nat : RenewLease(l, Owner, t)
    \/ \E l \in LeaseIds : ReleaseLease(l, Owner)
    \/ \E a \in AttemptIds, s \in AttemptStates, f \in Failures \cup {None},
          rc \in Reconciliations \cup {None} : TransitionAttempt(a, s, f, rc)
    \/ \E a \in AttemptIds, s \in AttemptStates, f \in Failures \cup {None},
          rc \in Reconciliations \cup {None}, sub \in SubmissionStates :
             attempt[a].state # "absent" /\ WriteOutcome(a, s, f, rc, sub)
    \/ \E a \in AttemptIds : RecordBackendSubmission(a, None)
    \/ \E a \in AttemptIds : WorkerBinds(a)
    \/ Tick
    \/ UNCHANGED storeVars

StoreCall == QuietCall \/ LeaseCall \/ InsertCall

(* A store call keeps the types of the rows.                               *)
LEMMA CallTypes == ASSUME StoreTypeOK, StoreCall PROVE StoreTypeOK'
<1>1. ASSUME NEW r, UpdateRun(r, "running") PROVE StoreTypeOK'
  BY <1>1 DEF StoreTypeOK, UpdateRun, RunStatuses
<1>2. ASSUME NEW q, UpdatePlan(q, "started") PROVE StoreTypeOK'
  BY <1>2 DEF StoreTypeOK, UpdatePlan, PlanStates
<1>3. ASSUME NEW w \in Work, NEW s \in TrialStates, UpdatePlannedTrial(w, s) PROVE StoreTypeOK'
  BY <1>3 DEF StoreTypeOK, UpdatePlannedTrial
<1>4. ASSUME NEW w \in Work, NEW s \in WorkStates, UpdateWorkItem(w, s) PROVE StoreTypeOK'
  BY <1>4 DEF StoreTypeOK, UpdateWorkItem
<1>5. ASSUME NEW r, NEW W, NEW whole \in BOOLEAN, RequestCancellation(r, W, whole)
      PROVE  StoreTypeOK'
  <2>1. trialState' \in [Work -> TrialStates \cup {"absent"}]
    BY <1>5 DEF StoreTypeOK, RequestCancellation, TrialStates
  <2>2. workState' \in [Work -> WorkStates \cup {"absent"}]
    BY <1>5 DEF StoreTypeOK, RequestCancellation, WorkStates, TrialStates
  <2>3. planState' \in [Plans -> PlanStates \cup {"absent"}]
    BY <1>5 DEF StoreTypeOK, RequestCancellation, PlanStates
  <2>4. runStatus' \in [Runs -> RunStatuses \cup {"absent"}]
    BY <1>5 DEF StoreTypeOK, RequestCancellation, RunStatuses
  <2>5. cancelRequested' \in [Runs -> BOOLEAN]
    BY <1>5 DEF StoreTypeOK, RequestCancellation
  <2> QED BY <1>5, <2>1, <2>2, <2>3, <2>4, <2>5 DEF StoreTypeOK, RequestCancellation
<1>6. ASSUME NEW q \in Plans, CompletePlanIfTerminal(q) PROVE StoreTypeOK'
  <2>1. planState' \in [Plans -> PlanStates \cup {"absent"}]
    BY <1>6 DEF StoreTypeOK, CompletePlanIfTerminal, PlanStates
  <2>2. runStatus' \in [Runs -> RunStatuses \cup {"absent"}]
    BY <1>6 DEF StoreTypeOK, CompletePlanIfTerminal, RunStatuses
  <2> QED BY <1>6, <2>1, <2>2 DEF StoreTypeOK, CompletePlanIfTerminal
<1>7. ASSUME NEW w \in Work, NEW t \in Nat, ScheduleRetry(w, t) PROVE StoreTypeOK'
  <2>1. workState' \in [Work -> WorkStates \cup {"absent"}]
    <3>1. "queued" \in WorkStates
      BY DEF WorkStates, TrialStates
    <3>2. workState' = workState \/ workState' = [workState EXCEPT ![w] = "queued"]
      BY <1>7 DEF ScheduleRetry
    <3> QED BY <3>1, <3>2 DEF StoreTypeOK
  <2>2. availableAt' \in [Work -> Nat]
    <3>1. availableAt' = availableAt \/ availableAt' = [availableAt EXCEPT ![w] = t]
      BY <1>7 DEF ScheduleRetry
    <3> QED BY <3>1 DEF StoreTypeOK
  <2>3. trialState' \in [Work -> TrialStates \cup {"absent"}]
    BY <1>7 DEF StoreTypeOK, ScheduleRetry, TrialStates
  <2> QED BY <1>7, <2>1, <2>2, <2>3 DEF StoreTypeOK, ScheduleRetry
<1>8. ASSUME NEW l \in LeaseIds, NEW w \in Work, NEW t \in Nat, LeaseNextWorkItem(l, w, Owner, t)
      PROVE  StoreTypeOK'
  BY <1>8, DueLeases, TypeGrant, SchedulerConstants DEF LeaseNextWorkItem
<1>9. ASSUME NEW l \in LeaseIds, NEW t \in Nat, RenewLease(l, Owner, t) PROVE StoreTypeOK'
  <2>1. ASSUME NEW row \in LeaseRows PROVE [row EXCEPT !.expires = t + LeaseTTL] \in LeaseRows
    BY StoreConstants DEF LeaseRows
  <2>2. lease' = [lease EXCEPT ![l] = [lease[l] EXCEPT !.expires = t + LeaseTTL]]
    BY <1>9 DEF RenewLease
  <2>3. lease' \in [LeaseIds -> LeaseRows]
    BY <2>1, <2>2 DEF StoreTypeOK
  <2> QED BY <1>9, <2>3 DEF StoreTypeOK, RenewLease
<1>10. ASSUME NEW l \in LeaseIds, ReleaseLease(l, Owner) PROVE StoreTypeOK'
  <2>1. ASSUME NEW row \in LeaseRows PROVE [row EXCEPT !.state = "released"] \in LeaseRows
    BY DEF LeaseRows, LeaseStates
  <2>2. lease' = [lease EXCEPT ![l] = [lease[l] EXCEPT !.state = "released"]]
    BY <1>10 DEF ReleaseLease
  <2>3. lease' \in [LeaseIds -> LeaseRows]
    BY <2>1, <2>2 DEF StoreTypeOK
  <2>4. workState' \in [Work -> WorkStates \cup {"absent"}]
    BY <1>10 DEF StoreTypeOK, ReleaseLease, WorkStates, TrialStates
  <2> QED BY <1>10, <2>3, <2>4 DEF StoreTypeOK, ReleaseLease
<1>11. ASSUME NEW a \in AttemptIds, NEW w \in Work, NEW k \in Nat, NEW l \in LeaseIds, NEW t,
              CreateAttemptForLease(a, w, 1, k, l, t)
       PROVE  StoreTypeOK'
  <2>1. PICK n \in 1 .. MaxNumber : InsertAttempt(a, w, n, 1, k, l)
    BY <1>11 DEF CreateAttemptForLease
  <2>2. n \in Nat /\ 1 \in Nat
    OBVIOUS
  <2> QED BY <2>1, <2>2, TypeInsert
<1>12. ASSUME NEW a \in AttemptIds, NEW s \in AttemptStates, NEW f \in Failures \cup {None},
              NEW rc \in Reconciliations \cup {None}, TransitionAttempt(a, s, f, rc)
       PROVE  StoreTypeOK'
  BY <1>12, TransitionRows DEF StoreTypeOK, TransitionAttempt
<1>13. ASSUME NEW a \in AttemptIds, NEW s \in SubmissionStates \cup {"absent"}, NEW x \in ExternalIds \cup {None},
              NEW row \in SubmissionRows
       PROVE  [row EXCEPT !.state = s] \in SubmissionRows /\ [row EXCEPT !.external = x] \in SubmissionRows
  BY DEF SubmissionRows
<1>14. ASSUME NEW a \in AttemptIds, NEW s \in AttemptStates, NEW f \in Failures \cup {None},
              NEW rc \in Reconciliations \cup {None}, NEW sub \in SubmissionStates,
              WriteOutcome(a, s, f, rc, sub)
       PROVE  StoreTypeOK'
  <2>1. attempt' \in [AttemptIds -> AttemptRows]
    BY <1>14, OutcomeRows DEF WriteOutcome
  <2>2. PICK t \in SubmissionStates \cup {"absent"} :
           submission' = [submission EXCEPT ![a] = [submission[a] EXCEPT !.state = t]]
    <3>1. submission[a].state \in SubmissionStates \cup {"absent"}
      BY DEF StoreTypeOK, SubmissionRows
    <3> QED BY <1>14, <3>1 DEF WriteOutcome
  <2>3. submission' \in [AttemptIds -> SubmissionRows]
    BY <1>13, <2>2 DEF StoreTypeOK
  <2> QED BY <1>14, <2>1, <2>3 DEF StoreTypeOK, WriteOutcome
<1>15. ASSUME NEW a \in AttemptIds, RecordBackendSubmission(a, None) PROVE StoreTypeOK'
  <2>1. submission' = [submission EXCEPT ![a] = [state |-> "submitted", external |-> None]]
    BY <1>15 DEF RecordBackendSubmission
  <2>2. submission' \in [AttemptIds -> SubmissionRows]
    BY <2>1 DEF StoreTypeOK, SubmissionRows, SubmissionStates
  <2> QED BY <1>15, <2>2 DEF StoreTypeOK, RecordBackendSubmission
<1>16. ASSUME NEW a \in AttemptIds, WorkerBinds(a) PROVE StoreTypeOK'
  <2>1. submission' = [submission EXCEPT ![a] =
                          [[submission[a] EXCEPT !.external = a] EXCEPT !.state = "running"]]
    BY <1>16 DEF WorkerBinds
  <2>2. PICK row \in SubmissionRows : row = [submission[a] EXCEPT !.external = a]
    BY <1>13, SchedulerConstants DEF StoreTypeOK, SubmissionStates
  <2>3. submission' \in [AttemptIds -> SubmissionRows]
    BY <1>13, <2>1, <2>2 DEF StoreTypeOK, SubmissionStates
  <2> QED BY <1>16, <2>3 DEF StoreTypeOK, WorkerBinds
<1>17. CASE Tick \/ UNCHANGED storeVars
  BY <1>17, StoreConstants DEF StoreTypeOK, Tick, storeVars
<1> QED BY <1>1, <1>2, <1>3, <1>4, <1>5, <1>6, <1>7, <1>8, <1>9, <1>10, <1>11, <1>12, <1>14, <1>15,
           <1>16, <1>17, TypeExpire DEF StoreCall, QuietCall, LeaseCall, InsertCall

-----------------------------------------------------------------------------
(* A quiet call only ends leases.                                          *)
LEMMA QuietLeases == ASSUME StoreTypeOK, QuietCall PROVE LeasesEnd(lease')
<1>1. ASSUME NEW W, NEW t, ExpireLeases(W, t) PROVE LeasesEnd(lease')
  <2>1. lease' = ExpiredLeases(Due(W, t))
    BY <1>1 DEF ExpireLeases
  <2> QED BY <2>1, ExpiredEnd
<1>2. Owner \in Owners
  BY SchedulerConstants
<1>3. \/ UNCHANGED lease
      \/ \E W, t : ExpireLeases(W, t)
      \/ \E l \in LeaseIds, t \in Nat : RenewLease(l, Owner, t)
      \/ \E l \in LeaseIds : ReleaseLease(l, Owner)
  BY DEF QuietCall, UpdateRun, UpdatePlan, UpdatePlannedTrial, UpdateWorkItem,
         RequestCancellation, CompletePlanIfTerminal, ScheduleRetry, TransitionAttempt,
         WriteOutcome, RecordBackendSubmission, WorkerBinds, Tick, storeVars
<1>4. CASE UNCHANGED lease
  BY <1>4 DEF LeasesEnd
<1> QED BY <1>1, <1>2, <1>3, <1>4, RenewChange, ReleaseChange

(* A step keeps the identity of every attempt.                             *)
Steady == \A a \in AttemptIds : AttemptKept(a)

(* No call but an insertion changes the identity of an attempt.            *)
LEMMA QuietAttempts == ASSUME StoreTypeOK, QuietCall \/ LeaseCall PROVE Steady
<1>1. ASSUME NEW W, NEW t, ExpireLeases(W, t) PROVE Steady
  BY <1>1, ExpiredKept DEF ExpireLeases, Steady
<1>2. ASSUME NEW l, NEW w, NEW t, LeaseNextWorkItem(l, w, Owner, t) PROVE Steady
  BY <1>2, ExpiredKept DEF LeaseNextWorkItem, Steady
<1>3. ASSUME NEW a \in AttemptIds, NEW s \in AttemptStates, NEW f \in Failures \cup {None},
             NEW rc \in Reconciliations \cup {None}, NEW sub, attempt[a].state # "absent",
             WriteOutcome(a, s, f, rc, sub)
      PROVE  Steady
  <2>1. s # "absent"
    BY DEF AttemptStates
  <2>2. /\ \A b \in AttemptIds : SameIdentity(attempt'[b], attempt[b])
        /\ \A b \in AttemptIds : attempt'[b].state = IF b = a THEN s ELSE attempt[b].state
    BY <1>3, OutcomeRows DEF WriteOutcome
  <2> QED BY <1>3, <2>1, <2>2 DEF AttemptKept, Steady
<1>4. \/ UNCHANGED attempt
      \/ \E W, t : ExpireLeases(W, t)
      \/ \E l \in LeaseIds, w \in Work, t \in Nat : LeaseNextWorkItem(l, w, Owner, t)
      \/ \E a \in AttemptIds, s \in AttemptStates, f \in Failures \cup {None},
            rc \in Reconciliations \cup {None} : TransitionAttempt(a, s, f, rc)
      \/ \E a \in AttemptIds, s \in AttemptStates, f \in Failures \cup {None},
            rc \in Reconciliations \cup {None}, sub \in SubmissionStates :
               attempt[a].state # "absent" /\ WriteOutcome(a, s, f, rc, sub)
  BY DEF QuietCall, LeaseCall, UpdateRun, UpdatePlan, UpdatePlannedTrial, UpdateWorkItem,
         RequestCancellation, CompletePlanIfTerminal, ScheduleRetry, RenewLease, ReleaseLease,
         RecordBackendSubmission, WorkerBinds, Tick, storeVars
<1>5. ASSUME NEW a \in AttemptIds, NEW s \in AttemptStates, NEW f \in Failures \cup {None},
             NEW rc \in Reconciliations \cup {None}, TransitionAttempt(a, s, f, rc)
      PROVE  Steady
  BY <1>5, TransitionKept DEF Steady
<1>6. CASE UNCHANGED attempt
  BY <1>6 DEF Steady, AttemptKept, SameIdentity
<1> QED BY <1>1, <1>2, <1>3, <1>4, <1>5, <1>6

(* A store call changes the lease and attempt tables as                    *)
(* OperationalStoreProofs says.                                            *)
LEMMA CallChanges == ASSUME StoreTypeOK, StoreCall PROVE LeaseChange /\ AttemptChange
<1>1. CASE QuietCall
  BY <1>1, QuietLeases, QuietAttempts DEF LeaseChange, AttemptChange, Steady
<1>2. CASE LeaseCall
  <2>1. LeaseChange
    BY <1>2, GrantChange, SchedulerConstants DEF LeaseCall
  <2> QED BY <1>2, <2>1, QuietAttempts DEF AttemptChange, Steady
<1>3. ASSUME NEW a \in AttemptIds, NEW w \in Work, NEW k \in Nat, NEW l \in LeaseIds, NEW t,
             CreateAttemptForLease(a, w, 1, k, l, t)
      PROVE  LeaseChange /\ AttemptChange
  <2>1. PICK n \in 1 .. MaxNumber : IsNextNumber(w, n) /\ InsertAttempt(a, w, n, 1, k, l)
    BY <1>3 DEF CreateAttemptForLease
  <2>2. RetrySlotFree(w, 1, k) /\ lease[l].state = "active" /\ lease[l].work = w
    BY <1>3 DEF CreateAttemptForLease, LeaseHolds
  <2>3. n \in Nat /\ 1 \in Nat /\ l \in LeaseIds \cup {None}
    OBVIOUS
  <2>4. \A b \in AttemptsOf(w) : attempt[b].number # n
    BY <2>1 DEF IsNextNumber
  <2>5. AttemptChange
    BY <2>1, <2>2, <2>3, <2>4, InsertedRow
  <2> QED BY <2>1, <2>5, LeasesUnchanged DEF InsertAttempt
<1> QED BY <1>1, <1>2, <1>3 DEF StoreCall, InsertCall

-----------------------------------------------------------------------------
(* Rows that exist: attempts, and leases that carry no attempt yet.        *)
Existing == {a \in AttemptIds : attempt[a].state # "absent"}
Unused == {l \in LeaseIds : lease[l].state # "absent" /\ LeaseAttempts(l) = {}}

(* The rows of leases and attempts are whole, and a worker has an attempt. *)
RowInv ==
    /\ \A l \in LeaseIds : lease[l].state # "absent" => lease[l].work \in Work
    /\ \A a \in AttemptIds :
          IF a \in Existing THEN attempt[a].work \in Work /\ attempt[a].lease \in LeaseIds
                            ELSE attempt[a].work = None /\ attempt[a].lease = None
    /\ \A a \in AttemptIds : worker[a] # "none" => a \in Existing

(* Labels at which a process has an attempt at hand, a result to write, or *)
(* work items to visit.                                                    *)
Settling == {"settle_attempt", "settle_trial", "settle_work", "settle_retry", "settle_requeue",
             "settle_plan"}
Cancelling == {"cancel_attempt", "cancel_work", "cancel_trial", "cancel_complete", "cancel_release"}
Holding == {"work_running", "trial_running", "attempt_running", "release_quietly", "write_attempt",
            "write_trial", "write_work", "retry", "requeue", "release", "unknown_trial",
            "unknown_work", "complete"} \cup Settling \cup Cancelling
Writing == {"write_attempt", "write_trial", "write_work", "settle_attempt", "settle_trial",
            "settle_work", "cancel_attempt", "cancel_work", "cancel_trial"}
Listing == {"reconcile", "cancel"} \cup Settling \cup Cancelling

(* Labels of a dispatch that starts an attempt, and of one that records    *)
(* what its workers did.                                                   *)
Starting == {"work_running", "trial_running", "attempt_running"}
Handling == {"handle", "release_quietly", "write_attempt", "write_trial", "write_work", "retry",
             "requeue", "abort", "release", "unknown_trial", "unknown_work", "complete"}

(* What a process has at hand fits its label ...                           *)
Fits(r) ==
    /\ r.pc \in Holding => r.cur \in Existing
    /\ r.done # {} => r.pc \in Handling
    /\ r.pc = "renew" => r.todo \subseteq Existing
    /\ r.pc \in Listing => r.todo \subseteq Work
    /\ r.pc \in Writing => r.res.state \in Outcomes
    /\ r.pc = "cancel_attempt" => r.res \in {Confirmed, Unconfirmed}

(* ... its attempts exist, and the leases of its batch carry no attempt.   *)
Good(r) == Fits(r) /\ r.pend \cup r.done \subseteq Existing /\ r.batch \subseteq Unused

(* The attempts a process answers for.                                     *)
Hand(r) == r.pend \cup r.done \cup {a \in AttemptIds : r.pc \in Starting /\ a = r.cur}

(* No lease is in two batches and no attempt in two hands; a future that   *)
(* is done has a finished worker.                                          *)
ProcInv ==
    /\ \A p \in Procs : Good(proc[p])
    /\ \A p \in Procs : \A a \in proc[p].done : worker[a] \in Finished
    /\ \A p, q \in Procs : p # q =>
          proc[p].batch \cap proc[q].batch = {} /\ Hand(proc[p]) \cap Hand(proc[q]) = {}

SchedulerInv ==
    SchedulerTypeOK /\ RowInv /\ ProcInv /\ LeaseExclusive /\ AttemptIdentity /\ CapRespected
    /\ OneAttemptPerLease

-----------------------------------------------------------------------------
(* How most steps of a process change its record: what they leave in hand  *)
(* it had before.                                                          *)
ProcMove(p, new) ==
    /\ new \in ProcRecords /\ proc' = [proc EXCEPT ![p] = new]
    /\ Good(new)
    /\ new.batch \subseteq proc[p].batch /\ Hand(new) \subseteq Hand(proc[p])
    /\ \A a \in new.done : worker[a] \in Finished

QuietMove(p) == QuietCall /\ \E new : ProcMove(p, new)

(* A process at label y may go on to label x with its record as it is.     *)
Follows(y, x) ==
    /\ y \in Labels /\ x \in Labels \ {"renew", "cancel_attempt"}
    /\ x \in Holding => y \in Holding
    /\ x \in Listing => y \in Listing
    /\ x \in Writing => y \in Writing
    /\ x \in Starting => y \in Starting
    /\ y \in Handling => x \in Handling

(* Such a step is a move.                                                  *)
LEMMA JumpMove ==
    ASSUME SchedulerInv, NEW p \in Procs, NEW y, NEW x, At(p, y), Goto(p, x), Follows(y, x)
    PROVE  \E new : ProcMove(p, new)
<1>1. PICK r \in ProcRecords : r = proc[p]
  BY DEF SchedulerInv, SchedulerTypeOK
<1>2. r.pc = y /\ Good(r) /\ \A a \in r.done : worker[a] \in Finished
  BY <1>1 DEF At, SchedulerInv, ProcInv
<1>3. PICK new : new = [r EXCEPT !.pc = x]
  OBVIOUS
<1>4. /\ new.pc = x /\ new.cur = r.cur /\ new.pend = r.pend /\ new.done = r.done
      /\ new.batch = r.batch /\ new.todo = r.todo /\ new.res = r.res
  BY <1>3 DEF ProcRecords
<1>5. new \in ProcRecords
  BY <1>3 DEF ProcRecords, Follows
<1>6. Good(new)
  BY <1>2, <1>4 DEF Good, Fits, Follows
<1>7. Hand(new) \subseteq Hand(r)
  BY <1>2, <1>4 DEF Hand, Follows
<1>8. proc' = [proc EXCEPT ![p] = new]
  BY <1>1, <1>3 DEF Goto
<1> QED BY <1>1, <1>2, <1>4, <1>5, <1>6, <1>7, <1>8 DEF ProcMove

(* The record of an idle process.                                          *)
LEMMA IdleRecord == IdleProc \in ProcRecords /\ Good(IdleProc) /\ Hand(IdleProc) = {}
<1>1. NoResult \in Results /\ "idle" \in Labels /\ {} \in LeaseSets /\ {} \in Todos
      /\ None \in Currents /\ {} \in AttemptSets
  BY DEF NoResult, Results, Labels, LeaseSets, Todos, Currents, AttemptSets
<1>2. IdleProc \in ProcRecords
  BY <1>1 DEF IdleProc, ProcRecords
<1>3. /\ IdleProc.pc = "idle" /\ IdleProc.pend = {} /\ IdleProc.done = {} /\ IdleProc.batch = {}
  BY DEF IdleProc
<1> QED BY <1>2, <1>3 DEF Good, Fits, Hand, Holding, Handling, Listing, Writing, Starting, Settling, Cancelling

(* A command that returns leaves nothing in hand.                          *)
LEMMA QuitMove ==
    ASSUME NEW p \in Procs, Quit(p) PROVE \E new : ProcMove(p, new)
<1>1. IdleProc.batch = {} /\ IdleProc.done = {}
  BY DEF IdleProc
<1> QED BY <1>1, IdleRecord DEF ProcMove, Quit

(* The attempt at hand exists, for a work item and under a lease.          *)
LEMMA InHand ==
    ASSUME SchedulerInv, NEW p \in Procs, proc[p].pc \in Holding
    PROVE  /\ Cur(p) \in AttemptIds /\ attempt[Cur(p)].state # "absent"
           /\ CurWork(p) \in Work /\ CurLease(p) \in LeaseIds /\ PlanOf[CurWork(p)] \in Plans
<1>1. Cur(p) \in Existing
  BY DEF SchedulerInv, ProcInv, Good, Fits, Cur
<1>2. CurWork(p) \in Work /\ CurLease(p) \in LeaseIds
  BY <1>1 DEF SchedulerInv, RowInv, CurWork, CurLease, Existing
<1> QED BY <1>1, <1>2, StoreConstants DEF Existing

(* A result that is being written has a state the tables admit.            *)
LEMMA ResultStates ==
    ASSUME SchedulerInv, NEW p \in Procs
    PROVE  /\ proc[p].res.failure \in Failures \cup {None}
           /\ proc[p].res.recon \in Reconciliations \cup {None}
           /\ proc[p].pc \in Writing =>
                 /\ proc[p].res.state \in Outcomes
                 /\ proc[p].res.state \in AttemptStates /\ proc[p].res.state \in TrialStates
                 /\ proc[p].res.state \in WorkStates
<1>1. proc[p] \in ProcRecords /\ Good(proc[p])
  BY DEF SchedulerInv, SchedulerTypeOK, ProcInv
<1>2. proc[p].res \in Results
  BY <1>1 DEF ProcRecords
<1>3. proc[p].pc \in Writing => proc[p].res.state \in Outcomes
  BY <1>1 DEF Good, Fits
<1>4. Outcomes \subseteq AttemptStates /\ Outcomes \subseteq TrialStates /\ Outcomes \subseteq WorkStates
  BY DEF Outcomes, AttemptStates, TrialStates, WorkStates
<1> QED BY <1>2, <1>3, <1>4 DEF Results

-----------------------------------------------------------------------------
(* Steps that only go on to another label: marking the work item and the   *)
(* trial of a new attempt running ...                                      *)
LEMMA StartMoves ==
    ASSUME SchedulerInv, NEW p \in Procs, WorkRunning(p) \/ TrialRunning(p) PROVE QuietMove(p)
<1>1. CASE WorkRunning(p)
  <2>1. At(p, "work_running") /\ Goto(p, "trial_running") /\ UpdateWorkItem(CurWork(p), "running")
    BY <1>1 DEF WorkRunning
  <2>2. Follows("work_running", "trial_running") /\ "work_running" \in Holding
    BY DEF Follows, Labels, Holding, Listing, Writing, Starting, Handling, Settling, Cancelling
  <2>3. CurWork(p) \in Work /\ "running" \in WorkStates
    BY <2>1, <2>2, InHand DEF At, WorkStates, TrialStates
  <2> QED BY <2>1, <2>2, <2>3, JumpMove DEF QuietMove, QuietCall
<1>2. CASE TrialRunning(p)
  <2>1. At(p, "trial_running") /\ Goto(p, "attempt_running") /\ UpdatePlannedTrial(CurWork(p), "running")
    BY <1>2 DEF TrialRunning
  <2>2. Follows("trial_running", "attempt_running") /\ "trial_running" \in Holding
    BY DEF Follows, Labels, Holding, Listing, Writing, Starting, Handling, Settling, Cancelling
  <2>3. CurWork(p) \in Work /\ "running" \in TrialStates
    BY <2>1, <2>2, InHand DEF At, TrialStates
  <2> QED BY <2>1, <2>2, <2>3, JumpMove DEF QuietMove, QuietCall
<1> QED BY <1>1, <1>2

(* ... writing a worker's result to the three tables ...                   *)
LEMMA WriteMoves ==
    ASSUME SchedulerInv, NEW p \in Procs, WriteAttempt(p) \/ WriteTrial(p) \/ WriteWork(p)
    PROVE  QuietMove(p)
<1>1. CASE WriteAttempt(p)
  <2>1. /\ At(p, "write_attempt") /\ Goto(p, "write_trial")
        /\ TransitionAttempt(Cur(p), proc[p].res.state, proc[p].res.failure, proc[p].res.recon)
    BY <1>1 DEF WriteAttempt
  <2>2. /\ Follows("write_attempt", "write_trial")
        /\ "write_attempt" \in Holding /\ "write_attempt" \in Writing
    BY DEF Follows, Labels, Holding, Listing, Writing, Starting, Handling, Settling, Cancelling
  <2>3. Cur(p) \in AttemptIds
    BY <2>1, <2>2, InHand DEF At
  <2> QED BY <2>1, <2>2, <2>3, ResultStates, JumpMove DEF At, QuietMove, QuietCall
<1>2. CASE WriteTrial(p)
  <2>1. /\ At(p, "write_trial") /\ Goto(p, "write_work")
        /\ UpdatePlannedTrial(CurWork(p), proc[p].res.state)
    BY <1>2 DEF WriteTrial
  <2>2. /\ Follows("write_trial", "write_work")
        /\ "write_trial" \in Holding /\ "write_trial" \in Writing
    BY DEF Follows, Labels, Holding, Listing, Writing, Starting, Handling, Settling, Cancelling
  <2>3. CurWork(p) \in Work
    BY <2>1, <2>2, InHand DEF At
  <2> QED BY <2>1, <2>2, <2>3, ResultStates, JumpMove DEF At, QuietMove, QuietCall
<1>3. CASE WriteWork(p)
  <2>1. PICK x \in {"complete", "retry", "release"} : Goto(p, x)
    BY <1>3 DEF WriteWork
  <2>2. At(p, "write_work") /\ UpdateWorkItem(CurWork(p), proc[p].res.state)
    BY <1>3 DEF WriteWork
  <2>3. Follows("write_work", x) /\ "write_work" \in Holding /\ "write_work" \in Writing
    BY DEF Follows, Labels, Holding, Listing, Writing, Starting, Handling, Settling, Cancelling
  <2>4. CurWork(p) \in Work
    BY <2>2, <2>3, InHand DEF At
  <2> QED BY <2>1, <2>2, <2>3, <2>4, ResultStates, JumpMove DEF At, QuietMove, QuietCall
<1> QED BY <1>1, <1>2, <1>3

(* ... deciding on a retry ...                                             *)
LEMMA RetryMoves ==
    ASSUME SchedulerInv, NEW p \in Procs, RetryCheck(p) \/ Requeue(p) \/ RequeueRefused(p)
    PROVE  QuietMove(p)
<1>1. CASE RetryCheck(p)
  <2>1. PICK x \in {"requeue", "release"} : Goto(p, x)
    BY <1>1 DEF RetryCheck
  <2>2. Follows("retry", x)
    BY DEF Follows, Labels, Holding, Listing, Writing, Starting, Handling, Settling, Cancelling
  <2> QED BY <1>1, <2>1, <2>2, JumpMove DEF RetryCheck, NoStoreCall, QuietMove, QuietCall
<1>2. CASE Requeue(p)
  <2>1. At(p, "requeue") /\ Goto(p, "release") /\ ScheduleRetry(CurWork(p), proc[p].now + Backoff)
    BY <1>2 DEF Requeue
  <2>2. Follows("requeue", "release") /\ "requeue" \in Holding
    BY DEF Follows, Labels, Holding, Listing, Writing, Starting, Handling, Settling, Cancelling
  <2>3. CurWork(p) \in Work
    BY <2>1, <2>2, InHand DEF At
  <2>4. proc[p].now + Backoff \in Nat
    BY SchedulerConstants DEF SchedulerInv, SchedulerTypeOK, ProcRecords
  <2> QED BY <2>1, <2>2, <2>3, <2>4, JumpMove DEF QuietMove, QuietCall
<1>3. CASE RequeueRefused(p)
  <2>1. Follows("requeue", "abort")
    BY DEF Follows, Labels, Holding, Listing, Writing, Starting, Handling, Settling, Cancelling
  <2> QED BY <1>3, <2>1, JumpMove DEF RequeueRefused, NoStoreCall, QuietMove, QuietCall
<1> QED BY <1>1, <1>2, <1>3

(* ... and releasing the lease, or finding it lost.                        *)
LEMMA ReleaseMoves ==
    ASSUME SchedulerInv, NEW p \in Procs,
           Release(p) \/ ReleaseRefused(p) \/ UnknownTrial(p) \/ UnknownWork(p)
    PROVE  QuietMove(p)
<1>1. CASE Release(p)
  <2>1. At(p, "release") /\ Goto(p, "complete") /\ ReleaseLease(CurLease(p), Owner)
    BY <1>1 DEF Release
  <2>2. Follows("release", "complete") /\ "release" \in Holding
    BY DEF Follows, Labels, Holding, Listing, Writing, Starting, Handling, Settling, Cancelling
  <2>3. CurLease(p) \in LeaseIds
    BY <2>1, <2>2, InHand DEF At
  <2> QED BY <2>1, <2>2, <2>3, JumpMove DEF QuietMove, QuietCall
<1>2. CASE ReleaseRefused(p)
  <2>1. /\ At(p, "release") /\ Goto(p, "unknown_trial")
        /\ TransitionAttempt(Cur(p), "unknown", "unknown", "pending")
    BY <1>2 DEF ReleaseRefused
  <2>2. Follows("release", "unknown_trial") /\ "release" \in Holding
    BY DEF Follows, Labels, Holding, Listing, Writing, Starting, Handling, Settling, Cancelling
  <2>3. Cur(p) \in AttemptIds
    BY <2>1, <2>2, InHand DEF At
  <2>4. "unknown" \in AttemptStates /\ "unknown" \in Failures /\ "pending" \in Reconciliations
    BY DEF AttemptStates, Failures, Reconciliations
  <2> QED BY <2>1, <2>2, <2>3, <2>4, JumpMove DEF QuietMove, QuietCall
<1>3. CASE UnknownTrial(p)
  <2>1. At(p, "unknown_trial") /\ Goto(p, "unknown_work") /\ UpdatePlannedTrial(CurWork(p), "unknown")
    BY <1>3 DEF UnknownTrial
  <2>2. Follows("unknown_trial", "unknown_work") /\ "unknown_trial" \in Holding
    BY DEF Follows, Labels, Holding, Listing, Writing, Starting, Handling, Settling, Cancelling
  <2>3. CurWork(p) \in Work /\ "unknown" \in TrialStates
    BY <2>1, <2>2, InHand DEF At, TrialStates
  <2> QED BY <2>1, <2>2, <2>3, JumpMove DEF QuietMove, QuietCall
<1>4. CASE UnknownWork(p)
  <2>1. At(p, "unknown_work") /\ Goto(p, "complete") /\ UpdateWorkItem(CurWork(p), "unknown")
    BY <1>4 DEF UnknownWork
  <2>2. Follows("unknown_work", "complete") /\ "unknown_work" \in Holding
    BY DEF Follows, Labels, Holding, Listing, Writing, Starting, Handling, Settling, Cancelling
  <2>3. CurWork(p) \in Work /\ "unknown" \in WorkStates
    BY <2>1, <2>2, InHand DEF At, WorkStates, TrialStates
  <2> QED BY <2>1, <2>2, <2>3, JumpMove DEF QuietMove, QuietCall
<1> QED BY <1>1, <1>2, <1>3, <1>4

(* The same for the settling of a reconciled attempt ...                   *)
LEMMA SettleMoves ==
    ASSUME SchedulerInv, NEW p \in Procs,
           SettleAttempt(p) \/ SettleTrial(p) \/ SettleWork(p) \/ SettleRetry(p)
    PROVE  QuietMove(p)
<1>1. CASE SettleAttempt(p)
  <2>1. /\ At(p, "settle_attempt") /\ Goto(p, "settle_trial")
        /\ TransitionAttempt(Cur(p), proc[p].res.state, proc[p].res.failure, proc[p].res.recon)
    BY <1>1 DEF SettleAttempt
  <2>2. /\ Follows("settle_attempt", "settle_trial")
        /\ "settle_attempt" \in Holding /\ "settle_attempt" \in Writing
    BY DEF Follows, Labels, Holding, Listing, Writing, Starting, Handling, Settling, Cancelling
  <2>3. Cur(p) \in AttemptIds
    BY <2>1, <2>2, InHand DEF At
  <2> QED BY <2>1, <2>2, <2>3, ResultStates, JumpMove DEF At, QuietMove, QuietCall
<1>2. CASE SettleTrial(p)
  <2>1. /\ At(p, "settle_trial") /\ Goto(p, "settle_work")
        /\ UpdatePlannedTrial(CurWork(p), proc[p].res.state)
    BY <1>2 DEF SettleTrial
  <2>2. /\ Follows("settle_trial", "settle_work")
        /\ "settle_trial" \in Holding /\ "settle_trial" \in Writing
    BY DEF Follows, Labels, Holding, Listing, Writing, Starting, Handling, Settling, Cancelling
  <2>3. CurWork(p) \in Work
    BY <2>1, <2>2, InHand DEF At
  <2> QED BY <2>1, <2>2, <2>3, ResultStates, JumpMove DEF At, QuietMove, QuietCall
<1>3. CASE SettleWork(p)
  <2>1. PICK x \in {"settle_retry", "settle_plan"} : Goto(p, x)
    BY <1>3 DEF SettleWork
  <2>2. At(p, "settle_work") /\ UpdateWorkItem(CurWork(p), proc[p].res.state)
    BY <1>3 DEF SettleWork
  <2>3. Follows("settle_work", x) /\ "settle_work" \in Holding /\ "settle_work" \in Writing
    BY DEF Follows, Labels, Holding, Listing, Writing, Starting, Handling, Settling, Cancelling
  <2>4. CurWork(p) \in Work
    BY <2>2, <2>3, InHand DEF At
  <2> QED BY <2>1, <2>2, <2>3, <2>4, ResultStates, JumpMove DEF At, QuietMove, QuietCall
<1>4. CASE SettleRetry(p)
  <2>1. PICK x \in {"settle_requeue", "settle_plan"} : Goto(p, x)
    BY <1>4 DEF SettleRetry
  <2>2. Follows("settle_retry", x)
    BY DEF Follows, Labels, Holding, Listing, Writing, Starting, Handling, Settling, Cancelling
  <2> QED BY <1>4, <2>1, <2>2, JumpMove DEF SettleRetry, NoStoreCall, QuietMove, QuietCall
<1> QED BY <1>1, <1>2, <1>3, <1>4

(* ... and for the rows that cancel_active writes.                         *)
LEMMA CancelMoves ==
    ASSUME SchedulerInv, NEW p \in Procs,
           CancelAttempt(p) \/ CancelWork(p) \/ CancelTrial(p) \/ CancelComplete(p)
    PROVE  QuietMove(p)
<1>1. CASE CancelAttempt(p)
  <2>1. /\ At(p, "cancel_attempt") /\ Goto(p, "cancel_work")
        /\ WriteOutcome(Cur(p), proc[p].res.state, proc[p].res.failure, proc[p].res.recon,
                        proc[p].res.state)
    BY <1>1 DEF CancelAttempt
  <2>2. /\ Follows("cancel_attempt", "cancel_work")
        /\ "cancel_attempt" \in Holding /\ "cancel_attempt" \in Writing
    BY DEF Follows, Labels, Holding, Listing, Writing, Starting, Handling, Settling, Cancelling
  <2>3. Cur(p) \in AttemptIds /\ attempt[Cur(p)].state # "absent"
    BY <2>1, <2>2, InHand DEF At
  <2>4. proc[p].res \in {Confirmed, Unconfirmed}
    BY <2>1 DEF At, SchedulerInv, ProcInv, Good, Fits
  <2>5. proc[p].res.state \in SubmissionStates
    BY <2>4 DEF Confirmed, Unconfirmed, Result, SubmissionStates
  <2> QED BY <2>1, <2>2, <2>3, <2>5, ResultStates, JumpMove DEF At, QuietMove, QuietCall
<1>2. CASE CancelWork(p)
  <2>1. /\ At(p, "cancel_work") /\ Goto(p, "cancel_trial")
        /\ UpdateWorkItem(CurWork(p), proc[p].res.state)
    BY <1>2 DEF CancelWork
  <2>2. /\ Follows("cancel_work", "cancel_trial")
        /\ "cancel_work" \in Holding /\ "cancel_work" \in Writing
    BY DEF Follows, Labels, Holding, Listing, Writing, Starting, Handling, Settling, Cancelling
  <2>3. CurWork(p) \in Work
    BY <2>1, <2>2, InHand DEF At
  <2> QED BY <2>1, <2>2, <2>3, ResultStates, JumpMove DEF At, QuietMove, QuietCall
<1>3. CASE CancelTrial(p)
  <2>1. /\ At(p, "cancel_trial") /\ Goto(p, "cancel_complete")
        /\ UpdatePlannedTrial(CurWork(p), proc[p].res.state)
    BY <1>3 DEF CancelTrial
  <2>2. /\ Follows("cancel_trial", "cancel_complete")
        /\ "cancel_trial" \in Holding /\ "cancel_trial" \in Writing
    BY DEF Follows, Labels, Holding, Listing, Writing, Starting, Handling, Settling, Cancelling
  <2>3. CurWork(p) \in Work
    BY <2>1, <2>2, InHand DEF At
  <2> QED BY <2>1, <2>2, <2>3, ResultStates, JumpMove DEF At, QuietMove, QuietCall
<1>4. CASE CancelComplete(p)
  <2>1. /\ At(p, "cancel_complete") /\ Goto(p, "cancel_release")
        /\ CompletePlanIfTerminal(PlanOf[CurWork(p)])
    BY <1>4 DEF CancelComplete
  <2>2. Follows("cancel_complete", "cancel_release") /\ "cancel_complete" \in Holding
    BY DEF Follows, Labels, Holding, Listing, Writing, Starting, Handling, Settling, Cancelling
  <2>3. PlanOf[CurWork(p)] \in Plans
    BY <2>1, <2>2, InHand DEF At
  <2> QED BY <2>1, <2>2, <2>3, JumpMove DEF QuietMove, QuietCall
<1> QED BY <1>1, <1>2, <1>3, <1>4

(* Steps that end a command, and the empty lease call.                     *)
LEMMA EndMoves ==
    ASSUME SchedulerInv, NEW p \in Procs,
           LeaseNone(p) \/ LeaseRefused(p) \/ CreateRefused(p) \/ Abort(p) \/ CancelEnd(p)
    PROVE  QuietMove(p)
<1>1. CASE LeaseNone(p)
  <2>1. \E W, t : ExpireLeases(W, t)
    BY <1>1 DEF LeaseNone, LeaseNextNothing
  <2>2. Follows("lease", "batch")
    BY DEF Follows, Labels, Holding, Listing, Writing, Starting, Handling, Settling, Cancelling
  <2>3. At(p, "lease") /\ (Quit(p) \/ Goto(p, "batch"))
    BY <1>1 DEF LeaseNone
  <2> QED BY <2>1, <2>2, <2>3, JumpMove, QuitMove DEF QuietMove, QuietCall
<1>2. CASE LeaseRefused(p) \/ CreateRefused(p) \/ Abort(p) \/ CancelEnd(p)
  <2>1. Quit(p) /\ UNCHANGED storeVars
    BY <1>2 DEF LeaseRefused, CreateRefused, Abort, CancelEnd, NoStoreCall
  <2> QED BY <2>1, QuitMove DEF QuietMove, QuietCall
<1> QED BY <1>1, <1>2

-----------------------------------------------------------------------------
(* A record that fits its label, and keeps part of what the process had in *)
(* hand, is a move.                                                        *)
LEMMA RecordMove ==
    ASSUME SchedulerInv, NEW p \in Procs, NEW new \in ProcRecords,
           proc' = [proc EXCEPT ![p] = new],
           new.batch \subseteq proc[p].batch, new.pend \cup new.done \subseteq Hand(proc[p]),
           new.pc \notin Starting, Fits(new), \A a \in new.done : worker[a] \in Finished
    PROVE  \E r : ProcMove(p, r)
<1>1. Good(proc[p])
  BY DEF SchedulerInv, ProcInv
<1>2. Hand(proc[p]) \subseteq Existing
  BY <1>1 DEF Good, Fits, Hand, Starting, Holding
<1>3. Good(new)
  BY <1>1, <1>2 DEF Good
<1>4. Hand(new) \subseteq Hand(proc[p])
  BY DEF Hand
<1> QED BY <1>3, <1>4 DEF ProcMove

(* A dispatch begins with nothing in hand.                                 *)
LEMMA DispatchMove ==
    ASSUME SchedulerInv, NEW p \in Procs, NEW r \in ProcRecords, r.done = {},
           r.pend \subseteq proc[p].pend, proc' = [proc EXCEPT ![p] = BeginDispatch(p, r)]
    PROVE  \E new : ProcMove(p, new)
<1>1. "lease" \in Labels /\ {} \in LeaseSets
  BY DEF Labels, LeaseSets
<1>2. PICK new : new = BeginDispatch(p, r)
  OBVIOUS
<1>3. new \in ProcRecords
  BY <1>1, <1>2 DEF BeginDispatch, ProcRecords
<1>4. new.pc = "lease" /\ new.batch = {} /\ new.pend = r.pend /\ new.done = {}
  BY <1>2 DEF BeginDispatch, ProcRecords
<1>5. Fits(new) /\ new.pc \notin Starting
  BY <1>4 DEF Fits, Holding, Listing, Writing, Starting, Handling, Settling, Cancelling
<1>6. new.pend \cup new.done \subseteq Hand(proc[p])
  BY <1>4 DEF Hand
<1> QED BY <1>2, <1>3, <1>4, <1>5, <1>6, RecordMove

(* The three commands.                                                     *)
LEMMA CommandMoves ==
    ASSUME SchedulerInv, NEW p \in Procs, Command(p)
    PROVE  QuietMove(p)
<1>0. clock \in Nat
  BY StoreConstants DEF SchedulerInv, SchedulerTypeOK, StoreTypeOK
<1>1. CASE StartRun(p)
  <2>1. PICK r : r = [IdleProc EXCEPT !.now = clock]
    OBVIOUS
  <2>2. r \in ProcRecords /\ r.done = {} /\ r.pend = {}
    <3>1. IdleProc.done = {} /\ IdleProc.pend = {}
      BY DEF IdleProc
    <3> QED BY <1>0, <2>1, <3>1, IdleRecord DEF ProcRecords
  <2>3. proc' = [proc EXCEPT ![p] = BeginDispatch(p, r)] /\ UNCHANGED storeVars
    BY <1>1, <2>1 DEF StartRun, NoStoreCall
  <2> QED BY <2>2, <2>3, DispatchMove DEF QuietMove, QuietCall
<1>2. PICK r \in ProcRecords : r = proc[p]
  BY DEF SchedulerInv, SchedulerTypeOK
<1>3. Good(r) /\ \A a \in r.done : worker[a] \in Finished
  BY <1>2 DEF SchedulerInv, ProcInv
<1>4. CASE ResumeRun(p)
  <2>1. r.pc = "idle" /\ \E W, t : ExpireLeases(W, t)
    BY <1>2, <1>4 DEF ResumeRun, At
  <2>2. "unknown_list" \in Labels /\ (~started[RunServed[p]]) \in BOOLEAN
    BY DEF Labels
  <2>3. PICK new : new = [r EXCEPT !.pc = "unknown_list", !.now = clock, !.ready = ~started[RunServed[p]]]
    OBVIOUS
  <2>4. new \in ProcRecords
    BY <1>0, <2>2, <2>3 DEF ProcRecords
  <2>5. new.pc = "unknown_list" /\ new.batch = r.batch /\ new.pend = r.pend /\ new.done = r.done
    BY <2>3 DEF ProcRecords
  <2>6. proc' = [proc EXCEPT ![p] = new]
    BY <1>2, <1>4, <2>3 DEF ResumeRun
  <2>7. new.done = {}
    BY <1>3, <2>1, <2>5 DEF Good, Fits, Handling
  <2>8. Fits(new) /\ new.pc \notin Starting
    BY <2>5, <2>7 DEF Fits, Holding, Listing, Writing, Starting, Handling, Settling, Cancelling
  <2>9. new.pend \cup new.done \subseteq Hand(proc[p])
    BY <1>2, <2>5 DEF Hand
  <2> QED BY <1>2, <2>1, <2>4, <2>5, <2>6, <2>7, <2>8, <2>9, RecordMove DEF QuietMove, QuietCall
<1>5. CASE Cancel(p)
  <2>1. r.pc = "idle" /\ r.done = {}
    BY <1>2, <1>3, <1>5 DEF Cancel, At, Good, Fits, Handling
  <2>2. \/ \E x, W, whole : whole \in BOOLEAN /\ RequestCancellation(x, W, whole)
        \/ UNCHANGED storeVars
    BY <1>5 DEF Cancel, NoStoreCall
  <2>3. CASE UNCHANGED proc
    <3>1. proc' = [proc EXCEPT ![p] = r]
      BY <1>2, <2>3 DEF SchedulerInv, SchedulerTypeOK
    <3>2. ProcMove(p, r)
      BY <1>2, <1>3, <3>1 DEF ProcMove
    <3> QED BY <2>2, <3>2 DEF QuietMove, QuietCall
  <2>4. CASE proc' = [proc EXCEPT ![p].pc = "cancel_list", ![p].now = clock]
    <3>1. "cancel_list" \in Labels
      BY DEF Labels
    <3>2. PICK new : new = [r EXCEPT !.pc = "cancel_list", !.now = clock]
      OBVIOUS
    <3>3. new \in ProcRecords
      BY <1>0, <3>1, <3>2 DEF ProcRecords
    <3>4. new.pc = "cancel_list" /\ new.batch = r.batch /\ new.pend = r.pend /\ new.done = r.done
      BY <3>2 DEF ProcRecords
    <3>5. proc' = [proc EXCEPT ![p] = new]
      BY <1>2, <2>4, <3>2
    <3>6. Fits(new) /\ new.pc \notin Starting
      BY <2>1, <3>4 DEF Fits, Holding, Listing, Writing, Starting, Handling, Settling, Cancelling
    <3>7. new.pend \cup new.done \subseteq Hand(proc[p])
      BY <1>2, <3>4 DEF Hand
    <3> QED BY <1>2, <2>1, <2>2, <3>3, <3>4, <3>5, <3>6, <3>7, RecordMove DEF QuietMove, QuietCall
  <2> QED BY <1>5, <2>3, <2>4 DEF Cancel
<1> QED BY <1>1, <1>4, <1>5 DEF Command

-----------------------------------------------------------------------------
(* Every result a dispatch or a reconciliation may write is one the tables *)
(* admit.                                                                  *)
LEMMA ResultType ==
    ASSUME NEW s \in Outcomes, NEW f \in Failures \cup {None}, NEW rc \in Reconciliations \cup {None},
           NEW b \in BOOLEAN
    PROVE  Result(s, f, rc, b) \in Results /\ Result(s, f, rc, b).state = s
BY DEF Result, Results

(* What a dispatch decides to write for a finished worker.                 *)
LEMMA OutcomeResults ==
    ASSUME StoreTypeOK, NEW a \in AttemptIds, worker[a] \in Finished
    PROVE  OutcomeResult(a) \in Results /\ OutcomeResult(a).state \in Outcomes
<1>1. /\ \A s \in {"succeeded", "failed", "unknown"} : s \in Outcomes
      /\ \A f \in {"infrastructure", "unknown", "final"} : f \in Failures \cup {None}
      /\ \A rc \in {"reconciled", "pending", "not_required"} : rc \in Reconciliations \cup {None}
  BY DEF Outcomes, Failures, Reconciliations
<1>2. RaisedResult(a) \in Results /\ RaisedResult(a).state \in Outcomes
  <2>1. PICK f : f = IF attempt[a].failure # None THEN attempt[a].failure
                     ELSE IF submission[a].state # "absent" THEN "unknown" ELSE "infrastructure"
    OBVIOUS
  <2>2. attempt[a].failure \in Failures \cup {None}
    BY DEF StoreTypeOK, AttemptRows
  <2>3. f \in Failures \cup {None}
    BY <1>1, <2>1, <2>2
  <2>4. PICK s : s = IF attempt[a].state = "failed" \/ ~(submission[a].state # "absent")
                     THEN "failed" ELSE "unknown"
    OBVIOUS
  <2>5. PICK rc : rc = IF submission[a].state # "absent" THEN "pending" ELSE "not_required"
    OBVIOUS
  <2>6. s \in Outcomes /\ rc \in Reconciliations \cup {None}
    BY <1>1, <2>4, <2>5
  <2>7. PICK b \in BOOLEAN : b = (s = "failed")
    OBVIOUS
  <2>8. RaisedResult(a) = Result(s, f, rc, b)
    BY <2>1, <2>4, <2>5, <2>7 DEF RaisedResult
  <2> QED BY <2>3, <2>6, <2>8, ResultType
<1>3. /\ Result("succeeded", None, "reconciled", FALSE) \in Results
      /\ Result("failed", "final", "reconciled", FALSE) \in Results
      /\ Result("failed", "infrastructure", "reconciled", TRUE) \in Results
      /\ Result("unknown", "unknown", "pending", FALSE) \in Results
      /\ Result("succeeded", None, "reconciled", FALSE).state \in Outcomes
      /\ Result("failed", "final", "reconciled", FALSE).state \in Outcomes
      /\ Result("failed", "infrastructure", "reconciled", TRUE).state \in Outcomes
      /\ Result("unknown", "unknown", "pending", FALSE).state \in Outcomes
  BY <1>1 DEF Result, Results
<1>4. CASE worker[a] = "raised"
  BY <1>2, <1>4 DEF OutcomeResult
<1>5. CASE worker[a] = "succeeded"
  BY <1>3, <1>5 DEF OutcomeResult
<1>6. CASE worker[a] = "failed"
  BY <1>3, <1>6 DEF OutcomeResult
<1>7. CASE worker[a] = "retryable"
  BY <1>3, <1>7 DEF OutcomeResult
<1>8. CASE worker[a] = "unknown"
  BY <1>3, <1>8 DEF OutcomeResult
<1> QED BY <1>4, <1>5, <1>6, <1>7, <1>8 DEF Finished

(* Marking the runs and plans of a batch.                                  *)
LEMMA MarkMoves ==
    ASSUME SchedulerInv, NEW p \in Procs, ListRuns(p) \/ MarkRun(p) \/ MarkPlan(p)
    PROVE  QuietMove(p)
<1>1. PICK r \in ProcRecords : r = proc[p]
  BY DEF SchedulerInv, SchedulerTypeOK
<1>2. Good(r) /\ \A a \in r.done : worker[a] \in Finished
  BY <1>1 DEF SchedulerInv, ProcInv
<1>3. BatchRuns(p) \in Todos /\ BatchPlans(p) \in Todos
  <2>1. \A l \in r.batch : lease[l].work \in Work
    BY <1>2 DEF Good, Unused, SchedulerInv, RowInv
  <2>2. \A w \in Work : PlanOf[w] \in Plans /\ RunOf(w) \in Runs
    BY StoreConstants DEF RunOf
  <2> QED BY <1>1, <2>1, <2>2 DEF BatchRuns, BatchPlans, Todos
<1>4. ASSUME NEW x \in {"run_running", "plan_started", "create"}, NEW T \in Todos, r.done = {},
             proc' = [proc EXCEPT ![p] = [r EXCEPT !.pc = x, !.todo = T]]
      PROVE  \E new : ProcMove(p, new)
  <2>1. x \in Labels
    BY DEF Labels
  <2>2. PICK new : new = [r EXCEPT !.pc = x, !.todo = T]
    OBVIOUS
  <2>3. new \in ProcRecords
    BY <2>1, <2>2 DEF ProcRecords
  <2>4. new.pc = x /\ new.batch = r.batch /\ new.pend = r.pend /\ new.done = {}
    BY <1>4, <2>2 DEF ProcRecords
  <2>5. Fits(new) /\ new.pc \notin Starting
    BY <2>4 DEF Fits, Holding, Listing, Writing, Starting, Handling, Settling, Cancelling
  <2>6. new.pend \cup new.done \subseteq Hand(proc[p])
    BY <1>1, <2>4 DEF Hand
  <2> QED BY <1>1, <1>4, <2>2, <2>3, <2>4, <2>5, <2>6, RecordMove
<1>5. r.pc \in {"batch", "run_running", "plan_started"} /\ r.done = {}
  BY <1>1, <1>2 DEF ListRuns, MarkRun, MarkPlan, At, Good, Fits, Handling
<1>6. \A e : r.todo \ {e} \in Todos
  BY DEF ProcRecords, Todos
<1>7. CASE ListRuns(p)
  <2>1. proc' = [proc EXCEPT ![p] = [r EXCEPT !.pc = "run_running", !.todo = BatchRuns(p)]]
    BY <1>1, <1>7 DEF ListRuns
  <2> QED BY <1>3, <1>4, <1>5, <1>7, <2>1 DEF ListRuns, NoStoreCall, QuietMove, QuietCall
<1>8. CASE MarkRun(p)
  <2>1. PICK e \in r.todo : UpdateRun(e, "running") /\
           proc' = IF r.todo = {e}
                   THEN [proc EXCEPT ![p].pc = "plan_started", ![p].todo = BatchPlans(p)]
                   ELSE [proc EXCEPT ![p].todo = @ \ {e}]
    BY <1>1, <1>8 DEF MarkRun
  <2>2. CASE r.todo = {e}
    <3>1. proc' = [proc EXCEPT ![p] = [r EXCEPT !.pc = "plan_started", !.todo = BatchPlans(p)]]
      BY <1>1, <2>1, <2>2
    <3> QED BY <1>3, <1>4, <1>5, <2>1, <3>1 DEF QuietMove, QuietCall
  <2>3. CASE r.todo # {e}
    <3>1. r.pc = "run_running"
      BY <1>1, <1>8 DEF MarkRun, At
    <3>2. [r EXCEPT !.todo = r.todo \ {e}] = [r EXCEPT !.pc = "run_running", !.todo = r.todo \ {e}]
      BY <3>1 DEF ProcRecords
    <3>3. proc' = [proc EXCEPT ![p] = [r EXCEPT !.todo = r.todo \ {e}]]
      BY <1>1, <2>1, <2>3
    <3>4. proc' = [proc EXCEPT ![p] = [r EXCEPT !.pc = "run_running", !.todo = r.todo \ {e}]]
      BY <3>2, <3>3
    <3> QED BY <1>4, <1>5, <1>6, <2>1, <3>4 DEF QuietMove, QuietCall
  <2> QED BY <2>2, <2>3
<1>9. CASE MarkPlan(p)
  <2>1. PICK e \in r.todo : UpdatePlan(e, "started") /\
           proc' = [proc EXCEPT ![p].todo = @ \ {e},
                       ![p].pc = IF r.todo = {e} THEN "create" ELSE @]
    BY <1>1, <1>9 DEF MarkPlan
  <2>2. r.pc = "plan_started"
    BY <1>1, <1>9 DEF MarkPlan, At
  <2>3. PICK x \in {"plan_started", "create"} : x = IF r.todo = {e} THEN "create" ELSE r.pc
    BY <2>2
  <2>4. proc' = [proc EXCEPT ![p] = [r EXCEPT !.todo = r.todo \ {e}, !.pc = x]]
    BY <1>1, <2>1, <2>3
  <2>5. [r EXCEPT !.todo = r.todo \ {e}, !.pc = x] = [r EXCEPT !.pc = x, !.todo = r.todo \ {e}]
    BY DEF ProcRecords
  <2>6. proc' = [proc EXCEPT ![p] = [r EXCEPT !.pc = x, !.todo = r.todo \ {e}]]
    BY <2>4, <2>5
  <2> QED BY <1>4, <1>5, <1>6, <2>1, <2>6 DEF QuietMove, QuietCall
<1> QED BY <1>7, <1>8, <1>9

(* Waiting for the workers and taking up their results.                    *)
LEMMA HandleMoves ==
    ASSUME SchedulerInv, NEW p \in Procs,
           Wake(p) \/ (\E a \in AttemptIds : HandleDone(p, a)) \/ HandleEnd(p)
    PROVE  QuietMove(p)
<1>1. PICK r \in ProcRecords : r = proc[p]
  BY DEF SchedulerInv, SchedulerTypeOK
<1>2. Good(r) /\ \A a \in r.done : worker[a] \in Finished
  BY <1>1 DEF SchedulerInv, ProcInv
<1>3. r.pend \in AttemptSets /\ r.done \in AttemptSets
  BY DEF ProcRecords
<1>4. QuietCall
  BY DEF Wake, HandleDone, HandleEnd, NoStoreCall, QuietCall
<1>5. CASE Wake(p)
  <2>1. PICK D : D = {a \in r.pend : worker[a] \in Finished}
    OBVIOUS
  <2>2. "handle" \in Labels /\ D \in AttemptSets /\ r.pend \ D \in AttemptSets
    BY <1>3, <2>1 DEF Labels, AttemptSets
  <2>3. PICK new : new = [r EXCEPT !.pc = "handle", !.done = D, !.pend = r.pend \ D]
    OBVIOUS
  <2>4. new \in ProcRecords
    BY <2>2, <2>3 DEF ProcRecords
  <2>5. new.pc = "handle" /\ new.batch = r.batch /\ new.pend = r.pend \ D /\ new.done = D
    BY <2>3 DEF ProcRecords
  <2>6. proc' = [proc EXCEPT ![p] = new]
    BY <1>1, <1>5, <2>1, <2>3 DEF Wake
  <2>7. Fits(new) /\ new.pc \notin Starting
    BY <2>5 DEF Fits, Holding, Listing, Writing, Starting, Handling, Settling, Cancelling
  <2>8. new.pend \cup new.done \subseteq Hand(proc[p])
    BY <1>1, <2>1, <2>5 DEF Hand
  <2> QED BY <1>1, <1>4, <2>1, <2>4, <2>5, <2>6, <2>7, <2>8, RecordMove DEF QuietMove
<1>6. ASSUME NEW a \in AttemptIds, HandleDone(p, a) PROVE QuietMove(p)
  <2>1. a \in r.done /\ a \in Existing
    BY <1>1, <1>2, <1>6 DEF HandleDone, Good
  <2>2. PICK x : x = IF workState[attempt[a].work] \in {"cancelled", "unknown"}
                     THEN "release_quietly" ELSE "write_attempt"
    OBVIOUS
  <2>3. PICK res : res = IF workState[attempt[a].work] \in {"cancelled", "unknown"} THEN NoResult
                         ELSE IF LeaseLost(p, a) THEN Result("unknown", "unknown", "pending", FALSE)
                         ELSE OutcomeResult(a)
    OBVIOUS
  <2>4. x \in {"release_quietly", "write_attempt"} /\ x \in Labels
    BY <2>2 DEF Labels
  <2>5. res \in Results /\ (x = "write_attempt" => res.state \in Outcomes)
    <3>1. NoResult \in Results
      BY DEF NoResult, Results
    <3>2. OutcomeResult(a) \in Results /\ OutcomeResult(a).state \in Outcomes
      BY <1>2, <2>1, OutcomeResults DEF SchedulerInv, SchedulerTypeOK
    <3>3. /\ Result("unknown", "unknown", "pending", FALSE) \in Results
          /\ Result("unknown", "unknown", "pending", FALSE).state \in Outcomes
      BY DEF Result, Results, Outcomes, Failures, Reconciliations
    <3> QED BY <2>2, <2>3, <3>1, <3>2, <3>3
  <2>6. a \in Currents /\ r.done \ {a} \in AttemptSets
    BY <1>3 DEF Currents, AttemptSets
  <2>7. PICK new : new = [r EXCEPT !.cur = a, !.done = r.done \ {a}, !.pc = x, !.res = res]
    OBVIOUS
  <2>8. new \in ProcRecords
    BY <2>4, <2>5, <2>6, <2>7 DEF ProcRecords
  <2>9. /\ new.pc = x /\ new.batch = r.batch /\ new.pend = r.pend /\ new.done = r.done \ {a}
        /\ new.cur = a /\ new.res = res
    BY <2>7 DEF ProcRecords
  <2>10. proc' = [proc EXCEPT ![p] = new]
    BY <1>1, <1>6, <2>2, <2>3, <2>7 DEF HandleDone
  <2>11. Fits(new) /\ new.pc \notin Starting
    BY <2>1, <2>4, <2>5, <2>9 DEF Fits, Holding, Listing, Writing, Starting, Handling, Settling, Cancelling
  <2>12. new.pend \cup new.done \subseteq Hand(proc[p])
    BY <1>1, <2>9 DEF Hand
  <2> QED BY <1>1, <1>2, <1>4, <2>8, <2>9, <2>10, <2>11, <2>12, RecordMove DEF QuietMove
<1>7. CASE HandleEnd(p)
  <2>0. clock \in Nat
    BY StoreConstants DEF SchedulerInv, SchedulerTypeOK, StoreTypeOK
  <2>1. r.pc = "handle" /\ r.done = {}
    BY <1>1, <1>7 DEF HandleEnd, At
  <2>2. CASE r.pend = {}
    <3>1. PICK i : i = [IdleProc EXCEPT !.now = clock]
      OBVIOUS
    <3>2. i \in ProcRecords /\ i.done = {} /\ i.pend = {}
      <4>1. IdleProc.done = {} /\ IdleProc.pend = {}
        BY DEF IdleProc
      <4> QED BY <2>0, <3>1, <4>1, IdleRecord DEF ProcRecords
    <3>3. proc' = [proc EXCEPT ![p] = BeginDispatch(p, i)]
      BY <1>1, <1>7, <2>2, <3>1 DEF HandleEnd
    <3> QED BY <1>4, <3>2, <3>3, DispatchMove DEF QuietMove
  <2>3. CASE r.pend # {}
    <3>1. "renew" \in Labels /\ r.pend \in Todos
      BY <1>3 DEF Labels, AttemptSets, Todos
    <3>2. PICK new : new = [r EXCEPT !.pc = "renew", !.beat = clock, !.todo = r.pend]
      OBVIOUS
    <3>3. new \in ProcRecords
      BY <2>0, <3>1, <3>2 DEF ProcRecords
    <3>4. /\ new.pc = "renew" /\ new.batch = r.batch /\ new.pend = r.pend /\ new.done = r.done
          /\ new.todo = r.pend
      BY <3>2 DEF ProcRecords
    <3>5. proc' = [proc EXCEPT ![p] = new]
      BY <1>1, <1>7, <2>3, <3>2 DEF HandleEnd
    <3>6. Fits(new) /\ new.pc \notin Starting
      BY <1>2, <2>1, <3>4 DEF Good, Fits, Holding, Listing, Writing, Starting, Handling, Settling, Cancelling
    <3>7. new.pend \cup new.done \subseteq Hand(proc[p])
      BY <1>1, <3>4 DEF Hand
    <3> QED BY <1>1, <1>2, <1>4, <3>3, <3>4, <3>5, <3>6, <3>7, RecordMove DEF QuietMove
  <2> QED BY <2>2, <2>3
<1> QED BY <1>5, <1>6, <1>7

(* Putting down the attempt at hand.                                       *)
LEMMA PutDown ==
    ASSUME SchedulerInv, NEW p \in Procs, NEW x \in {"handle", "reconcile", "cancel"},
           x = "handle" \/ proc[p].done = {}, x # "handle" => proc[p].pc \in Listing,
           \/ proc' = [proc EXCEPT ![p].pc = x, ![p].cur = None]
           \/ proc' = [proc EXCEPT ![p].pc = x, ![p].cur = None, ![p].res = NoResult]
    PROVE  \E new : ProcMove(p, new)
<1>1. PICK r \in ProcRecords : r = proc[p]
  BY DEF SchedulerInv, SchedulerTypeOK
<1>2. Good(r) /\ \A a \in r.done : worker[a] \in Finished
  BY <1>1 DEF SchedulerInv, ProcInv
<1>3. x \in Labels /\ None \in Currents /\ NoResult \in Results
  BY DEF Labels, Currents, NoResult, Results
<1>4. PICK new \in {[r EXCEPT !.pc = x, !.cur = None],
                    [r EXCEPT !.pc = x, !.cur = None, !.res = NoResult]} :
         proc' = [proc EXCEPT ![p] = new]
  BY <1>1
<1>5. new \in ProcRecords
  BY <1>3, <1>4 DEF ProcRecords
<1>6. new.pc = x /\ new.batch = r.batch /\ new.pend = r.pend /\ new.done = r.done /\ new.todo = r.todo
  BY <1>4 DEF ProcRecords
<1>7. Fits(new) /\ new.pc \notin Starting
  <2>1. x # "handle" => r.todo \subseteq Work
    BY <1>1, <1>2 DEF Good, Fits
  <2> QED BY <1>1, <1>6, <2>1 DEF Fits, Holding, Writing, Starting, Handling, Settling, Cancelling, Listing
<1>8. new.pend \cup new.done \subseteq Hand(proc[p])
  BY <1>1, <1>6 DEF Hand
<1> QED BY <1>1, <1>2, <1>4, <1>5, <1>6, <1>7, <1>8, RecordMove

(* The steps that do so.                                                   *)
LEMMA PutDownMoves ==
    ASSUME SchedulerInv, NEW p \in Procs,
           ReleaseQuietly(p) \/ CompletePlan(p) \/ SettleRequeue(p) \/ SettlePlan(p) \/ CancelRelease(p)
    PROVE  QuietMove(p)
<1>0. /\ \A x \in {"release_quietly", "complete", "settle_requeue", "settle_plan", "cancel_release"} :
            x \in Holding
      /\ \A x \in {"settle_requeue", "settle_plan", "cancel_release"} : x \in Listing /\ x \notin Handling
  BY DEF Holding, Listing, Settling, Cancelling, Handling
<1>1. Good(proc[p])
  BY DEF SchedulerInv, ProcInv
<1>2. CASE ReleaseQuietly(p)
  <2>1. At(p, "release_quietly") /\ proc' = [proc EXCEPT ![p].pc = "handle", ![p].cur = None]
    BY <1>2 DEF ReleaseQuietly
  <2>2. CurLease(p) \in LeaseIds
    BY <1>0, <2>1, InHand DEF At
  <2>3. QuietCall
    BY <1>2, <2>2 DEF ReleaseQuietly, NoStoreCall, QuietCall
  <2> QED BY <2>1, <2>3, PutDown DEF QuietMove
<1>3. CASE CompletePlan(p)
  <2>1. /\ At(p, "complete") /\ CompletePlanIfTerminal(PlanOf[CurWork(p)])
        /\ proc' = [proc EXCEPT ![p].pc = "handle", ![p].cur = None, ![p].res = NoResult]
    BY <1>3 DEF CompletePlan
  <2>2. PlanOf[CurWork(p)] \in Plans
    BY <1>0, <2>1, InHand DEF At
  <2>3. QuietCall
    BY <2>1, <2>2 DEF QuietCall
  <2> QED BY <2>1, <2>3, PutDown DEF QuietMove
<1>4. CASE SettleRequeue(p)
  <2>1. proc[p].pc = "settle_requeue" /\ proc[p].done = {}
    BY <1>0, <1>1, <1>4 DEF SettleRequeue, At, Good, Fits
  <2>2. CurWork(p) \in Work
    BY <1>0, <2>1, InHand
  <2>3. proc[p].now + Backoff \in Nat
    BY SchedulerConstants DEF SchedulerInv, SchedulerTypeOK, ProcRecords
  <2>4. QuietCall
    BY <1>4, <2>2, <2>3 DEF SettleRequeue, NoStoreCall, QuietCall
  <2>5. \/ proc' = [proc EXCEPT ![p].pc = "reconcile", ![p].cur = None, ![p].res = NoResult]
        \/ Quit(p)
    BY <1>4 DEF SettleRequeue
  <2> QED BY <1>0, <2>1, <2>4, <2>5, PutDown, QuitMove DEF QuietMove
<1>5. CASE SettlePlan(p)
  <2>1. proc[p].pc = "settle_plan" /\ proc[p].done = {}
    BY <1>0, <1>1, <1>5 DEF SettlePlan, At, Good, Fits
  <2>2. PlanOf[CurWork(p)] \in Plans
    BY <1>0, <2>1, InHand
  <2>3. QuietCall
    BY <1>5, <2>2 DEF SettlePlan, QuietCall
  <2> QED BY <1>0, <1>5, <2>1, <2>3, PutDown DEF SettlePlan, QuietMove
<1>6. CASE CancelRelease(p)
  <2>1. proc[p].pc = "cancel_release" /\ proc[p].done = {}
    BY <1>0, <1>1, <1>6 DEF CancelRelease, At, Good, Fits
  <2>2. QuietCall
    BY <1>6 DEF CancelRelease, NoStoreCall, QuietCall
  <2> QED BY <1>0, <1>6, <2>1, <2>2, PutDown DEF CancelRelease, QuietMove
<1> QED BY <1>2, <1>3, <1>4, <1>5, <1>6

(* The heartbeat.                                                          *)
LEMMA RenewMoves ==
    ASSUME SchedulerInv, NEW p \in Procs, Renew(p) \/ RenewEnd(p) PROVE QuietMove(p)
<1>1. PICK r \in ProcRecords : r = proc[p]
  BY DEF SchedulerInv, SchedulerTypeOK
<1>2. Good(r)
  BY <1>1 DEF SchedulerInv, ProcInv
<1>3. r.pc = "renew" /\ r.done = {} /\ r.todo \subseteq Existing
  BY <1>1, <1>2 DEF Renew, RenewEnd, At, Good, Fits, Handling
<1>4. CASE Renew(p)
  <2>1. PICK a \in r.todo :
           LET l == attempt[a].lease
               rest == [r EXCEPT !.todo = r.todo \ {a}]
           IN  \/ RenewLease(l, Owner, r.beat) /\ proc' = [proc EXCEPT ![p] = rest]
               \/ /\ proc' = [proc EXCEPT ![p] = [rest EXCEPT !.lost = @ \cup {l}]]
                  /\ NoStoreCall
               \/ proc' = [proc EXCEPT ![p] = rest] /\ NoStoreCall
    BY <1>1, <1>4 DEF Renew
  <2>2. attempt[a].lease \in LeaseIds
    BY <1>3 DEF SchedulerInv, RowInv, Existing
  <2>3. r.todo \ {a} \in Todos /\ r.lost \in LeaseSets /\ r.beat \in Nat
    BY DEF ProcRecords, Todos
  <2>4. r.lost \cup {attempt[a].lease} \in LeaseSets
    BY <2>2, <2>3 DEF LeaseSets
  <2>5. PICK rest : rest = [r EXCEPT !.todo = r.todo \ {a}]
    OBVIOUS
  <2>6. /\ rest \in ProcRecords /\ rest.pc = r.pc /\ rest.batch = r.batch /\ rest.pend = r.pend
        /\ rest.done = r.done /\ rest.todo = r.todo \ {a} /\ rest.lost = r.lost
    BY <2>3, <2>5 DEF ProcRecords
  <2>7. PICK new \in {rest, [rest EXCEPT !.lost = rest.lost \cup {attempt[a].lease}]} :
           proc' = [proc EXCEPT ![p] = new]
    BY <2>1, <2>5
  <2>8. /\ new \in ProcRecords /\ new.pc = "renew" /\ new.batch = r.batch /\ new.pend = r.pend
        /\ new.done = {} /\ new.todo = r.todo \ {a}
    <3>1. CASE new = rest
      BY <1>3, <2>6, <3>1
    <3>2. CASE new = [rest EXCEPT !.lost = rest.lost \cup {attempt[a].lease}]
      BY <1>3, <2>4, <2>6, <3>2 DEF ProcRecords
    <3> QED BY <2>7, <3>1, <3>2
  <2>9. Fits(new) /\ new.pc \notin Starting
    BY <1>3, <2>8 DEF Fits, Holding, Listing, Writing, Starting, Handling, Settling, Cancelling
  <2>10. new.pend \cup new.done \subseteq Hand(proc[p])
    BY <1>1, <2>8 DEF Hand
  <2>11. QuietCall
    BY <2>1, <2>2, <2>3 DEF NoStoreCall, QuietCall
  <2> QED BY <1>1, <2>7, <2>8, <2>9, <2>10, <2>11, RecordMove DEF QuietMove
<1>5. CASE RenewEnd(p)
  <2>1. "wait" \in Labels /\ 0 \in Nat
    BY DEF Labels
  <2>2. PICK new : new = [r EXCEPT !.pc = "wait", !.beat = 0]
    OBVIOUS
  <2>3. /\ new \in ProcRecords /\ new.pc = "wait" /\ new.batch = r.batch /\ new.pend = r.pend
        /\ new.done = {}
    BY <1>3, <2>1, <2>2 DEF ProcRecords
  <2>4. proc' = [proc EXCEPT ![p] = new]
    BY <1>1, <1>5, <2>2 DEF RenewEnd
  <2>5. Fits(new) /\ new.pc \notin Starting
    BY <2>3 DEF Fits, Holding, Listing, Writing, Starting, Handling, Settling, Cancelling
  <2>6. new.pend \cup new.done \subseteq Hand(proc[p])
    BY <1>1, <2>3 DEF Hand
  <2> QED BY <1>1, <1>5, <2>3, <2>4, <2>5, <2>6, RecordMove
          DEF RenewEnd, NoStoreCall, QuietMove, QuietCall
<1> QED BY <1>4, <1>5

(* An attempt of a work item exists.                                       *)
LEMMA LatestExists ==
    ASSUME SchedulerInv, NEW w \in Work, NEW a \in AttemptIds, IsLatestAttempt(a, w)
    PROVE  a \in Existing /\ attempt[a].state # "absent"
<1>1. attempt[a].work = w /\ w # None
  BY StoreConstants DEF IsLatestAttempt, AttemptsOf
<1>2. a \in Existing
  BY <1>1 DEF SchedulerInv, RowInv
<1> QED BY <1>2 DEF Existing

(* What reconcile_unknown decides to write.                                *)
LEMMA ReconciledResults ==
    ASSUME NEW a, NEW res \in Reconciled(a)
    PROVE  res \in Results /\ res.state \in {"succeeded", "failed"}
<1>1. res \in {Result("succeeded", None, "reconciled", FALSE),
               Result("failed", "final", "reconciled", FALSE),
               Result("failed", "infrastructure", "reconciled", TRUE)}
  <2>1. CASE ~Reconcilable(a)
    BY <2>1 DEF Reconciled
  <2>2. CASE Reconcilable(a) /\ job[a] = "succeeded"
    BY <2>2 DEF Reconciled
  <2>3. CASE Reconcilable(a) /\ job[a] = "failed"
    BY <2>3 DEF Reconciled
  <2>4. CASE Reconcilable(a) /\ job[a] # "succeeded" /\ job[a] # "failed"
    BY <2>4 DEF Reconciled
  <2> QED BY <2>1, <2>2, <2>3, <2>4
<1>2. /\ "succeeded" \in Outcomes /\ "failed" \in Outcomes /\ "final" \in Failures
      /\ "infrastructure" \in Failures /\ "reconciled" \in Reconciliations
  BY DEF Outcomes, Failures, Reconciliations
<1>3. /\ Result("succeeded", None, "reconciled", FALSE) \in Results
      /\ Result("failed", "final", "reconciled", FALSE) \in Results
      /\ Result("failed", "infrastructure", "reconciled", TRUE) \in Results
      /\ Result("succeeded", None, "reconciled", FALSE).state = "succeeded"
      /\ Result("failed", "final", "reconciled", FALSE).state = "failed"
      /\ Result("failed", "infrastructure", "reconciled", TRUE).state = "failed"
  BY <1>2 DEF Result, Results
<1> QED BY <1>1, <1>3

(* The loops over the unknown work of a resume.                            *)
LEMMA ReconcileMoves ==
    ASSUME SchedulerInv, NEW p \in Procs, UnknownList(p) \/ ReconcileItem(p) \/ ReconcileEnd(p)
    PROVE  QuietMove(p)
<1>1. PICK r \in ProcRecords : r = proc[p]
  BY DEF SchedulerInv, SchedulerTypeOK
<1>2. Good(r)
  BY <1>1 DEF SchedulerInv, ProcInv
<1>3. r.pc \in {"unknown_list", "reconcile"} /\ r.done = {}
  BY <1>1, <1>2 DEF UnknownList, ReconcileItem, ReconcileEnd, At, Good, Fits, Handling
<1>4. ASSUME NEW T \in SUBSET Work, proc' = [proc EXCEPT ![p] = [r EXCEPT !.pc = "reconcile", !.todo = T]]
      PROVE  \E new : ProcMove(p, new)
  <2>1. "reconcile" \in Labels /\ T \in Todos
    BY DEF Labels, Todos
  <2>2. PICK new : new = [r EXCEPT !.pc = "reconcile", !.todo = T]
    OBVIOUS
  <2>3. /\ new \in ProcRecords /\ new.pc = "reconcile" /\ new.batch = r.batch /\ new.pend = r.pend
        /\ new.done = {} /\ new.todo = T
    BY <1>3, <2>1, <2>2 DEF ProcRecords
  <2>4. Fits(new) /\ new.pc \notin Starting
    BY <2>3 DEF Fits, Holding, Listing, Writing, Starting, Handling, Settling, Cancelling
  <2>5. new.pend \cup new.done \subseteq Hand(proc[p])
    BY <1>1, <2>3 DEF Hand
  <2> QED BY <1>1, <1>4, <2>2, <2>3, <2>4, <2>5, RecordMove
<1>5. CASE UnknownList(p)
  <2>1. PICK T \in SUBSET Work : T = {w \in WorkOfRun(RunServed[p]) : workState[w] = "unknown"}
    BY DEF WorkOfRun
  <2>2. proc' = [proc EXCEPT ![p] = [r EXCEPT !.pc = "reconcile", !.todo = T]]
    BY <1>1, <1>5, <2>1 DEF UnknownList
  <2> QED BY <1>4, <1>5, <2>2 DEF UnknownList, NoStoreCall, QuietMove, QuietCall
<1>6. CASE ReconcileItem(p)
  <2>1. r.pc = "reconcile" /\ r.todo \subseteq Work
    BY <1>1, <1>2, <1>6 DEF ReconcileItem, At, Good, Fits, Listing
  <2>2. PICK w \in r.todo :
          \/ proc' = [proc EXCEPT ![p].todo = @ \ {w}] /\ NoStoreCall
          \/ \E a \in AttemptIds :
                /\ IsLatestAttempt(a, w)
                /\ \E res \in Reconciled(a) :
                      /\ WriteOutcome(a, res.state, None, None,
                                      IF res.state = "succeeded" THEN "completed" ELSE "failed")
                      /\ proc' = [proc EXCEPT ![p].todo = @ \ {w}, ![p].cur = a, ![p].res = res,
                                              ![p].pc = "settle_attempt"]
    BY <1>1, <1>6 DEF ReconcileItem
  <2>3. PICK T \in SUBSET Work : T = r.todo \ {w}
    BY <2>1
  <2>4. CASE proc' = [proc EXCEPT ![p].todo = @ \ {w}] /\ NoStoreCall
    <3>1. [r EXCEPT !.todo = T] = [r EXCEPT !.pc = "reconcile", !.todo = T]
      BY <2>1 DEF ProcRecords
    <3>2. proc' = [proc EXCEPT ![p] = [r EXCEPT !.todo = T]]
      BY <1>1, <2>3, <2>4
    <3>3. proc' = [proc EXCEPT ![p] = [r EXCEPT !.pc = "reconcile", !.todo = T]]
      BY <3>1, <3>2
    <3> QED BY <1>4, <2>4, <3>3 DEF NoStoreCall, QuietMove, QuietCall
  <2>5. ASSUME NEW a \in AttemptIds, IsLatestAttempt(a, w), NEW res \in Reconciled(a),
               WriteOutcome(a, res.state, None, None,
                            IF res.state = "succeeded" THEN "completed" ELSE "failed"),
               proc' = [proc EXCEPT ![p].todo = @ \ {w}, ![p].cur = a, ![p].res = res,
                                    ![p].pc = "settle_attempt"]
        PROVE  QuietMove(p)
    <3>1. a \in Existing /\ attempt[a].state # "absent"
      BY <2>1, <2>5, LatestExists
    <3>2. res \in Results /\ res.state \in {"succeeded", "failed"}
      BY ReconciledResults
    <3>3. "settle_attempt" \in Labels /\ T \in Todos /\ a \in Currents
      BY DEF Labels, Todos, Currents
    <3>4. PICK new : new = [r EXCEPT !.todo = T, !.cur = a, !.res = res, !.pc = "settle_attempt"]
      OBVIOUS
    <3>5. /\ new \in ProcRecords /\ new.pc = "settle_attempt" /\ new.batch = r.batch
          /\ new.pend = r.pend /\ new.done = {} /\ new.todo = T /\ new.cur = a /\ new.res = res
      BY <1>3, <3>2, <3>3, <3>4 DEF ProcRecords
    <3>6. proc' = [proc EXCEPT ![p] = new]
      BY <1>1, <2>3, <2>5, <3>4
    <3>7. res.state \in Outcomes
      BY <3>2 DEF Outcomes
    <3>8. Fits(new) /\ new.pc \notin Starting
      BY <3>1, <3>5, <3>7 DEF Fits, Holding, Listing, Writing, Starting, Handling, Settling, Cancelling
    <3>9. new.pend \cup new.done \subseteq Hand(proc[p])
      BY <1>1, <3>5 DEF Hand
    <3>10. \E new1 : ProcMove(p, new1)
      BY <1>1, <3>5, <3>6, <3>8, <3>9, RecordMove
    <3>11. PICK sub \in SubmissionStates : WriteOutcome(a, res.state, None, None, sub)
      BY <2>5 DEF SubmissionStates
    <3>12. res.state \in AttemptStates
      BY <3>2 DEF AttemptStates
    <3>13. QuietCall
      BY <3>1, <3>11, <3>12 DEF QuietCall
    <3> QED BY <3>10, <3>13 DEF QuietMove
  <2> QED BY <2>2, <2>4, <2>5
<1>7. CASE ReconcileEnd(p)
  <2>1. Quit(p) \/ proc' = [proc EXCEPT ![p] = BeginDispatch(p, proc[p])]
    BY <1>7 DEF ReconcileEnd
  <2>2. \E new : ProcMove(p, new)
    BY <1>1, <1>3, <2>1, QuitMove, DispatchMove
  <2> QED BY <1>7, <2>2 DEF ReconcileEnd, NoStoreCall, QuietMove, QuietCall
<1> QED BY <1>5, <1>6, <1>7

(* The loop of cancel_active.                                              *)
LEMMA CancelListMoves ==
    ASSUME SchedulerInv, NEW p \in Procs, CancelList(p) \/ CancelSkip(p) \/ CancelItem(p)
    PROVE  QuietMove(p)
<1>1. PICK r \in ProcRecords : r = proc[p]
  BY DEF SchedulerInv, SchedulerTypeOK
<1>2. Good(r)
  BY <1>1 DEF SchedulerInv, ProcInv
<1>3. r.done = {} /\ (r.pc = "cancel" => r.todo \subseteq Work) /\ QuietCall
  BY <1>1, <1>2 DEF CancelList, CancelSkip, CancelItem, At, Good, Fits, Handling, Listing,
                    NoStoreCall, QuietCall
<1>4. ASSUME NEW T \in SUBSET Work, proc' = [proc EXCEPT ![p] = [r EXCEPT !.pc = "cancel", !.todo = T]]
      PROVE  \E new : ProcMove(p, new)
  <2>1. "cancel" \in Labels /\ T \in Todos
    BY DEF Labels, Todos
  <2>2. PICK new : new = [r EXCEPT !.pc = "cancel", !.todo = T]
    OBVIOUS
  <2>3. /\ new \in ProcRecords /\ new.pc = "cancel" /\ new.batch = r.batch /\ new.pend = r.pend
        /\ new.done = {} /\ new.todo = T
    BY <1>3, <2>1, <2>2 DEF ProcRecords
  <2>4. Fits(new) /\ new.pc \notin Starting
    BY <2>3 DEF Fits, Holding, Listing, Writing, Starting, Handling, Settling, Cancelling
  <2>5. new.pend \cup new.done \subseteq Hand(proc[p])
    BY <1>1, <2>3 DEF Hand
  <2> QED BY <1>1, <1>4, <2>2, <2>3, <2>4, <2>5, RecordMove
<1>5. CASE CancelList(p)
  <2>1. PICK T \in SUBSET Work : T = {w \in WorkOfRun(RunServed[p]) : workState[w] = "cancel_requested"}
    BY DEF WorkOfRun
  <2>2. proc' = [proc EXCEPT ![p] = [r EXCEPT !.pc = "cancel", !.todo = T]]
    BY <1>1, <1>5, <2>1 DEF CancelList
  <2> QED BY <1>3, <1>4, <2>2 DEF QuietMove
<1>6. CASE CancelSkip(p)
  <2>1. r.pc = "cancel"
    BY <1>1, <1>6 DEF CancelSkip, At
  <2>2. PICK w \in r.todo : proc' = [proc EXCEPT ![p].todo = @ \ {w}]
    BY <1>1, <1>6 DEF CancelSkip
  <2>3. PICK T \in SUBSET Work : T = r.todo \ {w}
    BY <1>3, <2>1
  <2>4. [r EXCEPT !.todo = T] = [r EXCEPT !.pc = "cancel", !.todo = T]
    BY <2>1 DEF ProcRecords
  <2>5. proc' = [proc EXCEPT ![p] = [r EXCEPT !.todo = T]]
    BY <1>1, <2>2, <2>3
  <2>6. proc' = [proc EXCEPT ![p] = [r EXCEPT !.pc = "cancel", !.todo = T]]
    BY <2>4, <2>5
  <2> QED BY <1>3, <1>4, <2>6 DEF QuietMove
<1>7. CASE CancelItem(p)
  <2>1. r.pc = "cancel"
    BY <1>1, <1>7 DEF CancelItem, At
  <2>2. PICK w \in r.todo, a \in AttemptIds, res \in {Confirmed, Unconfirmed} :
           /\ IsLatestAttempt(a, w)
           /\ proc' = [proc EXCEPT ![p].pc = "cancel_attempt", ![p].cur = a,
                                   ![p].todo = @ \ {w}, ![p].res = res]
    BY <1>1, <1>7 DEF CancelItem
  <2>3. a \in Existing
    BY <1>3, <2>1, <2>2, LatestExists
  <2>4. PICK T \in SUBSET Work : T = r.todo \ {w}
    BY <1>3, <2>1
  <2>5. res \in Results /\ res.state \in Outcomes
    <3>1. /\ "cancelled" \in Outcomes /\ "unknown" \in Outcomes /\ "unknown" \in Failures
          /\ "pending" \in Reconciliations
      BY DEF Outcomes, Failures, Reconciliations
    <3>2. /\ Confirmed \in Results /\ Confirmed.state \in Outcomes
          /\ Unconfirmed \in Results /\ Unconfirmed.state \in Outcomes
      BY <3>1 DEF Confirmed, Unconfirmed, Result, Results
    <3> QED BY <2>2, <3>2
  <2>6. "cancel_attempt" \in Labels /\ T \in Todos /\ a \in Currents
    BY DEF Labels, Todos, Currents
  <2>7. PICK new : new = [r EXCEPT !.pc = "cancel_attempt", !.cur = a, !.todo = T, !.res = res]
    OBVIOUS
  <2>8. /\ new \in ProcRecords /\ new.pc = "cancel_attempt" /\ new.batch = r.batch
        /\ new.pend = r.pend /\ new.done = {} /\ new.todo = T /\ new.cur = a /\ new.res = res
    BY <1>3, <2>5, <2>6, <2>7 DEF ProcRecords
  <2>9. proc' = [proc EXCEPT ![p] = new]
    BY <1>1, <2>2, <2>4, <2>7
  <2>10. Fits(new) /\ new.pc \notin Starting
    BY <2>2, <2>3, <2>5, <2>8 DEF Fits, Holding, Listing, Writing, Starting, Handling, Settling, Cancelling
  <2>11. new.pend \cup new.done \subseteq Hand(proc[p])
    BY <1>1, <2>8 DEF Hand
  <2> QED BY <1>1, <1>3, <2>8, <2>9, <2>10, <2>11, RecordMove DEF QuietMove
<1> QED BY <1>5, <1>6, <1>7

(* Handing the attempts of a batch to the thread pool, and a crash.        *)
LEMMA PoolMoves ==
    ASSUME SchedulerInv, NEW p \in Procs, AttemptRunning(p) \/ Crash(p)
    PROVE  QuietMove(p)
<1>1. CASE AttemptRunning(p)
  <2>1. PICK r \in ProcRecords : r = proc[p]
    BY DEF SchedulerInv, SchedulerTypeOK
  <2>2. Good(r) /\ r.pc = "attempt_running"
    BY <1>1, <2>1 DEF SchedulerInv, ProcInv, AttemptRunning, At
  <2>3. r.done = {} /\ r.cur = Cur(p) /\ "attempt_running" \in Holding /\ "attempt_running" \in Starting
    BY <2>1, <2>2 DEF Good, Fits, Handling, Holding, Starting, Cur
  <2>4. Cur(p) \in AttemptIds
    BY <2>1, <2>2, <2>3, InHand
  <2>5. PICK x \in {"wait", "create"} : x = IF r.batch = {} THEN "wait" ELSE "create"
    OBVIOUS
  <2>6. PICK P : P = r.pend \cup {Cur(p)}
    OBVIOUS
  <2>7. x \in Labels /\ P \in AttemptSets /\ None \in Currents
    BY <2>4, <2>6 DEF Labels, AttemptSets, Currents, ProcRecords
  <2>8. PICK new : new = [r EXCEPT !.pc = x, !.cur = None, !.pend = P]
    OBVIOUS
  <2>9. /\ new \in ProcRecords /\ new.pc = x /\ new.batch = r.batch /\ new.pend = P
        /\ new.done = {}
    BY <2>3, <2>7, <2>8 DEF ProcRecords
  <2>10. proc' = [proc EXCEPT ![p] = new]
    BY <1>1, <2>1, <2>5, <2>6, <2>8 DEF AttemptRunning
  <2>11. Fits(new) /\ new.pc \notin Starting
    BY <2>9 DEF Fits, Holding, Listing, Writing, Starting, Handling, Settling, Cancelling
  <2>12. new.pend \cup new.done \subseteq Hand(proc[p])
    BY <2>1, <2>2, <2>3, <2>4, <2>6, <2>9 DEF Hand
  <2>13. \E new1 : ProcMove(p, new1)
    BY <2>1, <2>9, <2>10, <2>11, <2>12, RecordMove
  <2>14. "running" \in AttemptStates /\ TransitionAttempt(Cur(p), "running", None, None)
    BY <1>1 DEF AttemptRunning, AttemptStates
  <2> QED BY <2>4, <2>13, <2>14 DEF QuietMove, QuietCall
<1>2. CASE Crash(p)
  BY <1>2, QuitMove DEF Crash, NoStoreCall, QuietMove, QuietCall
<1> QED BY <1>1, <1>2

(* The steps of a process.                                                 *)
ProcStep(p) == Command(p) \/ Dispatch(p) \/ Reconcile(p) \/ CancelActive(p) \/ Crash(p)

(* Every step of a process but two is such a move.                         *)
LEMMA ProcMoves ==
    ASSUME SchedulerInv, NEW p \in Procs, ProcStep(p)
    PROVE  QuietMove(p) \/ LeaseOne(p) \/ CreateNext(p)
<1>1. CASE Dispatch(p)
  BY <1>1, EndMoves, MarkMoves, StartMoves, PoolMoves, HandleMoves, PutDownMoves, WriteMoves,
     RetryMoves, ReleaseMoves, RenewMoves DEF Dispatch
<1>2. CASE Reconcile(p)
  BY <1>2, ReconcileMoves, SettleMoves, PutDownMoves DEF Reconcile
<1>3. CASE CancelActive(p)
  BY <1>3, CancelListMoves, CancelMoves, PutDownMoves, EndMoves DEF CancelActive
<1> QED BY <1>1, <1>2, <1>3, CommandMoves, PoolMoves DEF ProcStep

-----------------------------------------------------------------------------
(* What a step does to the workers, jobs and counters.                     *)
Sides ==
    /\ worker' \in [AttemptIds -> WorkerStates] /\ job' \in [AttemptIds -> JobStates]
    /\ started' \in [Runs -> BOOLEAN] /\ crashes' \in 0 .. MaxCrashes
    /\ \A a \in AttemptIds : worker'[a] # "none" => a \in Existing

(* A finished worker stays finished, unless p hands its attempt to a new   *)
(* thread.                                                                 *)
WorkersKept(p) ==
    \A a \in AttemptIds : worker[a] \in Finished =>
        worker'[a] \in Finished \/ (a \in Hand(proc[p]) /\ proc'[p].done = {})

(* Steps that leave them alone.                                            *)
LEMMA SidesSame ==
    ASSUME SchedulerInv, NEW p \in Procs, OnlyProc PROVE Sides /\ WorkersKept(p)
BY DEF SchedulerInv, SchedulerTypeOK, RowInv, OnlyProc, Sides, WorkersKept

(* Every step of a process changes them so.                                *)
LEMMA ProcSides ==
    ASSUME SchedulerInv, NEW p \in Procs, ProcStep(p) PROVE Sides /\ WorkersKept(p)
<1>1. CASE AttemptRunning(p)
  <2>1. Good(proc[p]) /\ proc[p].pc = "attempt_running" /\ proc[p] \in ProcRecords
    BY <1>1 DEF SchedulerInv, SchedulerTypeOK, ProcInv, AttemptRunning, At
  <2>2. "attempt_running" \in Holding /\ "attempt_running" \in Starting
    BY DEF Holding, Starting
  <2>3. Cur(p) \in AttemptIds /\ Cur(p) \in Existing
    BY <2>1, <2>2, InHand DEF Existing
  <2>4. PICK P : P = proc[p].pend \cup {Cur(p)}
    OBVIOUS
  <2>5. P \subseteq Existing /\ P \subseteq Hand(proc[p])
    BY <2>1, <2>2, <2>3, <2>4 DEF Good, Hand, Cur
  <2>6. PICK last \in BOOLEAN : last = (proc[p].batch = {})
    OBVIOUS
  <2>7. worker' = [a \in AttemptIds |-> IF last /\ a \in P THEN "ready" ELSE worker[a]]
    BY <1>1, <2>4, <2>6 DEF AttemptRunning
  <2>8. "ready" \in WorkerStates
    BY DEF WorkerStates
  <2>9. proc'[p].done = {}
    <3>1. proc[p].done = {}
      BY <2>1 DEF Good, Fits, Handling
    <3>2. proc'[p].done = proc[p].done
      BY <1>1, <2>1 DEF AttemptRunning, SchedulerInv, SchedulerTypeOK, ProcRecords
    <3> QED BY <3>1, <3>2
  <2>10. Sides
    <3>1. worker' \in [AttemptIds -> WorkerStates]
      BY <2>7, <2>8 DEF SchedulerInv, SchedulerTypeOK
    <3>2. \A a \in AttemptIds : worker'[a] # "none" => a \in Existing
      BY <2>5, <2>7 DEF SchedulerInv, RowInv
    <3>3. UNCHANGED <<job, started, crashes>>
      BY <1>1 DEF AttemptRunning
    <3> QED BY <3>1, <3>2, <3>3 DEF Sides, SchedulerInv, SchedulerTypeOK
  <2>11. WorkersKept(p)
    BY <2>5, <2>7, <2>9 DEF WorkersKept
  <2> QED BY <2>10, <2>11
<1>2. CASE Crash(p)
  <2>1. worker' = [a \in AttemptIds |-> IF a \in Threads(p) /\ worker[a] \notin Finished
                                        THEN "dead" ELSE worker[a]]
    BY <1>2 DEF Crash
  <2>2. Good(proc[p]) /\ "dead" \in WorkerStates
    BY DEF SchedulerInv, ProcInv, WorkerStates
  <2>3. worker' \in [AttemptIds -> WorkerStates]
    BY <2>1, <2>2 DEF SchedulerInv, SchedulerTypeOK
  <2>4. \A a \in AttemptIds : worker'[a] # "none" => a \in Existing
    BY <2>1, <2>2 DEF SchedulerInv, RowInv, Good, Threads
  <2>5. crashes' \in 0 .. MaxCrashes
    BY <1>2, SchedulerConstants DEF Crash, SchedulerInv, SchedulerTypeOK
  <2>6. UNCHANGED <<job, started>>
    BY <1>2 DEF Crash
  <2>7. Sides
    BY <2>3, <2>4, <2>5, <2>6 DEF Sides, SchedulerInv, SchedulerTypeOK
  <2>8. WorkersKept(p)
    BY <2>1 DEF WorkersKept
  <2> QED BY <2>7, <2>8
<1>3. CASE StartRun(p) \/ ReconcileEnd(p)
  <2>1. UNCHANGED <<worker, job, crashes>>
    BY <1>3 DEF StartRun, ReconcileEnd
  <2>2. started' = started \/ started' = [started EXCEPT ![RunServed[p]] = TRUE]
    BY <1>3 DEF StartRun, ReconcileEnd
  <2>3. started' \in [Runs -> BOOLEAN]
    BY <2>2 DEF SchedulerInv, SchedulerTypeOK
  <2> QED BY <2>1, <2>3 DEF Sides, WorkersKept, SchedulerInv, SchedulerTypeOK, RowInv
<1>4. CASE CancelItem(p)
  <2>1. UNCHANGED <<worker, started, crashes>>
    BY <1>4 DEF CancelItem
  <2>2. job' = job \/ \E a \in AttemptIds : job' = [job EXCEPT ![a] = "cancelled"]
    BY <1>4 DEF CancelItem
  <2>3. job' \in [AttemptIds -> JobStates]
    BY <2>2 DEF SchedulerInv, SchedulerTypeOK, JobStates
  <2> QED BY <2>1, <2>3 DEF Sides, WorkersKept, SchedulerInv, SchedulerTypeOK, RowInv
<1>5. CASE ~(AttemptRunning(p) \/ Crash(p) \/ StartRun(p) \/ ReconcileEnd(p) \/ CancelItem(p))
  <2>1. CASE Command(p)
    BY <1>5, <2>1, SidesSame DEF Command, ResumeRun, Cancel
  <2>2. CASE Dispatch(p)
    <3>1. OnlyProc
      BY <1>5, <2>2 DEF Dispatch, LeaseOne, LeaseNone, LeaseRefused, ListRuns, MarkRun, MarkPlan,
         CreateNext, CreateRefused, WorkRunning, TrialRunning, Wake, HandleDone, ReleaseQuietly,
         WriteAttempt, WriteTrial, WriteWork, RetryCheck, Requeue, RequeueRefused, Abort, Release,
         ReleaseRefused, UnknownTrial, UnknownWork, CompletePlan, HandleEnd, Renew, RenewEnd
    <3> QED BY <3>1, SidesSame
  <2>3. CASE Reconcile(p)
    <3>1. OnlyProc
      BY <1>5, <2>3 DEF Reconcile, UnknownList, ReconcileItem, SettleAttempt, SettleTrial, SettleWork,
                        SettleRetry, SettleRequeue, SettlePlan
    <3> QED BY <3>1, SidesSame
  <2>4. CASE CancelActive(p)
    <3>1. OnlyProc
      BY <1>5, <2>4 DEF CancelActive, CancelList, CancelSkip, CancelAttempt, CancelWork, CancelTrial,
                        CancelComplete, CancelRelease, CancelEnd
    <3> QED BY <3>1, SidesSame
  <2> QED BY <1>5, <2>1, <2>2, <2>3, <2>4 DEF ProcStep
<1> QED BY <1>1, <1>2, <1>3, <1>4, <1>5

-----------------------------------------------------------------------------
(* Rows last: an attempt that exists stays, and so does a lease without    *)
(* attempts unless one is inserted for it.                                 *)
LEMMA RowsLast ==
    ASSUME SchedulerInv, Steady, LeaseChange
    PROVE  Existing' = Existing /\ Unused \subseteq Unused'
<1>1. \A a \in AttemptIds : /\ attempt'[a].state = "absent" <=> attempt[a].state = "absent"
                            /\ attempt'[a].lease = attempt[a].lease
  BY DEF Steady, AttemptKept, SameIdentity
<1>2. \A l \in LeaseIds : lease[l].state # "absent" => lease'[l].state # "absent"
  BY GrantedKept
<1>3. \A l : LeaseAttempts(l)' = LeaseAttempts(l)
  BY <1>1 DEF LeaseAttempts
<1> QED BY <1>1, <1>2, <1>3 DEF Existing, Unused

(* A record stays good as long as its rows last.                           *)
LEMMA GoodLasts ==
    ASSUME NEW r, Good(r), Existing \subseteq Existing', r.batch \subseteq Unused'
    PROVE  Good(r)'
BY DEF Good, Fits

(* How a step of p that gives it the record new keeps ProcInv.             *)
LEMMA RecordsKept ==
    ASSUME SchedulerInv, NEW p \in Procs, NEW new \in ProcRecords,
           proc' = [proc EXCEPT ![p] = new], WorkersKept(p),
           Good(new)', \A a \in new.done : worker[a] \in Finished,
           \A q \in Procs \ {p} :
              /\ Good(proc[q])'
              /\ new.batch \cap proc[q].batch = {} /\ Hand(new) \cap Hand(proc[q]) = {}
    PROVE  ProcInv' /\ proc' \in [Procs -> ProcRecords]
<1>1. proc' \in [Procs -> ProcRecords]
  BY DEF SchedulerInv, SchedulerTypeOK
<1>2. proc'[p] = new /\ \A q \in Procs \ {p} : proc'[q] = proc[q]
  BY DEF SchedulerInv, SchedulerTypeOK
<1>3. ASSUME NEW q \in Procs PROVE Good(proc[q])'
  <2>1. CASE q = p
    BY <1>2, <2>1 DEF Good, Fits
  <2>2. CASE q # p
    BY <1>2, <2>2 DEF Good, Fits
  <2> QED BY <2>1, <2>2
<1>4. ASSUME NEW q \in Procs, NEW a \in proc'[q].done PROVE worker'[a] \in Finished
  <2>0. a \in AttemptIds
    BY <1>1 DEF ProcRecords, AttemptSets
  <2>1. CASE q = p
    BY <1>2, <1>4, <2>0, <2>1 DEF WorkersKept
  <2>2. CASE q # p
    <3>1. worker[a] \in Finished /\ a \in Hand(proc[q])
      BY <1>2, <1>4, <2>2 DEF SchedulerInv, ProcInv, Hand
    <3>2. a \notin Hand(proc[p])
      BY <2>2, <3>1 DEF SchedulerInv, ProcInv
    <3> QED BY <2>0, <3>1, <3>2 DEF WorkersKept
  <2> QED BY <2>1, <2>2
<1>5. ASSUME NEW q \in Procs, NEW s \in Procs, q # s
      PROVE  proc'[q].batch \cap proc'[s].batch = {} /\ Hand(proc'[q]) \cap Hand(proc'[s]) = {}
  <2>1. CASE q # p /\ s # p
    BY <1>2, <1>5, <2>1 DEF SchedulerInv, ProcInv
  <2>2. CASE q = p \/ s = p
    BY <1>2, <1>5, <2>2
  <2> QED BY <2>1, <2>2
<1>6. \A r : Hand(r)' = Hand(r)
  BY DEF Hand
<1>7. ASSUME NEW q \in Procs, NEW s \in Procs, q # s
      PROVE  proc'[q].batch \cap proc'[s].batch = {} /\ Hand(proc[q])' \cap Hand(proc[s])' = {}
  BY <1>5, <1>7 DEF Hand
<1> QED BY <1>1, <1>3, <1>4, <1>7 DEF ProcInv

(* A move keeps ProcInv.                                                   *)
LEMMA MoveKeeps ==
    ASSUME SchedulerInv, NEW p \in Procs, QuietMove(p), WorkersKept(p)
    PROVE  ProcInv' /\ proc' \in [Procs -> ProcRecords]
<1>1. PICK new : ProcMove(p, new)
  BY DEF QuietMove
<1>2. Steady /\ LeaseChange
  BY QuietAttempts, QuietLeases DEF QuietMove, SchedulerInv, SchedulerTypeOK, LeaseChange
<1>3. Existing \subseteq Existing' /\ Unused \subseteq Unused'
  BY <1>2, RowsLast
<1>4. Good(new)'
  <2>1. new.batch \subseteq Unused' /\ Good(new)
    BY <1>1, <1>3 DEF ProcMove, Good
  <2> QED BY <1>3, <2>1, GoodLasts
<1>5. ASSUME NEW q \in Procs \ {p}
      PROVE  Good(proc[q])' \/ proc'[q] # proc[q]
  <2>1. PICK r : r = proc[q]
    OBVIOUS
  <2>2. Good(r) /\ r.batch \subseteq Unused'
    BY <1>3, <2>1 DEF SchedulerInv, ProcInv, Good
  <2>3. Good(r)'
    BY <1>3, <2>2, GoodLasts
  <2> QED BY <2>1, <2>3 DEF Good, Fits
<1>6. ASSUME NEW q \in Procs \ {p}
      PROVE  Good(proc[q])' /\ new.batch \cap proc[q].batch = {} /\ Hand(new) \cap Hand(proc[q]) = {}
  <2>1. proc'[q] = proc[q]
    BY <1>1 DEF ProcMove, SchedulerInv, SchedulerTypeOK
  <2>2. proc[p].batch \cap proc[q].batch = {} /\ Hand(proc[p]) \cap Hand(proc[q]) = {}
    BY DEF SchedulerInv, ProcInv
  <2> QED BY <1>1, <1>5, <2>1, <2>2 DEF ProcMove
<1> QED BY <1>1, <1>4, <1>6, RecordsKept DEF ProcMove

(* So does the granting of a lease: no batch holds a lease that does not   *)
(* exist.                                                                  *)
LEMMA LeaseKeeps ==
    ASSUME SchedulerInv, NEW p \in Procs, LeaseOne(p)
    PROVE  LeaseCall /\ ProcInv' /\ proc' \in [Procs -> ProcRecords]
<1>1. PICK r \in ProcRecords : r = proc[p]
  BY DEF SchedulerInv, SchedulerTypeOK
<1>2. Good(r) /\ r.pc = "lease" /\ r.done = {}
  BY <1>1 DEF SchedulerInv, ProcInv, LeaseOne, At, Good, Fits, Handling
<1>3. PICK l \in LeaseIds, w \in Work :
         /\ LeaseNextWorkItem(l, w, Owner, r.now)
         /\ proc' = [proc EXCEPT ![p].batch = r.batch \cup {l},
                ![p].pc = IF Cardinality(r.batch \cup {l}) = GlobalLimit THEN "batch" ELSE "lease"]
  BY <1>1 DEF LeaseOne
<1>4. LeaseCall
  <2>1. r.now \in Nat
    BY DEF ProcRecords
  <2> QED BY <1>3, <2>1 DEF LeaseCall
<1>5. Steady /\ LeaseChange
  BY <1>4, QuietAttempts, CallChanges DEF StoreCall, SchedulerInv, SchedulerTypeOK
<1>6. Existing \subseteq Existing' /\ Unused \subseteq Unused'
  BY <1>5, RowsLast
<1>7. l \in Unused' /\ l \notin Unused
  <2>1. lease[l].state = "absent"
    BY <1>3 DEF LeaseNextWorkItem, IsFreshLease
  <2>2. lease'[l].state = "active"
    <3>1. lease' = Grant(ExpiredLeases(Due(Work, r.now)), l, w, Owner, r.now)
      BY <1>3 DEF LeaseNextWorkItem
    <3> QED BY <3>1 DEF Grant, ExpiredLeases
  <2>3. \A a \in AttemptIds : attempt'[a].lease # l
    <3>1. \A a \in AttemptIds : attempt[a].lease # l
      BY <2>1, StoreConstants DEF SchedulerInv, AttemptIdentity
    <3>2. \A a \in AttemptIds : attempt'[a].lease = attempt[a].lease
      BY <1>5 DEF Steady, AttemptKept, SameIdentity
    <3> QED BY <3>1, <3>2
  <2>4. LeaseAttempts(l)' = {}
    BY <2>3 DEF LeaseAttempts
  <2>5. lease'[l].state # "absent"
    BY <2>2
  <2> QED BY <2>1, <2>4, <2>5 DEF Unused
<1>8. PICK x \in {"batch", "lease"} :
         x = IF Cardinality(r.batch \cup {l}) = GlobalLimit THEN "batch" ELSE "lease"
  OBVIOUS
<1>9. PICK new : new = [r EXCEPT !.batch = r.batch \cup {l}, !.pc = x]
  OBVIOUS
<1>10. x \in Labels /\ r.batch \cup {l} \in LeaseSets
  BY DEF Labels, LeaseSets, ProcRecords
<1>11. /\ new \in ProcRecords /\ new.pc = x /\ new.batch = r.batch \cup {l} /\ new.pend = r.pend
       /\ new.done = {}
  BY <1>2, <1>9, <1>10 DEF ProcRecords
<1>12. proc' = [proc EXCEPT ![p] = new]
  BY <1>1, <1>3, <1>8, <1>9
<1>13. Good(new)'
  <2>1. Fits(new)'
    BY <1>11 DEF Fits, Holding, Listing, Writing, Starting, Handling, Settling, Cancelling
  <2>2. new.pend \cup new.done \subseteq Existing' /\ new.batch \subseteq Unused'
    BY <1>2, <1>6, <1>7, <1>11 DEF Good
  <2> QED BY <2>1, <2>2 DEF Good
<1>14. ASSUME NEW q \in Procs \ {p}
       PROVE  Good(proc[q])' /\ new.batch \cap proc[q].batch = {} /\ Hand(new) \cap Hand(proc[q]) = {}
  <2>1. PICK s : s = proc[q]
    OBVIOUS
  <2>2. Good(s) /\ s.batch \subseteq Unused
    BY <2>1 DEF SchedulerInv, ProcInv, Good
  <2>3. Good(s)'
    BY <1>6, <2>2, GoodLasts
  <2>4. proc'[q] = s
    BY <1>12, <2>1 DEF SchedulerInv, SchedulerTypeOK
  <2>5. Good(proc[q])'
    BY <2>3, <2>4 DEF Good, Fits
  <2>6. r.batch \cap s.batch = {} /\ Hand(r) \cap Hand(s) = {}
    BY <1>1, <2>1 DEF SchedulerInv, ProcInv
  <2>7. Hand(new) \subseteq Hand(r)
    BY <1>11 DEF Hand, Starting
  <2> QED BY <1>7, <1>11, <2>1, <2>2, <2>5, <2>6, <2>7
<1>15. WorkersKept(p)
  BY DEF LeaseOne, OnlyProc, WorkersKept
<1> QED BY <1>4, <1>11, <1>12, <1>13, <1>14, <1>15, RecordsKept

(* And the insertion of an attempt: its lease leaves the only batch it is  *)
(* in, and nobody else has the attempt in hand.                            *)
LEMMA CreateKeeps ==
    ASSUME SchedulerInv, NEW p \in Procs, CreateNext(p)
    PROVE  /\ ProcInv' /\ proc' \in [Procs -> ProcRecords] /\ InsertCall
           /\ \E l \in Unused, a \in AttemptIds, w \in Work, n, k \in Nat :
                 InsertAttempt(a, w, n, 1, k, l)
<1>1. PICK r \in ProcRecords : r = proc[p]
  BY DEF SchedulerInv, SchedulerTypeOK
<1>2. Good(r) /\ r.pc = "create" /\ r.done = {}
  BY <1>1 DEF SchedulerInv, ProcInv, CreateNext, At, Good, Fits, Handling
<1>3. PICK l \in LeaseIds, a \in AttemptIds, k \in 0 .. MaxNumber - 1 :
         /\ l \in r.batch
         /\ CreateAttemptForLease(a, lease[l].work, 1, k, l, r.now)
         /\ proc' = [proc EXCEPT ![p].pc = "work_running", ![p].cur = a, ![p].batch = r.batch \ {l}]
  BY <1>1 DEF CreateNext, NextLease
<1>4. l \in Unused /\ lease[l].work \in Work /\ k \in Nat /\ r.now \in Nat
  BY <1>2, <1>3 DEF Good, Unused, SchedulerInv, RowInv, ProcRecords
<1>5. PICK n \in 1 .. MaxNumber : InsertAttempt(a, lease[l].work, n, 1, k, l)
  BY <1>3 DEF CreateAttemptForLease
<1>6. InsertCall
  BY <1>3, <1>4 DEF InsertCall
<1>7. /\ UNCHANGED lease /\ attempt[a].state = "absent" /\ attempt'[a].state = "created"
      /\ attempt'[a].lease = l /\ \A b \in AttemptIds \ {a} : attempt'[b] = attempt[b]
  BY <1>5 DEF InsertAttempt, IsFreshAttempt, SchedulerInv, SchedulerTypeOK, StoreTypeOK
<1>8. Existing' = Existing \cup {a} /\ a \notin Existing
  BY <1>7 DEF Existing
<1>9. Unused \ {l} \subseteq Unused'
  <2>1. ASSUME NEW j \in Unused \ {l} PROVE j \in Unused'
    <3>1. LeaseAttempts(j) = {} /\ j \in LeaseIds /\ lease[j].state # "absent"
      BY DEF Unused
    <3>2. LeaseAttempts(j)' = {}
      BY <1>7, <3>1 DEF LeaseAttempts
    <3> QED BY <1>7, <3>1, <3>2 DEF Unused
  <2> QED BY <2>1
<1>10. "work_running" \in Labels /\ a \in Currents /\ r.batch \ {l} \in LeaseSets
  BY DEF Labels, Currents, LeaseSets, ProcRecords
<1>11. PICK new : new = [r EXCEPT !.pc = "work_running", !.cur = a, !.batch = r.batch \ {l}]
  OBVIOUS
<1>12. /\ new \in ProcRecords /\ new.pc = "work_running" /\ new.batch = r.batch \ {l}
       /\ new.pend = r.pend /\ new.done = {} /\ new.cur = a
  BY <1>2, <1>10, <1>11 DEF ProcRecords
<1>13. proc' = [proc EXCEPT ![p] = new]
  BY <1>1, <1>3, <1>11
<1>14. Good(new)'
  <2>1. a \in Existing'
    BY <1>8
  <2>2. Fits(new)'
    BY <1>12, <2>1 DEF Fits, Holding, Listing, Writing, Starting, Handling, Settling, Cancelling
  <2>3. new.pend \cup new.done \subseteq Existing' /\ new.batch \subseteq Unused'
    BY <1>2, <1>8, <1>9, <1>12 DEF Good
  <2> QED BY <2>2, <2>3 DEF Good
<1>15. ASSUME NEW q \in Procs \ {p}
       PROVE  Good(proc[q])' /\ new.batch \cap proc[q].batch = {} /\ Hand(new) \cap Hand(proc[q]) = {}
  <2>1. PICK s \in ProcRecords : s = proc[q]
    BY DEF SchedulerInv, SchedulerTypeOK
  <2>2. Good(s) /\ s.batch \subseteq Unused
    BY <2>1 DEF SchedulerInv, ProcInv, Good
  <2>3. r.batch \cap s.batch = {} /\ Hand(r) \cap Hand(s) = {}
    BY <1>1, <2>1 DEF SchedulerInv, ProcInv
  <2>4. s.batch \subseteq Unused'
    BY <1>3, <1>9, <2>2, <2>3
  <2>5. Good(s)'
    BY <1>8, <2>2, <2>4, GoodLasts
  <2>6. proc'[q] = s
    BY <1>13, <2>1 DEF SchedulerInv, SchedulerTypeOK
  <2>7. Good(proc[q])'
    BY <2>5, <2>6 DEF Good, Fits
  <2>8. Hand(s) \subseteq Existing
    BY <2>2 DEF Good, Fits, Hand, Starting, Holding
  <2>9. Hand(new) \subseteq Hand(r) \cup {a}
    BY <1>12 DEF Hand
  <2> QED BY <1>8, <1>12, <2>1, <2>3, <2>7, <2>8, <2>9
<1>16. WorkersKept(p)
  BY DEF CreateNext, OnlyProc, WorkersKept
<1>17. n \in Nat
  OBVIOUS
<1> QED BY <1>4, <1>5, <1>6, <1>12, <1>13, <1>14, <1>15, <1>16, <1>17, RecordsKept

-----------------------------------------------------------------------------
(* Limits: ending leases keeps them, and a lease is granted only below     *)
(* them.                                                                   *)
LEMMA EndingKeepsCap ==
    ASSUME SchedulerInv, NEW ls, LeasesEnd(ls)
    PROVE  /\ Active(ls) \subseteq Active(lease) /\ IsFiniteSet(Active(ls))
           /\ Cardinality(Active(ls)) <= GlobalLimit
           /\ \A s \in Scopes : /\ ActiveIn(ls, s) \subseteq ActiveIn(lease, s)
                                /\ IsFiniteSet(ActiveIn(ls, s))
                                /\ Cardinality(ActiveIn(ls, s)) <= ScopeLimit[s]
<1>1. IsFiniteSet(Active(lease)) /\ Active(ls) \subseteq Active(lease)
  <2>1. Active(lease) \subseteq LeaseIds /\ IsFiniteSet(LeaseIds)
    BY StoreConstants DEF Active
  <2>2. Active(ls) \subseteq Active(lease)
    BY DEF LeasesEnd, Active
  <2> QED BY <2>1, <2>2, FS_Subset
<1>2. \A s : ActiveIn(ls, s) \subseteq ActiveIn(lease, s) /\ ActiveIn(lease, s) \subseteq Active(lease)
  BY DEF LeasesEnd, Active, ActiveIn
<1>3. ASSUME NEW S, NEW T, S \subseteq T, T \subseteq Active(lease), NEW c \in Nat, Cardinality(T) <= c
      PROVE  IsFiniteSet(S) /\ Cardinality(S) <= c
  <2>1. IsFiniteSet(T)
    BY <1>1, <1>3, FS_Subset
  <2>2. IsFiniteSet(S) /\ Cardinality(S) <= Cardinality(T)
    BY <1>3, <2>1, FS_Subset
  <2>3. Cardinality(S) \in Nat /\ Cardinality(T) \in Nat
    BY <2>1, <2>2, FS_CardinalityType
  <2> QED BY <1>3, <2>2, <2>3
<1>4. GlobalLimit \in Nat /\ \A s \in Scopes : ScopeLimit[s] \in Nat
  BY StoreConstants
<1>5. /\ Cardinality(Active(lease)) <= GlobalLimit
      /\ \A s \in Scopes : Cardinality(ActiveIn(lease, s)) <= ScopeLimit[s]
  BY DEF SchedulerInv, CapRespected
<1>6. IsFiniteSet(Active(ls)) /\ Cardinality(Active(ls)) <= GlobalLimit
  BY <1>1, <1>3, <1>4, <1>5
<1>7. ASSUME NEW s \in Scopes PROVE IsFiniteSet(ActiveIn(ls, s)) /\ Cardinality(ActiveIn(ls, s)) <= ScopeLimit[s]
  BY <1>2, <1>3, <1>4, <1>5
<1> QED BY <1>1, <1>2, <1>6, <1>7

(* lease_next_work_item grants a lease only below every limit.             *)
LEMMA GrantKeepsCap ==
    ASSUME SchedulerInv, NEW l \in LeaseIds, NEW w \in Work, NEW t \in Nat,
           LeaseNextWorkItem(l, w, Owner, t)
    PROVE  CapRespected'
<1>1. PICK ls : ls = ExpiredLeases(Due(Work, t))
  OBVIOUS
<1>2. ls \in [LeaseIds -> LeaseRows] /\ LeasesEnd(ls)
  BY <1>1, ExpiryTypes, DueLeases, ExpiredEnd DEF SchedulerInv, SchedulerTypeOK
<1>3. PICK ws : w \in UnderLimits(t, ws, ls)
  BY <1>1 DEF LeaseNextWorkItem, IsSelected
<1>4. /\ Cardinality(Active(ls)) < GlobalLimit
      /\ \A s \in ScopesOf[w] : Cardinality(ActiveIn(ls, s)) < ScopeLimit[s]
  BY <1>3 DEF UnderLimits
<1>5. /\ lease'[l].state = "active" /\ lease'[l].work = w
      /\ \A k \in LeaseIds \ {l} : lease'[k] = ls[k]
  <2>1. lease' = Grant(ls, l, w, Owner, t)
    BY <1>1 DEF LeaseNextWorkItem
  <2> QED BY <1>2, <2>1 DEF Grant
<1>6. ls[l].state # "active"
  BY <1>2 DEF LeaseNextWorkItem, IsFreshLease, LeasesEnd
<1>7. ASSUME NEW S, NEW T, IsFiniteSet(T), NEW c \in Nat, S \subseteq T \cup {l}, l \notin T,
             Cardinality(T) < c
      PROVE  Cardinality(S) <= c
  <2>1. IsFiniteSet(T \cup {l}) /\ Cardinality(T \cup {l}) = Cardinality(T) + 1
    BY <1>7, FS_AddElement
  <2>2. IsFiniteSet(S) /\ Cardinality(S) <= Cardinality(T \cup {l})
    BY <1>7, <2>1, FS_Subset
  <2>3. Cardinality(S) \in Nat /\ Cardinality(T) \in Nat
    BY <1>7, <2>2, FS_CardinalityType
  <2> QED BY <1>7, <2>1, <2>2, <2>3
<1>8. GlobalLimit \in Nat /\ (\A s \in Scopes : ScopeLimit[s] \in Nat) /\ ScopesOf[w] \subseteq Scopes
  BY StoreConstants
<1>9. Cardinality(Active(lease')) <= GlobalLimit
  <2>1. Active(lease') \subseteq Active(ls) \cup {l} /\ l \notin Active(ls)
    BY <1>5, <1>6 DEF Active
  <2> QED BY <1>2, <1>4, <1>7, <1>8, <2>1, EndingKeepsCap
<1>10. ASSUME NEW s \in Scopes PROVE Cardinality(ActiveIn(lease', s)) <= ScopeLimit[s]
  <2>1. CASE s \in ScopesOf[w]
    <3>1. ActiveIn(lease', s) \subseteq ActiveIn(ls, s) \cup {l} /\ l \notin ActiveIn(ls, s)
      BY <1>5, <1>6 DEF Active, ActiveIn
    <3> QED BY <1>2, <1>4, <1>7, <1>8, <2>1, <3>1, EndingKeepsCap
  <2>2. CASE s \notin ScopesOf[w]
    <3>1. ActiveIn(lease', s) = ActiveIn(ls, s)
      BY <1>5, <1>6, <2>2 DEF Active, ActiveIn
    <3> QED BY <1>2, <3>1, EndingKeepsCap
  <2> QED BY <2>1, <2>2
<1> QED BY <1>9, <1>10 DEF CapRespected, Active, ActiveIn

-----------------------------------------------------------------------------
(* Steps of no process: a worker, a job, the clock.                        *)
LEMMA WorkerKeeps ==
    ASSUME SchedulerInv, NEW a \in AttemptIds, WorkerStep(a) \/ JobFinishes(a)
    PROVE  QuietCall /\ Sides /\ UNCHANGED proc
           /\ \A b \in AttemptIds : worker[b] \in Finished => worker'[b] \in Finished
<1>1. UNCHANGED <<proc, started, crashes>>
  BY DEF WorkerStep, WorkerRejects, WorkerRecords, WorkerSubmits, WorkerBinds, WorkerCollects,
         WorkerGivesUp, WorkerUncertain, WorkerBreaks, JobFinishes
<1>2. \/ UNCHANGED worker
      \/ worker[a] \notin Finished \cup {"none"} /\ \E s \in WorkerStates \ {"none"} : worker' = [worker EXCEPT ![a] = s]
  <2>1. \A s \in {"ready", "recorded", "submitted", "bound", "uncertain"} : s \notin Finished \cup {"none"}
    BY DEF Finished
  <2>2. \A s \in {"raised", "recorded", "submitted", "uncertain", "bound", "succeeded", "failed",
                  "retryable", "unknown"} : s \in WorkerStates \ {"none"}
    BY DEF WorkerStates, Finished
  <2> QED BY <2>1, <2>2 DEF WorkerStep, WorkerRejects, WorkerRecords, WorkerSubmits, WorkerBinds,
             WorkerCollects, WorkerGivesUp, WorkerUncertain, WorkerBreaks, JobFinishes
<1>3. UNCHANGED job \/ \E s \in JobStates : job' = [job EXCEPT ![a] = s]
  BY DEF WorkerStep, WorkerRejects, WorkerRecords, WorkerSubmits, WorkerBinds, WorkerCollects,
         WorkerGivesUp, WorkerUncertain, WorkerBreaks, JobFinishes, JobStates
<1>4. worker[a] # "none" => attempt[a].state # "absent"
  BY DEF SchedulerInv, RowInv, Existing
<1>5. Sides
  <2>1. worker' \in [AttemptIds -> WorkerStates] /\ job' \in [AttemptIds -> JobStates]
    BY <1>2, <1>3 DEF SchedulerInv, SchedulerTypeOK
  <2>2. \A b \in AttemptIds : worker'[b] # "none" => worker[b] # "none"
    BY <1>2 DEF SchedulerInv, SchedulerTypeOK
  <2>3. \A b \in AttemptIds : worker'[b] # "none" => b \in Existing
    BY <2>2 DEF SchedulerInv, RowInv
  <2> QED BY <1>1, <2>1, <2>3 DEF Sides, SchedulerInv, SchedulerTypeOK
<1>6. \A b \in AttemptIds : worker[b] \in Finished => worker'[b] \in Finished
  BY <1>2 DEF SchedulerInv, SchedulerTypeOK
<1>7. QuietCall
  <2>1. \A s \in {"succeeded", "failed", "unknown"} : s \in AttemptStates
    BY DEF AttemptStates
  <2>2. \A s \in {"completed", "failed", "unknown"} : s \in SubmissionStates
    BY DEF SubmissionStates
  <2>3. "unknown" \in Failures \cup {None} /\ "pending" \in Reconciliations \cup {None}
    BY DEF Failures, Reconciliations
  <2>4. CASE WorkerRejects(a) \/ WorkerSubmits(a) \/ WorkerGivesUp(a) \/ JobFinishes(a)
    BY <2>4 DEF WorkerRejects, WorkerSubmits, WorkerGivesUp, JobFinishes, NoStoreCall, QuietCall
  <2>5. CASE WorkerRecords(a) \/ WorkerBinds(a)
    <3>1. CASE WorkerBinds(a)
      BY <3>1 DEF QuietCall
    <3>2. CASE WorkerRecords(a)
      BY <3>2 DEF WorkerRecords, QuietCall
    <3> QED BY <2>5, <3>1, <3>2
  <2>6. CASE WorkerCollects(a) \/ WorkerBreaks(a) \/ WorkerUncertain(a)
    <3>1. attempt[a].state # "absent"
      BY <1>4, <2>6 DEF WorkerCollects, WorkerBreaks, WorkerUncertain
    <3>2. \/ WriteOutcome(a, "succeeded", None, None, "completed")
          \/ WriteOutcome(a, "failed", None, None, "failed")
          \/ WriteOutcome(a, "unknown", "unknown", "pending", "unknown")
      BY <2>6 DEF WorkerCollects, WorkerBreaks, WorkerUncertain
    <3> QED BY <2>1, <2>2, <2>3, <3>1, <3>2 DEF QuietCall
  <2> QED BY <2>4, <2>5, <2>6 DEF WorkerStep
<1> QED BY <1>1, <1>5, <1>6, <1>7

(* Such a step keeps ProcInv.                                              *)
LEMMA StillKeeps ==
    ASSUME SchedulerInv, QuietCall, UNCHANGED proc,
           \A b \in AttemptIds : worker[b] \in Finished => worker'[b] \in Finished
    PROVE  ProcInv' /\ proc' \in [Procs -> ProcRecords]
<1>1. Steady /\ LeaseChange
  BY QuietAttempts, QuietLeases DEF SchedulerInv, SchedulerTypeOK, LeaseChange
<1>2. Existing \subseteq Existing' /\ Unused \subseteq Unused'
  BY <1>1, RowsLast
<1>3. ASSUME NEW q \in Procs PROVE Good(proc[q])'
  <2>1. PICK r : r = proc[q]
    OBVIOUS
  <2>2. Good(r) /\ r.batch \subseteq Unused'
    BY <1>2, <2>1 DEF SchedulerInv, ProcInv, Good
  <2>3. Good(r)'
    BY <1>2, <2>2, GoodLasts
  <2> QED BY <2>1, <2>3 DEF Good, Fits
<1>4. ASSUME NEW q \in Procs, NEW a \in proc'[q].done PROVE worker'[a] \in Finished
  <2>1. a \in AttemptIds /\ worker[a] \in Finished
    BY <1>4 DEF SchedulerInv, SchedulerTypeOK, ProcInv, ProcRecords, AttemptSets
  <2> QED BY <2>1
<1>5. \A q, s \in Procs : q # s => proc'[q].batch \cap proc'[s].batch = {}
                                   /\ Hand(proc[q])' \cap Hand(proc[s])' = {}
  BY DEF SchedulerInv, ProcInv, Hand
<1> QED BY <1>3, <1>4, <1>5 DEF ProcInv, SchedulerInv, SchedulerTypeOK

-----------------------------------------------------------------------------
(* Every step is a store call that keeps the processes and the rest.       *)
LEMMA StepShape ==
    ASSUME SchedulerInv, [Next]_vars
    PROVE  /\ Sides /\ ProcInv' /\ proc' \in [Procs -> ProcRecords]
           /\ \/ QuietCall \/ LeaseCall
              \/ /\ InsertCall
                 /\ \E l \in Unused, a \in AttemptIds, w \in Work, n, k \in Nat :
                       InsertAttempt(a, w, n, 1, k, l)
<1>1. ASSUME NEW p \in Procs, ProcStep(p)
      PROVE  /\ Sides /\ ProcInv' /\ proc' \in [Procs -> ProcRecords]
             /\ \/ QuietCall \/ LeaseCall
                \/ /\ InsertCall
                   /\ \E l \in Unused, a \in AttemptIds, w \in Work, n, k \in Nat :
                         InsertAttempt(a, w, n, 1, k, l)
  <2>1. Sides /\ WorkersKept(p)
    BY <1>1, ProcSides
  <2>2. QuietMove(p) \/ LeaseOne(p) \/ CreateNext(p)
    BY <1>1, ProcMoves
  <2>3. CASE QuietMove(p)
    BY <2>1, <2>3, MoveKeeps DEF QuietMove
  <2>4. CASE LeaseOne(p)
    BY <2>1, <2>4, LeaseKeeps
  <2>5. CASE CreateNext(p)
    BY <2>1, <2>5, CreateKeeps
  <2> QED BY <2>2, <2>3, <2>4, <2>5
<1>2. ASSUME NEW a \in AttemptIds, WorkerStep(a) \/ JobFinishes(a)
      PROVE  Sides /\ ProcInv' /\ proc' \in [Procs -> ProcRecords] /\ QuietCall
  BY <1>2, WorkerKeeps, StillKeeps
<1>3. CASE (Tick /\ UNCHANGED procVars) \/ UNCHANGED vars
  <2>1. QuietCall
    BY <1>3 DEF QuietCall, vars
  <2>2. UNCHANGED procVars
    BY <1>3 DEF vars
  <2>3. Sides
    BY <2>2 DEF procVars, Sides, SchedulerInv, SchedulerTypeOK, RowInv
  <2>4. UNCHANGED proc /\ \A b \in AttemptIds : worker[b] \in Finished => worker'[b] \in Finished
    BY <2>2 DEF procVars
  <2> QED BY <2>1, <2>3, <2>4, StillKeeps
<1> QED BY <1>1, <1>2, <1>3 DEF Next, ProcStep

(* The rows stay whole and no lease gets a second attempt.                 *)
LEMMA RowsKept ==
    ASSUME SchedulerInv, [Next]_vars PROVE RowInv' /\ OneAttemptPerLease'
<1>1. StoreCall /\ Sides
  BY StepShape DEF StoreCall
<1>2. LeaseChange
  BY <1>1, CallChanges DEF SchedulerInv, SchedulerTypeOK
<1>3. \A l \in LeaseIds : lease'[l].state # "absent" => lease'[l].work \in Work
  <2>1. \A l \in LeaseIds : lease[l].state # "absent" => lease[l].work \in Work
    BY DEF SchedulerInv, RowInv
  <2>2. CASE LeasesEnd(lease')
    BY <2>1, <2>2 DEF LeasesEnd
  <2>3. ASSUME NEW l \in LeaseIds, NEW w \in Work, NEW ls \in [LeaseIds -> LeaseRows],
               LeasesEnd(ls), LeaseGranted(ls, l, w)
        PROVE  \A k \in LeaseIds : lease'[k].state # "absent" => lease'[k].work \in Work
    <3>1. ASSUME NEW k \in LeaseIds \ {l}, lease'[k].state # "absent" PROVE lease'[k].work \in Work
      BY <2>1, <2>3, <3>1 DEF LeasesEnd, LeaseGranted
    <3> QED BY <2>3, <3>1 DEF LeaseGranted
  <2> QED BY <1>2, <2>2, <2>3 DEF LeaseChange
<1>4. CASE Steady
  <2>1. \A a \in AttemptIds : /\ attempt'[a].work = attempt[a].work
                              /\ attempt'[a].lease = attempt[a].lease
                              /\ attempt'[a].state = "absent" <=> attempt[a].state = "absent"
    BY <1>4 DEF Steady, AttemptKept, SameIdentity
  <2>2. Existing' = Existing
    BY <2>1 DEF Existing
  <2>3. OneAttemptPerLease'
    BY <2>1 DEF SchedulerInv, OneAttemptPerLease
  <2>4. \A a \in AttemptIds :
           IF a \in Existing' THEN attempt'[a].work \in Work /\ attempt'[a].lease \in LeaseIds
                              ELSE attempt'[a].work = None /\ attempt'[a].lease = None
    BY <2>1, <2>2 DEF SchedulerInv, RowInv
  <2>5. \A a \in AttemptIds : worker'[a] # "none" => a \in Existing'
    BY <1>1, <2>2 DEF Sides
  <2> QED BY <1>3, <2>3, <2>4, <2>5 DEF RowInv
<1>5. ASSUME NEW l \in Unused, NEW a \in AttemptIds, NEW w \in Work, NEW n, NEW k,
             InsertAttempt(a, w, n, 1, k, l)
      PROVE  RowInv' /\ OneAttemptPerLease'
  <2>1. /\ attempt[a].state = "absent" /\ attempt'[a].state = "created"
        /\ attempt'[a].work = w /\ attempt'[a].lease = l
        /\ \A b \in AttemptIds \ {a} : attempt'[b] = attempt[b]
    BY <1>5 DEF InsertAttempt, IsFreshAttempt, SchedulerInv, SchedulerTypeOK, StoreTypeOK
  <2>2. l \in LeaseIds /\ \A b \in AttemptIds : attempt[b].lease # l
    BY DEF Unused, LeaseAttempts
  <2>3. Existing' = Existing \cup {a}
    BY <2>1 DEF Existing
  <2>4. OneAttemptPerLease'
    BY <2>1, <2>2 DEF SchedulerInv, OneAttemptPerLease
  <2>5. \A b \in AttemptIds :
           IF b \in Existing' THEN attempt'[b].work \in Work /\ attempt'[b].lease \in LeaseIds
                              ELSE attempt'[b].work = None /\ attempt'[b].lease = None
    BY <2>1, <2>2, <2>3 DEF SchedulerInv, RowInv
  <2>6. \A b \in AttemptIds : worker'[b] # "none" => b \in Existing'
    BY <1>1, <2>3 DEF Sides
  <2> QED BY <1>3, <2>4, <2>5, <2>6 DEF RowInv
<1> QED BY <1>4, <1>5, StepShape, QuietAttempts DEF SchedulerInv, SchedulerTypeOK

(* No step breaks the invariant.                                           *)
LEMMA InvStep == SchedulerInv /\ [Next]_vars => SchedulerInv'
<1> SUFFICES ASSUME SchedulerInv, [Next]_vars PROVE SchedulerInv'
  OBVIOUS
<1>1. StoreCall /\ Sides /\ ProcInv' /\ proc' \in [Procs -> ProcRecords]
  BY StepShape DEF StoreCall
<1>2. SchedulerTypeOK'
  BY <1>1, CallTypes DEF SchedulerInv, SchedulerTypeOK, Sides
<1>3. LeaseExclusive' /\ AttemptIdentity'
  BY <1>1, CallChanges, ChangeKeepsExclusion, IdentityStep DEF SchedulerInv, SchedulerTypeOK
<1>4. CapRespected'
  <2>1. CASE LeasesEnd(lease')
    BY <2>1, EndingKeepsCap DEF CapRespected, Active, ActiveIn
  <2>2. InsertCall => LeasesEnd(lease')
    BY DEF InsertCall, CreateAttemptForLease, InsertAttempt, LeasesEnd
  <2>3. QuietCall => LeasesEnd(lease')
    BY QuietLeases DEF SchedulerInv, SchedulerTypeOK
  <2>4. CASE LeaseCall
    BY <2>4, GrantKeepsCap DEF LeaseCall
  <2> QED BY <1>1, <2>1, <2>2, <2>3, <2>4 DEF StoreCall
<1> QED BY <1>1, <1>2, <1>3, <1>4, RowsKept DEF SchedulerInv

(* The enqueued plan satisfies it.                                         *)
LEMMA InvInit == Init => SchedulerInv
<1> SUFFICES ASSUME Init PROVE SchedulerInv
  OBVIOUS
<1>1. NoLease \in LeaseRows /\ NoAttempt \in AttemptRows /\ NoSubmission \in SubmissionRows
  BY DEF NoLease, LeaseRows, NoAttempt, AttemptRows, NoSubmission, SubmissionRows
<1>2. StoreTypeOK
  BY <1>1, StoreConstants DEF Init, StoreTypeOK, RunStatuses, PlanStates, TrialStates, WorkStates
<1>3. SchedulerTypeOK
  BY <1>2, IdleRecord, SchedulerConstants DEF Init, SchedulerTypeOK, WorkerStates, JobStates
<1>4. /\ \A l \in LeaseIds : lease[l].state = "absent"
      /\ \A a \in AttemptIds : /\ attempt[a].state = "absent" /\ attempt[a].work = None
                               /\ attempt[a].lease = None
  BY DEF Init, NoLease, NoAttempt
<1>5. RowInv
  BY <1>4 DEF Init, RowInv, Existing
<1>6. ProcInv
  <2>1. IdleProc.done = {} /\ IdleProc.batch = {}
    BY DEF IdleProc
  <2> QED BY <2>1, IdleRecord DEF Init, ProcInv
<1>7. LeaseExclusive /\ AttemptIdentity /\ OneAttemptPerLease
  BY <1>4 DEF LeaseExclusive, Active, AttemptIdentity, OneAttemptPerLease
<1>8. CapRespected
  <2>1. Active(lease) = {} /\ \A s \in Scopes : ActiveIn(lease, s) = {}
    BY <1>4 DEF Active, ActiveIn
  <2>2. Cardinality({}) = 0
    BY FS_EmptySet
  <2>3. 0 <= GlobalLimit /\ \A s \in Scopes : 0 <= ScopeLimit[s]
    BY StoreConstants
  <2> QED BY <2>1, <2>2, <2>3 DEF CapRespected
<1> QED BY <1>3, <1>5, <1>6, <1>7, <1>8 DEF SchedulerInv

(* The inductive invariant holds of any number of processes.               *)
LEMMA InvHolds == Spec => []SchedulerInv
BY InvInit, InvStep, PTL DEF Spec

(* Every reachable state is well typed: every row, process record, worker  *)
(* and job has a value the code admits.                                    *)
THEOREM SchedulerTypes == Spec => []SchedulerTypeOK
<1>1. SchedulerInv => SchedulerTypeOK
  BY DEF SchedulerInv
<1> QED BY <1>1, InvHolds, PTL

(* max_concurrency and the scoped limits bound the active leases, however  *)
(* many processes dispatch, expire and crash.                              *)
THEOREM CapIsRespected == Spec => []CapRespected
<1>1. SchedulerInv => CapRespected
  BY DEF SchedulerInv
<1> QED BY <1>1, InvHolds, PTL

(* The scheduler never starts two attempts under one lease.                *)
THEOREM LeasesCarryOneAttempt == Spec => []OneAttemptPerLease
<1>1. SchedulerInv => OneAttemptPerLease
  BY DEF SchedulerInv
<1> QED BY <1>1, InvHolds, PTL

(* Under the scheduler as under any client a work item has at most one     *)
(* active lease.                                                           *)
THEOREM SchedulerLeasesExclude == Spec => []LeaseExclusive
<1>1. SchedulerInv => LeaseExclusive
  BY DEF SchedulerInv
<1> QED BY <1>1, InvHolds, PTL
=============================================================================
