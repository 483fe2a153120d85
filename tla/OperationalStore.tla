-------------------------- MODULE OperationalStore --------------------------
(***************************************************************************)
(* The operational SQLite store of aec_bench/execution/operational:        *)
(* mutable run, plan, planned-trial, work-item, attempt, submission and    *)
(* lease rows.  Every public method of OperationalStore is one BEGIN       *)
(* IMMEDIATE transaction, so every method is one action; a method that     *)
(* raises rolls back and is a step that changes nothing.                   *)
(*                                                                         *)
(* The module says what the store does for ANY client.  LocalScheduler     *)
(* extends it with the one client the repository has.                      *)
(*                                                                         *)
(* Abstractions: identifiers are members of constant sets (an unused row   *)
(* is "absent"); a work item and its planned trial are one element of      *)
(* Work, because operational_work_items.trial_id is UNIQUE; the six limit  *)
(* families of a lease request are one set of Scopes; failure messages,    *)
(* timestamps that no decision reads and cancellation_status (written,     *)
(* never read) are left out.                                               *)
(***************************************************************************)
EXTENDS Integers, FiniteSets

CONSTANTS
    Runs, Plans, Work,        \* run, plan and work-item (= trial) identities
    RunOfPlan, PlanOf,        \* [Plans -> Runs], [Work -> Plans]
    Owners,                   \* lease owner strings
    LeaseIds, AttemptIds,     \* identities of rows not created yet
    ExternalIds,              \* provider identifiers of submissions
    CandidateIndexes,         \* candidates of one attempt recipe, from 1
    MaxNumber,                \* bound on attempt and retry numbers
    MaxClock,                 \* bound on the clock
    LeaseTTL,                 \* lease_ttl_seconds
    GlobalLimit,              \* max_concurrency
    Scopes, ScopesOf,         \* limited keys, and those of a work item
    ScopeLimit,               \* [Scopes -> limit]
    Priority, CreatedAt,      \* of a work item
    Seniority,                \* position in (created_at, ordinal, work_id)
    AgingAfter,               \* priority_aging_seconds
    RunWrites, PlanWrites, TrialWrites, WorkWrites, AttemptWrites,
    SubmissionWrites,         \* states that clients hand to the update methods
    FailureWrites, ReconWrites, \* ... with the failures and reconciliations
    None                      \* SQL NULL

RunOf(w) == RunOfPlan[PlanOf[w]]
WorkOfRun(r) == {w \in Work : RunOf(w) = r}
WorkOfPlan(p) == {w \in Work : PlanOf[w] = p}

RunStatuses  == {"created", "ready", "running", "completed", "failed", "cancelled"}
RunTerminal  == {"completed", "failed", "cancelled"}
PlanStates   == {"draft", "ready", "started", "closed"}
TrialStates  == {"planned", "queued", "running", "succeeded", "failed",
                 "cancelled", "invalid", "unknown"}
WorkStates   == TrialStates \cup {"leased", "cancel_requested"}
LeaseStates  == {"active", "released", "expired"}
AttemptStates == {"created", "submitted", "running", "succeeded", "failed",
                  "cancelled", "unknown"}
SubmissionStates == {"submitted", "accepted", "running", "completed", "failed",
                     "cancelled", "unknown"}
Terminal == {"succeeded", "failed", "cancelled", "invalid"}

(* Failure classes as retry policy tells them apart: an infrastructure     *)
(* failure of a retryable kind, an unknown external state, anything else.  *)
Failures == {"infrastructure", "unknown", "final"}
Reconciliations == {"not_required", "pending", "reconciled"}

ASSUME StoreConstants ==
    /\ RunOfPlan \in [Plans -> Runs]
    /\ PlanOf \in [Work -> Plans]
    /\ None \notin Work /\ None \notin Owners /\ None \notin LeaseIds /\ None \notin ExternalIds
    /\ None \notin Failures /\ None \notin Reconciliations
    /\ LeaseIds \subseteq Nat /\ AttemptIds \subseteq Nat
    /\ IsFiniteSet(LeaseIds)
    /\ CandidateIndexes \subseteq Nat \ {0}
    /\ MaxNumber \in Nat /\ MaxClock \in Nat /\ AgingAfter \in Nat
    /\ LeaseTTL \in Nat \ {0} /\ GlobalLimit \in Nat \ {0}
    /\ ScopesOf \in [Work -> SUBSET Scopes]
    /\ ScopeLimit \in [Scopes -> Nat \ {0}]
    /\ Priority \in [Work -> Int]
    /\ CreatedAt \in [Work -> Nat]
    /\ Seniority \in [Work -> Nat]
    /\ \A v, w \in Work : Seniority[v] = Seniority[w] => v = w
    /\ \A v, w \in Work : Seniority[v] < Seniority[w] => CreatedAt[v] <= CreatedAt[w]
    /\ RunWrites \subseteq RunStatuses /\ PlanWrites \subseteq PlanStates
    /\ TrialWrites \subseteq TrialStates /\ WorkWrites \subseteq WorkStates
    /\ AttemptWrites \subseteq AttemptStates
    /\ SubmissionWrites \subseteq SubmissionStates
    /\ FailureWrites \subseteq Failures \cup {None} /\ ReconWrites \subseteq Reconciliations \cup {None}

VARIABLES
    clock,            \* wall clock; a caller's "now" is a value it had earlier
    runStatus,        \* operational_runs.status
    cancelRequested,  \* operational_runs.cancellation_requested_at IS NOT NULL
    planState, trialState, workState, availableAt,
    lease,            \* operational_leases
    attempt,          \* operational_attempts
    submission        \* operational_backend_submissions: one per attempt

storeVars == <<clock, runStatus, cancelRequested, planState, trialState,
               workState, availableAt, lease, attempt, submission>>

LeaseRows == [work : Work \cup {None}, owner : Owners \cup {None},
              expires : Nat, state : LeaseStates \cup {"absent"}]
AttemptRows == [work : Work \cup {None}, number : Nat, candidate : Nat, retry : Nat,
                lease : LeaseIds \cup {None},
                state : AttemptStates \cup {"absent"},
                failure : Failures \cup {None},
                recon : Reconciliations \cup {None}]
SubmissionRows == [state : SubmissionStates \cup {"absent"},
                   external : ExternalIds \cup {None}]

NoLease == [work |-> None, owner |-> None, expires |-> 0, state |-> "absent"]
NoAttempt == [work |-> None, number |-> 0, candidate |-> 0, retry |-> 0,
              lease |-> None, state |-> "absent", failure |-> None, recon |-> None]
NoSubmission == [state |-> "absent", external |-> None]

(* Every row and column has a value its CHECK constraint admits.           *)
StoreTypeOK ==
    /\ clock \in 0 .. MaxClock
    /\ runStatus \in [Runs -> RunStatuses \cup {"absent"}]
    /\ cancelRequested \in [Runs -> BOOLEAN]
    /\ planState \in [Plans -> PlanStates \cup {"absent"}]
    /\ trialState \in [Work -> TrialStates \cup {"absent"}]
    /\ workState \in [Work -> WorkStates \cup {"absent"}]
    /\ availableAt \in [Work -> Nat]
    /\ lease \in [LeaseIds -> LeaseRows]
    /\ attempt \in [AttemptIds -> AttemptRows]
    /\ submission \in [AttemptIds -> SubmissionRows]

StoreInit ==
    /\ clock = 0
    /\ runStatus = [r \in Runs |-> "absent"]
    /\ cancelRequested = [r \in Runs |-> FALSE]
    /\ planState = [p \in Plans |-> "absent"]
    /\ trialState = [w \in Work |-> "absent"]
    /\ workState = [w \in Work |-> "absent"]
    /\ availableAt = [w \in Work |-> 0]
    /\ lease = [l \in LeaseIds |-> NoLease]
    /\ attempt = [a \in AttemptIds |-> NoAttempt]
    /\ submission = [a \in AttemptIds |-> NoSubmission]

Tick ==
    /\ clock < MaxClock
    /\ clock' = clock + 1
    /\ UNCHANGED <<runStatus, cancelRequested, planState, trialState, workState,
                   availableAt, lease, attempt, submission>>

-----------------------------------------------------------------------------
(* Run, plan, trial and work-item rows.  The four creating methods are     *)
(* idempotent by identity: repeating one is a step that changes nothing.   *)

CreateRun(r, s) ==
    /\ runStatus[r] = "absent"
    /\ runStatus' = [runStatus EXCEPT ![r] = s]
    /\ UNCHANGED <<clock, cancelRequested, planState, trialState, workState,
                   availableAt, lease, attempt, submission>>

PutPlan(p, s) ==
    /\ runStatus[RunOfPlan[p]] # "absent"
    /\ planState[p] = "absent"
    /\ planState' = [planState EXCEPT ![p] = s]
    /\ UNCHANGED <<clock, runStatus, cancelRequested, trialState, workState,
                   availableAt, lease, attempt, submission>>

PutPlannedTrial(w) ==
    /\ planState[PlanOf[w]] # "absent"
    /\ trialState[w] = "absent"
    /\ trialState' = [trialState EXCEPT ![w] = "planned"]
    /\ UNCHANGED <<clock, runStatus, cancelRequested, planState, workState,
                   availableAt, lease, attempt, submission>>

CreateWorkItem(w) ==
    /\ trialState[w] # "absent"
    /\ workState[w] = "absent"
    /\ CreatedAt[w] <= clock
    /\ workState' = [workState EXCEPT ![w] = "queued"]
    /\ availableAt' = [availableAt EXCEPT ![w] = CreatedAt[w]]
    /\ UNCHANGED <<clock, runStatus, cancelRequested, planState, trialState,
                   lease, attempt, submission>>

(* The update methods write the state they are given, whatever the old one. *)

UpdateRun(r, s) ==
    /\ runStatus[r] # "absent"
    /\ runStatus' = [runStatus EXCEPT ![r] = s]
    /\ UNCHANGED <<clock, cancelRequested, planState, trialState, workState,
                   availableAt, lease, attempt, submission>>

UpdatePlan(p, s) ==
    /\ planState[p] # "absent"
    /\ planState' = [planState EXCEPT ![p] = s]
    /\ UNCHANGED <<clock, runStatus, cancelRequested, trialState, workState,
                   availableAt, lease, attempt, submission>>

UpdatePlannedTrial(w, s) ==
    /\ trialState[w] # "absent"
    /\ trialState' = [trialState EXCEPT ![w] = s]
    /\ UNCHANGED <<clock, runStatus, cancelRequested, planState, workState,
                   availableAt, lease, attempt, submission>>

UpdateWorkItem(w, s) ==
    /\ workState[w] # "absent"
    /\ workState' = [workState EXCEPT ![w] = s]
    /\ UNCHANGED <<clock, runStatus, cancelRequested, planState, trialState,
                   availableAt, lease, attempt, submission>>

-----------------------------------------------------------------------------
(* Cancellation and completion.                                            *)

(* No row of W is in a non-terminal state ("absent": there is no row).     *)
AllTerminal(W, ts, ws) ==
    \A w \in W : ts[w] \in Terminal \cup {"absent"} /\ ws[w] \in Terminal \cup {"absent"}

(* Variant: the rows are counted and their states forgotten.               *)
CompleteByCount(W, ts, ws) ==
    /\ \E w \in W : ts[w] # "absent"
    /\ \A w \in W : ts[w] # "absent" => ws[w] # "absent"

(* COUNT(planned) > 0 and COUNT(work) = COUNT(planned), all terminal.      *)
Complete(W, ts, ws) ==
    /\ \E w \in W : ts[w] # "absent"
    /\ \A w \in W : ts[w] # "absent" => ws[w] # "absent"
    /\ AllTerminal(W, ts, ws)

(* request_cancellation(r) with W = every work item of r, whole = TRUE, or *)
(* for one trial with W = {w}, whole = FALSE: only the former sets the     *)
(* run's cancellation_requested_at.                                        *)
RequestCancellation(r, W, whole) ==
    LET ts == [w \in Work |-> IF w \in W /\ trialState[w] \in {"planned", "queued"}
                              THEN "cancelled" ELSE trialState[w]]
        ws == [w \in Work |-> IF w \in W /\ workState[w] = "queued" THEN "cancelled"
                              ELSE IF w \in W /\ workState[w] \in {"leased", "running"}
                              THEN "cancel_requested" ELSE workState[w]]
    IN  /\ runStatus[r] \notin RunTerminal \cup {"absent"}
        /\ whole \/ \A w \in W : trialState[w] # "absent"
        /\ trialState' = ts
        /\ workState' = ws
        /\ cancelRequested' = [cancelRequested EXCEPT ![r] = whole \/ @]
        /\ planState' = [p \in Plans |->
              IF RunOfPlan[p] = r /\ planState[p] # "absent" /\ AllTerminal(WorkOfPlan(p), ts, ws)
              THEN "closed" ELSE planState[p]]
        /\ runStatus' = IF AllTerminal(WorkOfRun(r), ts, ws)
                        THEN [runStatus EXCEPT ![r] = "cancelled"] ELSE runStatus
        /\ UNCHANGED <<clock, availableAt, lease, attempt, submission>>

CompletePlanIfTerminal(p) ==
    LET r == RunOfPlan[p]
    IN  /\ planState[p] # "absent"
        /\ IF Complete(WorkOfPlan(p), trialState, workState)
           THEN /\ planState' = [planState EXCEPT ![p] = "closed"]
                /\ runStatus' = IF Complete(WorkOfRun(r), trialState, workState)
                      THEN [runStatus EXCEPT ![r] =
                              IF cancelRequested[r] THEN "cancelled" ELSE "completed"]
                      ELSE runStatus
           ELSE UNCHANGED <<planState, runStatus>>
        /\ UNCHANGED <<clock, cancelRequested, trialState, workState, availableAt,
                       lease, attempt, submission>>

(* Variant: the cancellation of the run is not looked at.                  *)
RetryAllowedAlways(w) == workState[w] # "absent"

(* schedule_retry raises when the run's cancellation was requested.        *)
RetryAllowed(w) == workState[w] # "absent" /\ ~cancelRequested[RunOf(w)]

ScheduleRetry(w, t) ==
    /\ RetryAllowed(w)
    /\ IF workState[w] \in {"failed", "unknown", "cancel_requested"}
       THEN /\ workState' = [workState EXCEPT ![w] = "queued"]
            /\ availableAt' = [availableAt EXCEPT ![w] = t]
       ELSE UNCHANGED <<workState, availableAt>>
    /\ trialState' = IF trialState[w] \in {"failed", "unknown"}
                     THEN [trialState EXCEPT ![w] = "queued"] ELSE trialState
    /\ UNCHANGED <<clock, runStatus, cancelRequested, planState, lease, attempt, submission>>

-----------------------------------------------------------------------------
(* Leases.                                                                 *)

Active(ls) == {l \in LeaseIds : ls[l].state = "active"}
ActiveIn(ls, s) == {l \in Active(ls) : s \in ScopesOf[ls[l].work]}
HasActiveLease(w, ls) == \E l \in Active(ls) : ls[l].work = w
AttemptsOf(w) == {a \in AttemptIds : attempt[a].work = w}
LeaseAttempts(l) == {a \in AttemptIds : attempt[a].lease = l}

(* _expire_leases(now[, run]): what the expiry of the leases D makes of    *)
(* each table.  D holds at most one lease of a work item.                  *)
Due(W, t) == {l \in Active(lease) : lease[l].work \in W /\ lease[l].expires <= t}

ExpiredLeases(D) ==
    [l \in LeaseIds |-> IF l \in D THEN [lease[l] EXCEPT !.state = "expired"] ELSE lease[l]]

(* Variant: expired work is always queued again.                           *)
ExpiredWorkRequeued(D) ==
    [w \in Work |->
        IF ~(\E l \in D : lease[l].work = w)
           \/ workState[w] \notin {"leased", "running", "cancel_requested"}
        THEN workState[w] ELSE "queued"]

ExpiredWork(D) ==
    [w \in Work |->
        IF ~(\E l \in D : lease[l].work = w)
           \/ workState[w] \notin {"leased", "running", "cancel_requested"}
        THEN workState[w]
        ELSE IF \E l \in D : lease[l].work = w /\ LeaseAttempts(l) # {}
        THEN "unknown" ELSE "queued"]

ExpiredTrials(D) ==
    [w \in Work |->
        IF /\ \E l \in D : lease[l].work = w /\ LeaseAttempts(l) # {}
           /\ trialState[w] \in {"running", "queued", "planned"}
        THEN "unknown" ELSE trialState[w]]

ExpiredAttempts(D) ==
    [a \in AttemptIds |->
        IF attempt[a].lease \in D /\ attempt[a].state \in {"created", "submitted", "running"}
        THEN [attempt[a] EXCEPT !.state = "unknown", !.failure = "unknown", !.recon = "pending"]
        ELSE attempt[a]]

ExpiredSubmissions(D) ==
    [a \in AttemptIds |->
        IF attempt[a].lease \in D /\ submission[a].state # "absent"
        THEN [submission[a] EXCEPT !.state = "unknown"] ELSE submission[a]]

ExpireLeases(W, t) ==
    LET D == Due(W, t)
    IN  /\ lease' = ExpiredLeases(D)
        /\ workState' = ExpiredWork(D)
        /\ trialState' = ExpiredTrials(D)
        /\ attempt' = ExpiredAttempts(D)
        /\ submission' = ExpiredSubmissions(D)
        /\ UNCHANGED <<clock, runStatus, cancelRequested, planState, availableAt>>

(* _work_item_priority_key: aged items first, oldest first; then priority. *)
Aged(w, t) == t - CreatedAt[w] >= AgingAfter

Precedes(v, w, t) ==
    \/ Aged(v, t) /\ ~Aged(w, t)
    \/ Aged(v, t) /\ Aged(w, t) /\ Seniority[v] < Seniority[w]
    \/ /\ ~Aged(v, t) /\ ~Aged(w, t)
       /\ \/ Priority[v] > Priority[w]
          \/ Priority[v] = Priority[w] /\ Seniority[v] < Seniority[w]

(* Variant: unknown work is leased too.                                    *)
CandidatesUnknown(t, ws) ==
    {w \in Work : ws[w] \in {"queued", "unknown"} /\ availableAt[w] <= t /\ ~cancelRequested[RunOf(w)]}

(* The candidate rows of lease_next_work_item: queued work of every run.   *)
Candidates(t, ws) ==
    {w \in Work : ws[w] = "queued" /\ availableAt[w] <= t /\ ~cancelRequested[RunOf(w)]}

(* Variant: both limits are off by one.                                    *)
UnderLimitsOffByOne(t, ws, ls) ==
    {w \in Candidates(t, ws) :
        /\ Cardinality(Active(ls)) <= GlobalLimit
        /\ \A s \in ScopesOf[w] : Cardinality(ActiveIn(ls, s)) <= ScopeLimit[s]}

(* The loop over the sorted candidates: the global limit stops it, a scope *)
(* limit skips one candidate.                                              *)
UnderLimits(t, ws, ls) ==
    {w \in Candidates(t, ws) :
        /\ Cardinality(Active(ls)) < GlobalLimit
        /\ \A s \in ScopesOf[w] : Cardinality(ActiveIn(ls, s)) < ScopeLimit[s]}

IsSelected(w, t, ws, ls) ==
    /\ w \in UnderLimits(t, ws, ls)
    /\ \A v \in UnderLimits(t, ws, ls) \ {w} : Precedes(w, v, t)

IsFreshLease(l) == lease[l].state = "absent" /\ \A k \in LeaseIds : lease[k].state = "absent" => l <= k
IsFreshAttempt(a) == attempt[a].state = "absent" /\ \A b \in AttemptIds : attempt[b].state = "absent" => a <= b

Grant(ls, l, w, o, t) ==
    [ls EXCEPT ![l] = [work |-> w, owner |-> o, expires |-> t + LeaseTTL, state |-> "active"]]

(* Variant: without the unique index on active leases.                     *)
LeaseNextUnindexed(l, w, o, t) ==
    LET D == Due(Work, t)
    IN  /\ IsFreshLease(l)
        /\ IsSelected(w, t, ExpiredWork(D), ExpiredLeases(D))
        /\ lease' = Grant(ExpiredLeases(D), l, w, o, t)
        /\ workState' = [ExpiredWork(D) EXCEPT ![w] = "leased"]
        /\ trialState' = ExpiredTrials(D)
        /\ attempt' = ExpiredAttempts(D)
        /\ submission' = ExpiredSubmissions(D)
        /\ UNCHANGED <<clock, runStatus, cancelRequested, planState, availableAt>>

(* lease_next_work_item returns w under the new lease l ...                *)
LeaseNextWorkItem(l, w, o, t) ==
    LET D == Due(Work, t)
    IN  /\ IsFreshLease(l)
        /\ IsSelected(w, t, ExpiredWork(D), ExpiredLeases(D))
        /\ ~HasActiveLease(w, ExpiredLeases(D))          \* operational_active_lease_idx
        /\ lease' = Grant(ExpiredLeases(D), l, w, o, t)
        /\ workState' = [ExpiredWork(D) EXCEPT ![w] = "leased"]
        /\ trialState' = ExpiredTrials(D)
        /\ attempt' = ExpiredAttempts(D)
        /\ submission' = ExpiredSubmissions(D)
        /\ UNCHANGED <<clock, runStatus, cancelRequested, planState, availableAt>>

(* ... or None, having committed the expiry ...                            *)
LeaseNextNothing(t) ==
    /\ UnderLimits(t, ExpiredWork(Due(Work, t)), ExpiredLeases(Due(Work, t))) = {}
    /\ ExpireLeases(Work, t)

(* ... or raises: the selected row already has an active lease and the     *)
(* unique index refuses the insert, which rolls the expiry back too.       *)
LeaseNextRaises(t) ==
    LET D == Due(Work, t)
    IN  \E w \in Work : /\ IsSelected(w, t, ExpiredWork(D), ExpiredLeases(D))
                        /\ HasActiveLease(w, ExpiredLeases(D))

(* acquire_lease of a named work item checks neither limits nor            *)
(* cancellation.  When it raises LeaseUnavailable the expiry stays.        *)
AcquireLease(l, w, o, t) ==
    LET D == Due(Work, t)
    IN  /\ IsFreshLease(l)
        /\ workState[w] # "absent"
        /\ ~HasActiveLease(w, ExpiredLeases(D))
        /\ ExpiredWork(D)[w] = "queued"
        /\ lease' = Grant(ExpiredLeases(D), l, w, o, t)
        /\ workState' = [ExpiredWork(D) EXCEPT ![w] = "leased"]
        /\ trialState' = ExpiredTrials(D)
        /\ attempt' = ExpiredAttempts(D)
        /\ submission' = ExpiredSubmissions(D)
        /\ UNCHANGED <<clock, runStatus, cancelRequested, planState, availableAt>>

(* Variant: a heartbeat does not look at the lease's state.                *)
RenewableInAnyState(l, o, t) == lease[l].owner = o /\ lease[l].expires > t

Renewable(l, o, t) ==
    lease[l].state = "active" /\ lease[l].owner = o /\ lease[l].expires > t

RenewLease(l, o, t) ==
    /\ Renewable(l, o, t)
    /\ lease' = [lease EXCEPT ![l].expires = t + LeaseTTL]
    /\ UNCHANGED <<clock, runStatus, cancelRequested, planState, trialState,
                   workState, availableAt, attempt, submission>>

Releasable(l, o) == lease[l].state = "active" /\ lease[l].owner = o

ReleaseLease(l, o) ==
    /\ Releasable(l, o)
    /\ lease' = [lease EXCEPT ![l].state = "released"]
    /\ workState' = IF workState[lease[l].work] \in {"leased", "running"}
                    THEN [workState EXCEPT ![lease[l].work] = "queued"] ELSE workState
    /\ UNCHANGED <<clock, runStatus, cancelRequested, planState, trialState,
                   availableAt, attempt, submission>>

-----------------------------------------------------------------------------
(* Attempts and backend submissions.                                       *)

IsNextNumber(w, n) ==
    /\ \A a \in AttemptsOf(w) : attempt[a].number < n
    /\ n = 1 \/ \E a \in AttemptsOf(w) : attempt[a].number = n - 1

(* Variant: no uniqueness constraint.                                      *)
RetrySlotUnchecked(w, c, k) == TRUE

(* UNIQUE (work_id, candidate_index, retry_number)                         *)
RetrySlotFree(w, c, k) ==
    \A a \in AttemptsOf(w) : ~(attempt[a].candidate = c /\ attempt[a].retry = k)

LeaseHolds(l, w, t) ==
    lease[l].state = "active" /\ lease[l].work = w /\ lease[l].expires > t

InsertAttempt(a, w, n, c, k, l) ==
    /\ IsFreshAttempt(a)
    /\ attempt' = [attempt EXCEPT ![a] =
          [work |-> w, number |-> n, candidate |-> c, retry |-> k, lease |-> l,
           state |-> "created", failure |-> None, recon |-> None]]
    /\ UNCHANGED <<clock, runStatus, cancelRequested, planState, trialState,
                   workState, availableAt, lease, submission>>

CreateAttemptForLease(a, w, c, k, l, t) ==
    /\ LeaseHolds(l, w, t)
    /\ RetrySlotFree(w, c, k)
    /\ \E n \in 1 .. MaxNumber : IsNextNumber(w, n) /\ InsertAttempt(a, w, n, c, k, l)

(* create_attempt: an explicit number, and possibly no lease.              *)
CreateAttempt(a, w, n, c, k, l, t) ==
    /\ workState[w] # "absent"
    /\ l # None => LeaseHolds(l, w, t)
    /\ \A b \in AttemptsOf(w) : attempt[b].number # n
    /\ RetrySlotFree(w, c, k)
    /\ InsertAttempt(a, w, n, c, k, l)

(* Variant: the two arguments are swapped.                                 *)
TransitionAttemptSwapped(a, s, f, rc) ==
    /\ attempt[a].state # "absent"
    /\ attempt' = [attempt EXCEPT ![a].state = s, ![a].failure = rc, ![a].recon = f]
    /\ UNCHANGED <<clock, runStatus, cancelRequested, planState, trialState,
                   workState, availableAt, lease, submission>>

(* A None failure or reconciliation state keeps the recorded one; success  *)
(* and cancellation clear the recorded failure.                            *)
TransitionAttempt(a, s, f, rc) ==
    /\ attempt[a].state # "absent"
    /\ attempt' = [attempt EXCEPT ![a] =
          [attempt[a] EXCEPT !.state = s,
             !.failure = IF s \in {"succeeded", "cancelled"} THEN None
                         ELSE IF f = None THEN attempt[a].failure ELSE f,
             !.recon = IF rc = None THEN attempt[a].recon ELSE rc]]
    /\ UNCHANGED <<clock, runStatus, cancelRequested, planState, trialState,
                   workState, availableAt, lease, submission>>

(* record_backend_submission inserts whatever identifier it is given: only *)
(* binding one later looks at the other submissions.                       *)
RecordBackendSubmission(a, x) ==
    /\ attempt[a].state # "absent"
    /\ submission[a].state = "absent"
    /\ submission' = [submission EXCEPT ![a] = [state |-> "submitted", external |-> x]]
    /\ UNCHANGED <<clock, runStatus, cancelRequested, planState, trialState,
                   workState, availableAt, lease, attempt>>

TransitionBackendSubmission(a, s) ==
    /\ submission[a].state # "absent"
    /\ submission' = [submission EXCEPT ![a].state = s]
    /\ UNCHANGED <<clock, runStatus, cancelRequested, planState, trialState,
                   workState, availableAt, lease, attempt>>

(* Variant: a submission that is bound already is bound again.             *)
BindAgain(a, x) ==
    /\ submission[a].state # "absent"
    /\ \A b \in AttemptIds \ {a} : submission[b].external # x
    /\ submission' = [submission EXCEPT ![a].external = x]
    /\ UNCHANGED <<clock, runStatus, cancelRequested, planState, trialState,
                   workState, availableAt, lease, attempt>>

BindBackendSubmissionExternalIds(a, x) ==
    /\ submission[a].state # "absent"
    /\ submission[a].external \in {None, x}
    /\ \A b \in AttemptIds \ {a} : submission[b].external # x
    /\ submission' = [submission EXCEPT ![a].external = x]
    /\ UNCHANGED <<clock, runStatus, cancelRequested, planState, trialState,
                   workState, availableAt, lease, attempt>>
-----------------------------------------------------------------------------
(* Any number of clients, each passing a time it read from the clock.      *)

RowStep ==
    \/ \E r \in Runs : \E s \in RunWrites : CreateRun(r, s) \/ UpdateRun(r, s)
    \/ \E p \in Plans : \E s \in PlanWrites : PutPlan(p, s) \/ UpdatePlan(p, s)
    \/ \E w \in Work : PutPlannedTrial(w) \/ CreateWorkItem(w)
    \/ \E w \in Work : \E s \in TrialWrites : UpdatePlannedTrial(w, s)
    \/ \E w \in Work : \E s \in WorkWrites : UpdateWorkItem(w, s)

ControlStep ==
    \/ \E r \in Runs : RequestCancellation(r, WorkOfRun(r), TRUE)
    \/ \E w \in Work : RequestCancellation(RunOf(w), {w}, FALSE)
    \/ \E p \in Plans : CompletePlanIfTerminal(p)
    \/ \E w \in Work : \E t \in 0 .. MaxClock : ScheduleRetry(w, t)

LeaseStep ==
    \/ \E t \in 0 .. clock : \E l \in LeaseIds : \E w \in Work : \E o \in Owners :
          LeaseNextWorkItem(l, w, o, t) \/ AcquireLease(l, w, o, t)
    \/ \E t \in 0 .. clock : ExpireLeases(Work, t) \/ LeaseNextNothing(t)
    \/ \E t \in 0 .. clock : \E r \in Runs : ExpireLeases(WorkOfRun(r), t)
    \/ \E t \in 0 .. clock : \E l \in LeaseIds : \E o \in Owners : RenewLease(l, o, t)
    \/ \E l \in LeaseIds : \E o \in Owners : ReleaseLease(l, o)

AttemptStep ==
    \/ \E a \in AttemptIds : \E w \in Work : \E l \in LeaseIds : \E t \in 0 .. clock :
          \E c \in CandidateIndexes : \E k \in 0 .. MaxNumber - 1 :
             CreateAttemptForLease(a, w, c, k, l, t)
    \/ \E a \in AttemptIds : \E w \in Work : \E l \in LeaseIds \cup {None} : \E t \in 0 .. clock :
          \E n \in 1 .. MaxNumber : \E c \in CandidateIndexes : \E k \in 0 .. MaxNumber - 1 :
             CreateAttempt(a, w, n, c, k, l, t)
    \/ \E a \in AttemptIds : \E s \in AttemptWrites : \E f \in FailureWrites :
          \E rc \in ReconWrites : TransitionAttempt(a, s, f, rc)
    \/ \E a \in AttemptIds : \E x \in ExternalIds \cup {None} : RecordBackendSubmission(a, x)
    \/ \E a \in AttemptIds : \E s \in SubmissionWrites : TransitionBackendSubmission(a, s)
    \/ \E a \in AttemptIds : \E x \in ExternalIds : BindBackendSubmissionExternalIds(a, x)

StoreNext == Tick \/ RowStep \/ ControlStep \/ LeaseStep \/ AttemptStep

StoreSpec == StoreInit /\ [][StoreNext]_storeVars

-----------------------------------------------------------------------------
(* A work item never has two active leases, whoever asks, with whatever    *)
(* "now", and although a retry requeues work whose lease is still active.  *)
LeaseExclusive ==
    \A l, k \in Active(lease) : lease[l].work = lease[k].work => l = k

(* An attempt that names a lease names one granted for the same work item, *)
(* and no two attempts of a work item share their number or their          *)
(* (candidate, retry) slot: an attempt's place in the history is unique.   *)
AttemptIdentity ==
    /\ \A a \in AttemptIds : attempt[a].lease # None =>
          /\ lease[attempt[a].lease].state # "absent"
          /\ lease[attempt[a].lease].work = attempt[a].work
    /\ \A a, b \in AttemptIds :
          a # b /\ attempt[a].work = attempt[b].work /\ attempt[a].work # None =>
             /\ attempt[a].number # attempt[b].number
             /\ <<attempt[a].candidate, attempt[a].retry>> # <<attempt[b].candidate, attempt[b].retry>>

(* History is append-only: a released or expired lease never changes       *)
(* again, so a late heartbeat cannot revive it; an attempt keeps its work  *)
(* item, number and lease for good; and a submission, once it names an     *)
(* external job, never comes to name another, whoever binds how late.      *)
HistoryStep ==
    /\ \A l \in LeaseIds : lease[l].state \in {"released", "expired"} => lease'[l] = lease[l]
    /\ \A l \in LeaseIds : lease[l].state # "absent" =>
          lease'[l].work = lease[l].work /\ lease'[l].owner = lease[l].owner
    /\ \A a \in AttemptIds : attempt[a].state # "absent" =>
          /\ attempt'[a].state # "absent"
          /\ attempt'[a].work = attempt[a].work
          /\ attempt'[a].number = attempt[a].number
          /\ attempt'[a].lease = attempt[a].lease
    /\ \A a \in AttemptIds : submission[a].state # "absent" =>
          /\ submission'[a].state # "absent"
          /\ submission'[a].external = submission[a].external \/ submission[a].external = None

HistoryFrozen == [][HistoryStep]_storeVars
=============================================================================
