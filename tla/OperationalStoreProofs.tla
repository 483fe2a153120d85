----------------------- MODULE OperationalStoreProofs -----------------------
(***************************************************************************)
(* Theorems about OperationalStore for every set of runs, plans, work      *)
(* items, leases and attempts, every clock bound and every limit.          *)
(***************************************************************************)
EXTENDS OperationalStore, TLAPS

USE StoreConstants

(* What the expiry of a set of leases makes of each table has the table's  *)
(* type.                                                                   *)
LEMMA ExpiryTypes ==
    ASSUME StoreTypeOK, NEW D \in SUBSET LeaseIds
    PROVE  /\ ExpiredLeases(D) \in [LeaseIds -> LeaseRows]
           /\ ExpiredWork(D) \in [Work -> WorkStates \cup {"absent"}]
           /\ ExpiredTrials(D) \in [Work -> TrialStates \cup {"absent"}]
           /\ ExpiredAttempts(D) \in [AttemptIds -> AttemptRows]
           /\ ExpiredSubmissions(D) \in [AttemptIds -> SubmissionRows]
<1>1. ExpiredLeases(D) \in [LeaseIds -> LeaseRows]
  <2>1. ASSUME NEW row \in LeaseRows PROVE [row EXCEPT !.state = "expired"] \in LeaseRows
    BY DEF LeaseRows, LeaseStates
  <2> QED BY <2>1 DEF StoreTypeOK, ExpiredLeases
<1>2. ExpiredWork(D) \in [Work -> WorkStates \cup {"absent"}]
  BY DEF StoreTypeOK, ExpiredWork, WorkStates, TrialStates
<1>3. ExpiredTrials(D) \in [Work -> TrialStates \cup {"absent"}]
  BY DEF StoreTypeOK, ExpiredTrials, TrialStates
<1>4. ExpiredAttempts(D) \in [AttemptIds -> AttemptRows]
  <2>1. ASSUME NEW a \in AttemptIds
        PROVE  [attempt[a] EXCEPT !.state = "unknown", !.failure = "unknown",
                                  !.recon = "pending"] \in AttemptRows
    <3> DEFINE row == attempt[a]
    <3>1. row \in AttemptRows
      BY DEF StoreTypeOK
    <3> HIDE DEF row
    <3>2. [row EXCEPT !.state = "unknown"] \in AttemptRows
      BY <3>1 DEF AttemptRows, AttemptStates
    <3>3. ASSUME NEW q \in AttemptRows PROVE [q EXCEPT !.failure = "unknown"] \in AttemptRows
      BY <3>3 DEF AttemptRows, Failures
    <3>4. ASSUME NEW q \in AttemptRows PROVE [q EXCEPT !.recon = "pending"] \in AttemptRows
      BY <3>4 DEF AttemptRows, Reconciliations
    <3>5. [row EXCEPT !.state = "unknown", !.failure = "unknown", !.recon = "pending"] \in AttemptRows
      BY <3>2, <3>3, <3>4
    <3> QED BY <3>5 DEF row
  <2> QED BY <2>1 DEF StoreTypeOK, ExpiredAttempts
<1>5. ExpiredSubmissions(D) \in [AttemptIds -> SubmissionRows]
  <2>1. ASSUME NEW row \in SubmissionRows PROVE [row EXCEPT !.state = "unknown"] \in SubmissionRows
    BY DEF SubmissionRows, SubmissionStates
  <2> QED BY <2>1 DEF StoreTypeOK, ExpiredSubmissions
<1> QED BY <1>1, <1>2, <1>3, <1>4, <1>5

(* The leases due for expiry are leases.                                   *)
LEMMA DueLeases ==
    ASSUME NEW W, NEW t
    PROVE  Due(W, t) \in SUBSET LeaseIds
BY DEF Due, Active

(* A granted lease is a row of the lease table.                            *)
LEMMA GrantType ==
    ASSUME NEW ls \in [LeaseIds -> LeaseRows], NEW l \in LeaseIds, NEW w \in Work,
           NEW o \in Owners, NEW t \in Nat
    PROVE  Grant(ls, l, w, o, t) \in [LeaseIds -> LeaseRows]
<1>1. [work |-> w, owner |-> o, expires |-> t + LeaseTTL, state |-> "active"] \in LeaseRows
  BY DEF LeaseRows, LeaseStates
<1> QED BY <1>1 DEF Grant

-----------------------------------------------------------------------------
(* The store's initial state is well typed.                                *)
LEMMA TypeInit == StoreInit => StoreTypeOK
<1> SUFFICES ASSUME StoreInit PROVE StoreTypeOK
  OBVIOUS
<1>1. NoLease \in LeaseRows
  BY DEF NoLease, LeaseRows
<1>2. NoAttempt \in AttemptRows
  BY DEF NoAttempt, AttemptRows
<1>3. NoSubmission \in SubmissionRows
  BY DEF NoSubmission, SubmissionRows
<1> QED BY <1>1, <1>2, <1>3 DEF StoreInit, StoreTypeOK

(* The row methods keep the types.                                         *)
LEMMA TypeRow == StoreTypeOK /\ RowStep => StoreTypeOK'
<1> SUFFICES ASSUME StoreTypeOK, RowStep PROVE StoreTypeOK'
  OBVIOUS
<1>1. ASSUME NEW r \in Runs, NEW s \in RunWrites, CreateRun(r, s) \/ UpdateRun(r, s)
      PROVE  StoreTypeOK'
  BY <1>1 DEF StoreTypeOK, CreateRun, UpdateRun
<1>2. ASSUME NEW p \in Plans, NEW s \in PlanWrites, PutPlan(p, s) \/ UpdatePlan(p, s)
      PROVE  StoreTypeOK'
  BY <1>2 DEF StoreTypeOK, PutPlan, UpdatePlan
<1>3. ASSUME NEW w \in Work, PutPlannedTrial(w) PROVE StoreTypeOK'
  BY <1>3 DEF StoreTypeOK, PutPlannedTrial, TrialStates
<1>4. ASSUME NEW w \in Work, CreateWorkItem(w) PROVE StoreTypeOK'
  BY <1>4 DEF StoreTypeOK, CreateWorkItem, WorkStates, TrialStates
<1>5. ASSUME NEW w \in Work, NEW s \in TrialWrites, UpdatePlannedTrial(w, s)
      PROVE  StoreTypeOK'
  BY <1>5 DEF StoreTypeOK, UpdatePlannedTrial
<1>6. ASSUME NEW w \in Work, NEW s \in WorkWrites, UpdateWorkItem(w, s)
      PROVE  StoreTypeOK'
  BY <1>6 DEF StoreTypeOK, UpdateWorkItem
<1> QED BY <1>1, <1>2, <1>3, <1>4, <1>5, <1>6 DEF RowStep

(* Cancellation, completion and retry keep the types.                      *)
LEMMA TypeControl == StoreTypeOK /\ ControlStep => StoreTypeOK'
<1> SUFFICES ASSUME StoreTypeOK, ControlStep PROVE StoreTypeOK'
  OBVIOUS
<1>1. ASSUME NEW r \in Runs, NEW W, NEW whole \in BOOLEAN, RequestCancellation(r, W, whole)
      PROVE  StoreTypeOK'
  <2>1. trialState' \in [Work -> TrialStates \cup {"absent"}]
    BY <1>1 DEF StoreTypeOK, RequestCancellation, TrialStates
  <2>2. workState' \in [Work -> WorkStates \cup {"absent"}]
    BY <1>1 DEF StoreTypeOK, RequestCancellation, WorkStates, TrialStates
  <2>3. planState' \in [Plans -> PlanStates \cup {"absent"}]
    BY <1>1 DEF StoreTypeOK, RequestCancellation, PlanStates
  <2>4. runStatus' \in [Runs -> RunStatuses \cup {"absent"}]
    BY <1>1 DEF StoreTypeOK, RequestCancellation, RunStatuses
  <2>5. cancelRequested' \in [Runs -> BOOLEAN]
    BY <1>1 DEF StoreTypeOK, RequestCancellation
  <2> QED BY <1>1, <2>1, <2>2, <2>3, <2>4, <2>5 DEF StoreTypeOK, RequestCancellation
<1>2. ASSUME NEW p \in Plans, CompletePlanIfTerminal(p) PROVE StoreTypeOK'
  <2>1. RunOfPlan[p] \in Runs
    OBVIOUS
  <2>2. planState' \in [Plans -> PlanStates \cup {"absent"}]
    BY <1>2 DEF StoreTypeOK, CompletePlanIfTerminal, PlanStates
  <2>3. runStatus' \in [Runs -> RunStatuses \cup {"absent"}]
    BY <1>2, <2>1 DEF StoreTypeOK, CompletePlanIfTerminal, RunStatuses
  <2> QED BY <1>2, <2>2, <2>3 DEF StoreTypeOK, CompletePlanIfTerminal
<1>3. ASSUME NEW w \in Work, NEW t \in 0 .. MaxClock, ScheduleRetry(w, t)
      PROVE  StoreTypeOK'
  <2>1. workState' \in [Work -> WorkStates \cup {"absent"}]
    <3>1. "queued" \in WorkStates
      BY DEF WorkStates, TrialStates
    <3>2. workState' = workState \/ workState' = [workState EXCEPT ![w] = "queued"]
      BY <1>3 DEF ScheduleRetry
    <3> QED BY <3>1, <3>2 DEF StoreTypeOK
  <2>2. availableAt' \in [Work -> Nat]
    <3>1. t \in Nat
      OBVIOUS
    <3>2. availableAt' = availableAt \/ availableAt' = [availableAt EXCEPT ![w] = t]
      BY <1>3 DEF ScheduleRetry
    <3> QED BY <3>1, <3>2 DEF StoreTypeOK
  <2>3. trialState' \in [Work -> TrialStates \cup {"absent"}]
    BY <1>3 DEF StoreTypeOK, ScheduleRetry, TrialStates
  <2> QED BY <1>3, <2>1, <2>2, <2>3 DEF StoreTypeOK, ScheduleRetry
<1>4. \A w \in Work : RunOf(w) \in Runs
  BY DEF RunOf
<1> QED BY <1>1, <1>2, <1>3, <1>4 DEF ControlStep

(* The tables that an expiry rewrites, and a lease granted after it.       *)
LEMMA TypeExpire ==
    ASSUME StoreTypeOK, NEW W, NEW t, ExpireLeases(W, t)
    PROVE  StoreTypeOK'
BY ExpiryTypes, DueLeases DEF StoreTypeOK, ExpireLeases

(* Granting a lease keeps the types.                                       *)
LEMMA TypeGrant ==
    ASSUME StoreTypeOK, NEW D \in SUBSET LeaseIds, NEW l \in LeaseIds, NEW w \in Work,
           NEW o \in Owners, NEW t \in Nat,
           lease' = Grant(ExpiredLeases(D), l, w, o, t),
           workState' = [ExpiredWork(D) EXCEPT ![w] = "leased"],
           trialState' = ExpiredTrials(D),
           attempt' = ExpiredAttempts(D),
           submission' = ExpiredSubmissions(D),
           UNCHANGED <<clock, runStatus, cancelRequested, planState, availableAt>>
    PROVE  StoreTypeOK'
<1>1. lease' \in [LeaseIds -> LeaseRows]
  BY ExpiryTypes, GrantType
<1>2. workState' \in [Work -> WorkStates \cup {"absent"}]
  BY ExpiryTypes DEF WorkStates
<1> QED BY <1>1, <1>2, ExpiryTypes DEF StoreTypeOK

(* The lease methods keep the types.                                       *)
LEMMA TypeLease == StoreTypeOK /\ LeaseStep => StoreTypeOK'
<1> SUFFICES ASSUME StoreTypeOK, LeaseStep PROVE StoreTypeOK'
  OBVIOUS
<1>0. 0 .. clock \subseteq Nat
  BY DEF StoreTypeOK
<1>1. ASSUME NEW t \in Nat, NEW l \in LeaseIds, NEW w \in Work, NEW o \in Owners,
             LeaseNextWorkItem(l, w, o, t) \/ AcquireLease(l, w, o, t)
      PROVE  StoreTypeOK'
  BY <1>1, DueLeases, TypeGrant DEF LeaseNextWorkItem, AcquireLease
<1>2. ASSUME NEW W, NEW t, ExpireLeases(W, t) PROVE StoreTypeOK'
  BY <1>2, TypeExpire
<1>3. ASSUME NEW t \in Nat, NEW l \in LeaseIds, NEW o \in Owners, RenewLease(l, o, t)
      PROVE  StoreTypeOK'
  <2>1. ASSUME NEW row \in LeaseRows PROVE [row EXCEPT !.expires = t + LeaseTTL] \in LeaseRows
    BY DEF LeaseRows
  <2>2. lease' = [lease EXCEPT ![l] = [lease[l] EXCEPT !.expires = t + LeaseTTL]]
    BY <1>3 DEF RenewLease
  <2>3. lease' \in [LeaseIds -> LeaseRows]
    BY <2>1, <2>2 DEF StoreTypeOK
  <2> QED BY <1>3, <2>3 DEF StoreTypeOK, RenewLease
<1>4. ASSUME NEW l \in LeaseIds, NEW o \in Owners, ReleaseLease(l, o)
      PROVE  StoreTypeOK'
  <2>1. ASSUME NEW row \in LeaseRows PROVE [row EXCEPT !.state = "released"] \in LeaseRows
    BY DEF LeaseRows, LeaseStates
  <2>2. lease' = [lease EXCEPT ![l] = [lease[l] EXCEPT !.state = "released"]]
    BY <1>4 DEF ReleaseLease
  <2>3. lease' \in [LeaseIds -> LeaseRows]
    BY <2>1, <2>2 DEF StoreTypeOK
  <2>4. workState' \in [Work -> WorkStates \cup {"absent"}]
    BY <1>4 DEF StoreTypeOK, ReleaseLease, WorkStates, TrialStates
  <2> QED BY <1>4, <2>3, <2>4 DEF StoreTypeOK, ReleaseLease
<1> QED BY <1>0, <1>1, <1>2, <1>3, <1>4 DEF LeaseStep, LeaseNextNothing

(* An inserted attempt is a row of the attempt table.                      *)
LEMMA TypeInsert ==
    ASSUME StoreTypeOK, NEW a \in AttemptIds, NEW w \in Work, NEW n \in Nat, NEW c \in Nat,
           NEW k \in Nat, NEW l \in LeaseIds \cup {None}, InsertAttempt(a, w, n, c, k, l)
    PROVE  StoreTypeOK'
<1>1. [work |-> w, number |-> n, candidate |-> c, retry |-> k, lease |-> l,
       state |-> "created", failure |-> None, recon |-> None] \in AttemptRows
  BY DEF AttemptRows, AttemptStates
<1> QED BY <1>1 DEF StoreTypeOK, InsertAttempt

(* Rows of the attempt table that agree on an attempt's identity: its work *)
(* item, number, slot and lease.                                           *)
SameIdentity(r, q) ==
    /\ r.work = q.work /\ r.number = q.number /\ r.lease = q.lease
    /\ r.candidate = q.candidate /\ r.retry = q.retry

(* A new state, failure and reconciliation keep the identity of an attempt *)
(* and touch no other.                                                     *)
LEMMA OutcomeRows ==
    ASSUME StoreTypeOK, NEW a \in AttemptIds, NEW s \in AttemptStates,
           NEW f \in Failures \cup {None}, NEW rc \in Reconciliations \cup {None},
           attempt' = [attempt EXCEPT ![a] =
              [attempt[a] EXCEPT !.state = s,
                 !.failure = IF s \in {"succeeded", "cancelled"} THEN None
                             ELSE IF f = None THEN attempt[a].failure ELSE f,
                 !.recon = IF rc = None THEN attempt[a].recon ELSE rc]]
    PROVE  /\ attempt' \in [AttemptIds -> AttemptRows]
           /\ \A b \in AttemptIds : SameIdentity(attempt'[b], attempt[b])
           /\ \A b \in AttemptIds : attempt'[b].state = IF b = a THEN s ELSE attempt[b].state
<1> DEFINE g == IF s \in {"succeeded", "cancelled"} THEN None
                ELSE IF f = None THEN attempt[a].failure ELSE f
           q == IF rc = None THEN attempt[a].recon ELSE rc
           row == [attempt[a] EXCEPT !.state = s, !.failure = g, !.recon = q]
<1>1. attempt[a] \in AttemptRows
  BY DEF StoreTypeOK
<1>2. g \in Failures \cup {None} /\ q \in Reconciliations \cup {None}
  BY <1>1 DEF AttemptRows
<1>3. attempt' = [attempt EXCEPT ![a] = row]
  BY <1>1 DEF StoreTypeOK
<1>4. row \in AttemptRows /\ SameIdentity(row, attempt[a]) /\ row.state = s
  <2> HIDE DEF g, q
  <2> DEFINE r1 == [attempt[a] EXCEPT !.state = s]
             r2 == [r1 EXCEPT !.failure = g]
  <2>1. r1 \in AttemptRows /\ SameIdentity(r1, attempt[a]) /\ r1.state = s
    BY <1>1 DEF AttemptRows, SameIdentity
  <2> HIDE DEF r1
  <2>2. r2 \in AttemptRows /\ SameIdentity(r2, r1) /\ r2.state = r1.state
    BY <1>2, <2>1 DEF AttemptRows, SameIdentity
  <2> HIDE DEF r2
  <2>3. [r2 EXCEPT !.recon = q] \in AttemptRows /\ SameIdentity([r2 EXCEPT !.recon = q], r2)
        /\ [r2 EXCEPT !.recon = q].state = r2.state
    BY <1>2, <2>2 DEF AttemptRows, SameIdentity
  <2>4. row = [r2 EXCEPT !.recon = q]
    BY DEF r1, r2
  <2> QED BY <2>1, <2>2, <2>3, <2>4 DEF SameIdentity
<1> HIDE DEF row
<1> QED BY <1>3, <1>4 DEF StoreTypeOK, SameIdentity

(* transition_attempt is such a change.                                    *)
LEMMA TransitionRows ==
    ASSUME StoreTypeOK, NEW a \in AttemptIds, NEW s \in AttemptStates,
           NEW f \in Failures \cup {None}, NEW rc \in Reconciliations \cup {None},
           TransitionAttempt(a, s, f, rc)
    PROVE  /\ attempt' \in [AttemptIds -> AttemptRows]
           /\ \A b \in AttemptIds : SameIdentity(attempt'[b], attempt[b])
           /\ \A b \in AttemptIds : attempt'[b].state = IF b = a THEN s ELSE attempt[b].state
BY OutcomeRows DEF TransitionAttempt

(* The attempt and submission methods keep the types.                      *)
LEMMA TypeAttempt == StoreTypeOK /\ AttemptStep => StoreTypeOK'
<1> SUFFICES ASSUME StoreTypeOK, AttemptStep PROVE StoreTypeOK'
  OBVIOUS
<1>1. ASSUME NEW a \in AttemptIds, NEW w \in Work, NEW l \in LeaseIds, NEW t,
             NEW c \in CandidateIndexes, NEW k \in 0 .. MaxNumber - 1,
             CreateAttemptForLease(a, w, c, k, l, t)
      PROVE  StoreTypeOK'
  <2>1. PICK n \in 1 .. MaxNumber : InsertAttempt(a, w, n, c, k, l)
    BY <1>1 DEF CreateAttemptForLease
  <2>2. n \in Nat /\ c \in Nat /\ k \in Nat
    OBVIOUS
  <2> QED BY <2>1, <2>2, TypeInsert
<1>2. ASSUME NEW a \in AttemptIds, NEW w \in Work, NEW l \in LeaseIds \cup {None}, NEW t,
             NEW n \in 1 .. MaxNumber, NEW c \in CandidateIndexes, NEW k \in 0 .. MaxNumber - 1,
             CreateAttempt(a, w, n, c, k, l, t)
      PROVE  StoreTypeOK'
  <2>1. n \in Nat /\ c \in Nat /\ k \in Nat
    OBVIOUS
  <2>2. InsertAttempt(a, w, n, c, k, l)
    BY <1>2 DEF CreateAttempt
  <2> QED BY <2>1, <2>2, TypeInsert
<1>3. ASSUME NEW a \in AttemptIds, NEW s \in AttemptWrites, NEW f \in FailureWrites,
             NEW rc \in ReconWrites, TransitionAttempt(a, s, f, rc)
      PROVE  StoreTypeOK'
  <2>1. attempt' \in [AttemptIds -> AttemptRows]
    BY <1>3, TransitionRows
  <2> QED BY <1>3, <2>1 DEF StoreTypeOK, TransitionAttempt
<1>4. ASSUME NEW a \in AttemptIds, NEW s \in SubmissionStates,
             submission' = [submission EXCEPT ![a] = [submission[a] EXCEPT !.state = s]]
      PROVE  submission' \in [AttemptIds -> SubmissionRows]
  <2>1. ASSUME NEW row \in SubmissionRows PROVE [row EXCEPT !.state = s] \in SubmissionRows
    BY DEF SubmissionRows
  <2> QED BY <1>4, <2>1 DEF StoreTypeOK
<1>5. ASSUME NEW a \in AttemptIds, NEW x \in ExternalIds \cup {None}, RecordBackendSubmission(a, x)
      PROVE  StoreTypeOK'
  <2>1. submission' \in [AttemptIds -> SubmissionRows]
    BY <1>5 DEF RecordBackendSubmission, StoreTypeOK, SubmissionRows, SubmissionStates
  <2> QED BY <1>5, <2>1 DEF StoreTypeOK, RecordBackendSubmission
<1>6. ASSUME NEW a \in AttemptIds, NEW s \in SubmissionWrites, TransitionBackendSubmission(a, s)
      PROVE  StoreTypeOK'
  <2>1. submission' \in [AttemptIds -> SubmissionRows]
    BY <1>4, <1>6 DEF TransitionBackendSubmission
  <2> QED BY <1>6, <2>1 DEF StoreTypeOK, TransitionBackendSubmission
<1>7. ASSUME NEW a \in AttemptIds, NEW x \in ExternalIds, BindBackendSubmissionExternalIds(a, x)
      PROVE  StoreTypeOK'
  <2>1. ASSUME NEW row \in SubmissionRows PROVE [row EXCEPT !.external = x] \in SubmissionRows
    BY DEF SubmissionRows
  <2>2. submission' = [submission EXCEPT ![a] = [submission[a] EXCEPT !.external = x]]
    BY <1>7 DEF BindBackendSubmissionExternalIds
  <2>3. submission' \in [AttemptIds -> SubmissionRows]
    BY <2>1, <2>2 DEF StoreTypeOK
  <2> QED BY <1>7, <2>3 DEF StoreTypeOK, BindBackendSubmissionExternalIds
<1> QED BY <1>1, <1>2, <1>3, <1>5, <1>6, <1>7 DEF AttemptStep

(* Every step keeps the types.                                             *)
LEMMA TypeStep == StoreTypeOK /\ [StoreNext]_storeVars => StoreTypeOK'
<1> SUFFICES ASSUME StoreTypeOK, [StoreNext]_storeVars PROVE StoreTypeOK'
  OBVIOUS
<1>1. CASE Tick
  BY <1>1 DEF StoreTypeOK, Tick
<1>2. CASE UNCHANGED storeVars
  BY <1>2 DEF StoreTypeOK, storeVars
<1> QED BY <1>1, <1>2, TypeRow, TypeControl, TypeLease, TypeAttempt DEF StoreNext

(* Every row of every table keeps a value that its column admits, whatever *)
(* the clients of the store do.                                            *)
THEOREM StoreTypeCorrect == StoreSpec => []StoreTypeOK
BY TypeInit, TypeStep, PTL DEF StoreSpec

-----------------------------------------------------------------------------
(* How a step may change the lease table: it leaves it alone, ends some    *)
(* active leases, extends one, or ends some and grants a fresh one for a   *)
(* work item that then has no active lease.                                *)

LeasesEnd(ls) ==
    \A l \in LeaseIds :
        /\ ls[l].work = lease[l].work /\ ls[l].owner = lease[l].owner
        /\ ls[l].state = "absent" <=> lease[l].state = "absent"
        /\ ls[l].state = "active" => lease[l].state = "active"
        /\ lease[l].state # "active" => ls[l] = lease[l]

LeaseGranted(ls, l, w) ==
    /\ lease[l].state = "absent"
    /\ \A k \in LeaseIds : ls[k].state = "active" => ls[k].work # w
    /\ lease'[l].work = w /\ lease'[l].state = "active"
    /\ \A k \in LeaseIds \ {l} : lease'[k] = ls[k]

LeaseChange ==
    \/ LeasesEnd(lease')
    \/ \E l \in LeaseIds : \E w \in Work : \E ls \in [LeaseIds -> LeaseRows] :
          LeasesEnd(ls) /\ LeaseGranted(ls, l, w)

(* _expire_leases only ends active leases.                                 *)
LEMMA ExpiredEnd ==
    ASSUME StoreTypeOK, NEW W, NEW t
    PROVE  LeasesEnd(ExpiredLeases(Due(W, t)))
<1> DEFINE D == Due(W, t)
<1>1. \A l \in D : lease[l].state = "active"
  BY DEF Due, Active
<1>2. ASSUME NEW row \in LeaseRows
      PROVE  LET q == [row EXCEPT !.state = "expired"]
             IN  q.work = row.work /\ q.owner = row.owner /\ q.state = "expired"
  BY DEF LeaseRows
<1>3. \A l \in LeaseIds : lease[l] \in LeaseRows
  BY DEF StoreTypeOK
<1> HIDE DEF D
<1>4. ASSUME NEW l \in LeaseIds
      PROVE  LET ls == ExpiredLeases(D)
             IN  /\ ls[l].work = lease[l].work /\ ls[l].owner = lease[l].owner
                 /\ ls[l].state = "absent" <=> lease[l].state = "absent"
                 /\ ls[l].state = "active" => lease[l].state = "active"
                 /\ lease[l].state # "active" => ls[l] = lease[l]
  <2>1. CASE l \in D
    BY <1>1, <1>2, <1>3, <2>1 DEF ExpiredLeases
  <2>2. CASE l \notin D
    BY <2>2 DEF ExpiredLeases
  <2> QED BY <2>1, <2>2
<1> QED BY <1>4 DEF LeasesEnd, D

(* lease_next_work_item and acquire_lease end leases and grant one.        *)
LEMMA GrantChange ==
    ASSUME StoreTypeOK, NEW t \in Nat, NEW l \in LeaseIds, NEW w \in Work, NEW o \in Owners,
           LeaseNextWorkItem(l, w, o, t) \/ AcquireLease(l, w, o, t)
    PROVE  LeaseChange
<1> DEFINE ls == ExpiredLeases(Due(Work, t))
<1>1. ls \in [LeaseIds -> LeaseRows]
  BY ExpiryTypes, DueLeases
<1>2. LeasesEnd(ls)
  BY ExpiredEnd
<1>3. lease' = Grant(ls, l, w, o, t) /\ ~HasActiveLease(w, ls) /\ lease[l].state = "absent"
  BY DEF LeaseNextWorkItem, AcquireLease, IsFreshLease
<1> HIDE DEF ls
<1>4. LeaseGranted(ls, l, w)
  BY <1>1, <1>3 DEF LeaseGranted, Grant, HasActiveLease, Active
<1> QED BY <1>1, <1>2, <1>4 DEF LeaseChange

(* No change is such a change.                                             *)
LEMMA LeasesUnchanged == UNCHANGED lease => LeaseChange
BY DEF LeaseChange, LeasesEnd

(* renew_lease changes nothing but the expiry of one active lease.         *)
LEMMA RenewChange ==
    ASSUME StoreTypeOK, NEW t \in Nat, NEW l \in LeaseIds, NEW o \in Owners, RenewLease(l, o, t)
    PROVE  LeasesEnd(lease')
<1>1. lease[l].state = "active"
  BY DEF RenewLease, Renewable
<1>2. lease' = [lease EXCEPT ![l] = [lease[l] EXCEPT !.expires = t + LeaseTTL]]
  BY DEF RenewLease
<1>3. ASSUME NEW row \in LeaseRows
      PROVE  LET q == [row EXCEPT !.expires = t + LeaseTTL]
             IN  q.work = row.work /\ q.owner = row.owner /\ q.state = row.state
  BY DEF LeaseRows
<1> QED BY <1>1, <1>2, <1>3 DEF StoreTypeOK, LeasesEnd

(* release_lease ends one active lease.                                    *)
LEMMA ReleaseChange ==
    ASSUME StoreTypeOK, NEW l \in LeaseIds, NEW o \in Owners, ReleaseLease(l, o)
    PROVE  LeasesEnd(lease')
<1>1. lease[l].state = "active"
  BY DEF ReleaseLease, Releasable
<1>2. lease' = [lease EXCEPT ![l] = [lease[l] EXCEPT !.state = "released"]]
  BY DEF ReleaseLease
<1>3. ASSUME NEW row \in LeaseRows
      PROVE  LET q == [row EXCEPT !.state = "released"]
             IN  q.work = row.work /\ q.owner = row.owner /\ q.state = "released"
  BY DEF LeaseRows
<1> QED BY <1>1, <1>2, <1>3 DEF StoreTypeOK, LeasesEnd

(* No other method writes a lease.                                         *)
LEMMA RowLeases == RowStep \/ ControlStep \/ AttemptStep => UNCHANGED lease
<1>1. RowStep => UNCHANGED lease
  BY DEF RowStep, CreateRun, UpdateRun, PutPlan, UpdatePlan, PutPlannedTrial, CreateWorkItem,
         UpdatePlannedTrial, UpdateWorkItem
<1>2. ControlStep => UNCHANGED lease
  BY DEF ControlStep, RequestCancellation, CompletePlanIfTerminal, ScheduleRetry
<1>3. AttemptStep => UNCHANGED lease
  <2>1. \A a, w, n, c, k, l : InsertAttempt(a, w, n, c, k, l) => UNCHANGED lease
    BY DEF InsertAttempt
  <2>2. \A a, w, n, c, k, l, t : CreateAttempt(a, w, n, c, k, l, t) => UNCHANGED lease
    BY <2>1 DEF CreateAttempt
  <2>3. \A a, w, c, k, l, t : CreateAttemptForLease(a, w, c, k, l, t) => UNCHANGED lease
    BY <2>1 DEF CreateAttemptForLease
  <2>4. \A a, s, f, rc : TransitionAttempt(a, s, f, rc) => UNCHANGED lease
    BY DEF TransitionAttempt
  <2>5. \A a, s : RecordBackendSubmission(a, s) \/ TransitionBackendSubmission(a, s)
                  \/ BindBackendSubmissionExternalIds(a, s) => UNCHANGED lease
    BY DEF RecordBackendSubmission, TransitionBackendSubmission, BindBackendSubmissionExternalIds
  <2> QED BY <2>2, <2>3, <2>4, <2>5 DEF AttemptStep
<1> QED BY <1>1, <1>2, <1>3

(* So every step changes the lease table in one of these ways.             *)
LEMMA EveryLeaseChange == StoreTypeOK /\ [StoreNext]_storeVars => LeaseChange
<1> SUFFICES ASSUME StoreTypeOK, [StoreNext]_storeVars PROVE LeaseChange
  OBVIOUS
<1>1. CASE LeaseStep
  <2>0. 0 .. clock \subseteq Nat
    BY DEF StoreTypeOK
  <2>1. ASSUME NEW W, NEW t, ExpireLeases(W, t) PROVE LeaseChange
    BY <2>1, ExpiredEnd DEF ExpireLeases, LeaseChange
  <2>2. ASSUME NEW t \in Nat, NEW l \in LeaseIds, NEW o \in Owners,
               RenewLease(l, o, t) \/ ReleaseLease(l, o)
        PROVE  LeaseChange
    BY <2>2, RenewChange, ReleaseChange DEF LeaseChange
  <2>3. 0 \in Nat
    OBVIOUS
  <2> QED BY <1>1, <2>0, <2>1, <2>2, <2>3, GrantChange DEF LeaseStep, LeaseNextNothing
<1>2. CASE ~LeaseStep
  BY <1>2, RowLeases, LeasesUnchanged DEF StoreNext, Tick, storeVars
<1> QED BY <1>1, <1>2

(* The heart of exclusion: no change of the lease table gives a work item  *)
(* a second active lease.                                                  *)
LEMMA ChangeKeepsExclusion == LeaseExclusive /\ LeaseChange => LeaseExclusive'
<1> SUFFICES ASSUME LeaseExclusive, LeaseChange PROVE LeaseExclusive'
  OBVIOUS
<1>1. CASE LeasesEnd(lease')
  BY <1>1 DEF LeaseExclusive, LeasesEnd, Active
<1>2. ASSUME NEW l \in LeaseIds, NEW w \in Work, NEW ls \in [LeaseIds -> LeaseRows],
             LeasesEnd(ls), LeaseGranted(ls, l, w)
      PROVE  LeaseExclusive'
  BY <1>2 DEF LeaseExclusive, LeasesEnd, LeaseGranted, Active
<1> QED BY <1>1, <1>2 DEF LeaseChange

(* No work item ever has two active leases, for any number of clients,     *)
(* whatever times they pass: lease_next_work_item and acquire_lease.       *)
THEOREM LeaseExclusion == StoreSpec => []LeaseExclusive
<1>1. StoreInit => LeaseExclusive
  BY DEF StoreInit, NoLease, LeaseExclusive, Active
<1>2. StoreTypeOK /\ LeaseExclusive /\ [StoreNext]_storeVars => LeaseExclusive'
  BY EveryLeaseChange, ChangeKeepsExclusion
<1> QED BY <1>1, <1>2, StoreTypeCorrect, PTL DEF StoreSpec

-----------------------------------------------------------------------------
(* How a step may change the attempt table: it keeps the identity of every *)
(* row, or it inserts one row into a free place of its work item's history.*)

AttemptKept(a) ==
    /\ SameIdentity(attempt'[a], attempt[a])
    /\ attempt'[a].state = "absent" <=> attempt[a].state = "absent"

AttemptInserted(a, w, n, c, k, l) ==
    /\ UNCHANGED lease
    /\ l # None => lease[l].state = "active" /\ lease[l].work = w
    /\ \A b \in AttemptIds : attempt[b].work = w =>
          attempt[b].number # n /\ ~(attempt[b].candidate = c /\ attempt[b].retry = k)
    /\ attempt[a].state = "absent" /\ attempt'[a].state # "absent"
    /\ attempt'[a].work = w /\ attempt'[a].number = n /\ attempt'[a].lease = l
    /\ attempt'[a].candidate = c /\ attempt'[a].retry = k
    /\ \A b \in AttemptIds \ {a} : attempt'[b] = attempt[b]

AttemptChange ==
    \/ \A a \in AttemptIds : AttemptKept(a)
    \/ \E a \in AttemptIds, w \in Work, n \in Nat, c \in Nat, k \in Nat, l \in LeaseIds \cup {None} :
          AttemptInserted(a, w, n, c, k, l)

(* No change is such a change.                                             *)
LEMMA AttemptsUnchanged == UNCHANGED attempt => AttemptChange
BY DEF AttemptChange, AttemptKept, SameIdentity

(* Expiry makes attempts unknown and keeps the identity of each.           *)
LEMMA ExpiredKept ==
    ASSUME StoreTypeOK, NEW D, attempt' = ExpiredAttempts(D)
    PROVE  \A b \in AttemptIds : AttemptKept(b)
<1>1. ASSUME NEW row \in AttemptRows
      PROVE  LET q == [row EXCEPT !.state = "unknown", !.failure = "unknown", !.recon = "pending"]
             IN  SameIdentity(q, row) /\ q.state = "unknown"
  BY DEF AttemptRows, SameIdentity
<1>2. ASSUME NEW a \in AttemptIds PROVE AttemptKept(a)
  <2>1. CASE attempt'[a] = attempt[a]
    BY <2>1 DEF AttemptKept, SameIdentity
  <2>2. CASE attempt'[a] # attempt[a]
    BY <1>1, <2>2 DEF StoreTypeOK, ExpiredAttempts, AttemptKept
  <2> QED BY <2>1, <2>2
<1> QED BY <1>2

(* transition_attempt keeps the identity of every attempt.                 *)
LEMMA TransitionKept ==
    ASSUME StoreTypeOK, NEW a \in AttemptIds, NEW s \in AttemptStates,
           NEW f \in Failures \cup {None}, NEW rc \in Reconciliations \cup {None},
           TransitionAttempt(a, s, f, rc)
    PROVE  \A b \in AttemptIds : AttemptKept(b)
<1>1. s # "absent" /\ attempt[a].state # "absent"
  BY DEF AttemptStates, TransitionAttempt
<1> QED BY <1>1, TransitionRows DEF AttemptKept

(* The row that create_attempt and create_attempt_for_lease insert.        *)
LEMMA InsertedRow ==
    ASSUME StoreTypeOK, NEW a \in AttemptIds, NEW w \in Work, NEW n \in Nat, NEW c \in Nat,
           NEW k \in Nat, NEW l \in LeaseIds \cup {None},
           InsertAttempt(a, w, n, c, k, l), RetrySlotFree(w, c, k),
           l # None => lease[l].state = "active" /\ lease[l].work = w,
           \A b \in AttemptsOf(w) : attempt[b].number # n
    PROVE  AttemptChange
<1>1. \A b \in AttemptIds : attempt[b].work = w =>
         attempt[b].number # n /\ ~(attempt[b].candidate = c /\ attempt[b].retry = k)
  BY DEF RetrySlotFree, AttemptsOf
<1>2. UNCHANGED lease /\ attempt[a].state = "absent"
  BY DEF InsertAttempt, IsFreshAttempt
<1>3. attempt' = [attempt EXCEPT ![a] =
          [work |-> w, number |-> n, candidate |-> c, retry |-> k, lease |-> l,
           state |-> "created", failure |-> None, recon |-> None]]
  BY DEF InsertAttempt
<1>4. attempt'[a].state = "created" /\ attempt'[a].work = w /\ attempt'[a].number = n
      /\ attempt'[a].lease = l /\ attempt'[a].candidate = c /\ attempt'[a].retry = k
  BY <1>3 DEF StoreTypeOK
<1>5. \A b \in AttemptIds \ {a} : attempt'[b] = attempt[b]
  BY <1>3 DEF StoreTypeOK
<1>6. AttemptInserted(a, w, n, c, k, l)
  BY <1>1, <1>2, <1>4, <1>5 DEF AttemptInserted
<1> QED BY <1>6 DEF AttemptChange

(* The attempt and submission methods change the table so.                 *)
LEMMA AttemptStepChange == StoreTypeOK /\ AttemptStep => AttemptChange
<1> SUFFICES ASSUME StoreTypeOK, AttemptStep PROVE AttemptChange
  OBVIOUS
<1>0. /\ CandidateIndexes \subseteq Nat /\ 0 .. MaxNumber - 1 \subseteq Nat /\ 1 .. MaxNumber \subseteq Nat
      /\ AttemptWrites \subseteq AttemptStates /\ FailureWrites \subseteq Failures \cup {None}
      /\ ReconWrites \subseteq Reconciliations \cup {None}
  OBVIOUS
<1>1. ASSUME NEW a \in AttemptIds, NEW w \in Work, NEW l \in LeaseIds, NEW t, NEW c \in Nat,
             NEW k \in Nat, CreateAttemptForLease(a, w, c, k, l, t)
      PROVE  AttemptChange
  <2>1. PICK n \in 1 .. MaxNumber : IsNextNumber(w, n) /\ InsertAttempt(a, w, n, c, k, l)
    BY <1>1 DEF CreateAttemptForLease
  <2>2. RetrySlotFree(w, c, k) /\ lease[l].state = "active" /\ lease[l].work = w
    BY <1>1 DEF CreateAttemptForLease, LeaseHolds
  <2>3. \A b \in AttemptsOf(w) : attempt[b].number # n
    BY <2>1 DEF IsNextNumber
  <2>4. n \in Nat /\ l \in LeaseIds \cup {None}
    OBVIOUS
  <2> QED BY <2>1, <2>2, <2>3, <2>4, InsertedRow
<1>2. ASSUME NEW a \in AttemptIds, NEW w \in Work, NEW l \in LeaseIds \cup {None}, NEW t,
             NEW n \in Nat, NEW c \in Nat, NEW k \in Nat, CreateAttempt(a, w, n, c, k, l, t)
      PROVE  AttemptChange
  <2>1. /\ InsertAttempt(a, w, n, c, k, l) /\ RetrySlotFree(w, c, k)
        /\ l # None => lease[l].state = "active" /\ lease[l].work = w
        /\ \A b \in AttemptsOf(w) : attempt[b].number # n
    BY <1>2 DEF CreateAttempt, LeaseHolds
  <2> QED BY <2>1, InsertedRow
<1>3. \A a, s : RecordBackendSubmission(a, s) \/ TransitionBackendSubmission(a, s)
                \/ BindBackendSubmissionExternalIds(a, s) => UNCHANGED attempt
  BY DEF RecordBackendSubmission, TransitionBackendSubmission, BindBackendSubmissionExternalIds
<1>4. ASSUME NEW a \in AttemptIds, NEW s \in AttemptStates, NEW f \in Failures \cup {None},
             NEW rc \in Reconciliations \cup {None}, TransitionAttempt(a, s, f, rc)
      PROVE  AttemptChange
  BY <1>4, TransitionKept DEF AttemptChange
<1> QED BY <1>0, <1>1, <1>2, <1>3, <1>4, AttemptsUnchanged DEF AttemptStep

(* Every step does.                                                        *)
LEMMA EveryAttemptChange == StoreTypeOK /\ [StoreNext]_storeVars => AttemptChange
<1> SUFFICES ASSUME StoreTypeOK, [StoreNext]_storeVars PROVE AttemptChange
  OBVIOUS
<1>1. CASE LeaseStep
  <2>1. \A W, t : ExpireLeases(W, t) => attempt' = ExpiredAttempts(Due(W, t))
    BY DEF ExpireLeases
  <2>2. \A l, w, o, t : LeaseNextWorkItem(l, w, o, t) \/ AcquireLease(l, w, o, t)
            => attempt' = ExpiredAttempts(Due(Work, t))
    BY DEF LeaseNextWorkItem, AcquireLease
  <2>3. \A l, o, t : RenewLease(l, o, t) \/ ReleaseLease(l, o) => UNCHANGED attempt
    BY DEF RenewLease, ReleaseLease
  <2>4. \A W, t : ExpireLeases(W, t) => AttemptChange
    BY <2>1, ExpiredKept DEF AttemptChange
  <2>5. \A l, w, o, t : LeaseNextWorkItem(l, w, o, t) \/ AcquireLease(l, w, o, t) => AttemptChange
    BY <2>2, ExpiredKept DEF AttemptChange
  <2>6. \A l, o, t : RenewLease(l, o, t) \/ ReleaseLease(l, o) => AttemptChange
    BY <2>3, AttemptsUnchanged
  <2> QED BY <1>1, <2>4, <2>5, <2>6 DEF LeaseStep, LeaseNextNothing
<1>2. RowStep => UNCHANGED attempt
  BY DEF RowStep, CreateRun, UpdateRun, PutPlan, UpdatePlan, PutPlannedTrial, CreateWorkItem,
         UpdatePlannedTrial, UpdateWorkItem
<1>3. ControlStep => UNCHANGED attempt
  BY DEF ControlStep, RequestCancellation, CompletePlanIfTerminal, ScheduleRetry
<1>4. Tick \/ UNCHANGED storeVars => UNCHANGED attempt
  BY DEF Tick, storeVars
<1> QED BY <1>1, <1>2, <1>3, <1>4, AttemptStepChange, AttemptsUnchanged DEF StoreNext

-----------------------------------------------------------------------------
(* Leases once granted keep their work item and owner.                     *)
LEMMA GrantedKept ==
    LeaseChange => \A l \in LeaseIds : lease[l].state # "absent" =>
        lease'[l].state # "absent" /\ lease'[l].work = lease[l].work /\ lease'[l].owner = lease[l].owner
<1> SUFFICES ASSUME LeaseChange, NEW l \in LeaseIds, lease[l].state # "absent"
             PROVE  lease'[l].state # "absent" /\ lease'[l].work = lease[l].work
                    /\ lease'[l].owner = lease[l].owner
  OBVIOUS
<1>1. CASE LeasesEnd(lease')
  BY <1>1 DEF LeasesEnd
<1>2. ASSUME NEW k \in LeaseIds, NEW w \in Work, NEW ls \in [LeaseIds -> LeaseRows],
             LeasesEnd(ls), LeaseGranted(ls, k, w)
      PROVE  lease'[l].state # "absent" /\ lease'[l].work = lease[l].work
             /\ lease'[l].owner = lease[l].owner
  <2>1. l # k /\ lease'[l] = ls[l]
    BY <1>2 DEF LeaseGranted
  <2> QED BY <1>2, <2>1 DEF LeasesEnd
<1> QED BY <1>1, <1>2 DEF LeaseChange

(* A released or expired lease is never written again.                     *)
LEMMA EndedKept ==
    LeaseChange => \A l \in LeaseIds :
        lease[l].state \in {"released", "expired"} => lease'[l] = lease[l]
<1> SUFFICES ASSUME LeaseChange, NEW l \in LeaseIds, lease[l].state \in {"released", "expired"}
             PROVE  lease'[l] = lease[l]
  OBVIOUS
<1>1. CASE LeasesEnd(lease')
  BY <1>1 DEF LeasesEnd
<1>2. ASSUME NEW k \in LeaseIds, NEW w \in Work, NEW ls \in [LeaseIds -> LeaseRows],
             LeasesEnd(ls), LeaseGranted(ls, k, w)
      PROVE  lease'[l] = lease[l]
  <2>1. l # k /\ lease'[l] = ls[l]
    BY <1>2 DEF LeaseGranted
  <2> QED BY <1>2, <2>1 DEF LeasesEnd
<1> QED BY <1>1, <1>2 DEF LeaseChange

-----------------------------------------------------------------------------
(* How a step may change the submission table: no submission disappears,   *)
(* and the external identifier of one is bound at most once.               *)

SubmissionKept(a) == submission[a].state # "absent" =>
    /\ submission'[a].state # "absent"
    /\ submission'[a].external = submission[a].external \/ submission[a].external = None

SubmissionChange == \A a \in AttemptIds : SubmissionKept(a)

(* No change is such a change.                                             *)
LEMMA SubmissionsUnchanged == UNCHANGED submission => SubmissionChange
BY DEF SubmissionChange, SubmissionKept

(* Expiry changes only the state of submissions.                           *)
LEMMA ExpiredSubmissionChange ==
    ASSUME StoreTypeOK, NEW D, submission' = ExpiredSubmissions(D)
    PROVE  SubmissionChange
<1>1. ASSUME NEW row \in SubmissionRows
      PROVE  /\ [row EXCEPT !.state = "unknown"].external = row.external
             /\ [row EXCEPT !.state = "unknown"].state = "unknown"
  BY DEF SubmissionRows
<1>2. ASSUME NEW a \in AttemptIds PROVE SubmissionKept(a)
  <2>1. CASE submission'[a] = submission[a]
    BY <2>1 DEF SubmissionKept
  <2>2. CASE submission'[a] # submission[a]
    <3>1. submission'[a] = [submission[a] EXCEPT !.state = "unknown"]
      BY <2>2 DEF ExpiredSubmissions
    <3> QED BY <1>1, <3>1 DEF StoreTypeOK, SubmissionKept
  <2> QED BY <2>1, <2>2
<1> QED BY <1>2 DEF SubmissionChange

(* transition_backend_submission changes the state only.                   *)
LEMMA StateSubmissionChange ==
    ASSUME StoreTypeOK, NEW a \in AttemptIds, NEW s \in SubmissionStates,
           submission' = [submission EXCEPT ![a] = [submission[a] EXCEPT !.state = s]]
    PROVE  SubmissionChange
<1>1. /\ [submission[a] EXCEPT !.state = s].external = submission[a].external
      /\ [submission[a] EXCEPT !.state = s].state # "absent"
  BY DEF StoreTypeOK, SubmissionRows, SubmissionStates
<1>2. \A b \in AttemptIds : SubmissionKept(b)
  BY <1>1 DEF StoreTypeOK, SubmissionKept
<1> QED BY <1>2 DEF SubmissionChange

(* record_backend_submission writes a row that was not there.              *)
LEMMA RecordChange ==
    ASSUME StoreTypeOK, NEW a \in AttemptIds, NEW x, RecordBackendSubmission(a, x)
    PROVE  SubmissionChange
<1>1. submission[a].state = "absent" /\ \A b \in AttemptIds \ {a} : submission'[b] = submission[b]
  BY DEF RecordBackendSubmission, StoreTypeOK
<1> QED BY <1>1 DEF SubmissionChange, SubmissionKept

(* bind_backend_submission_external_ids leaves a bound submission bound.   *)
LEMMA BindChange ==
    ASSUME StoreTypeOK, NEW a \in AttemptIds, NEW x \in ExternalIds,
           BindBackendSubmissionExternalIds(a, x)
    PROVE  SubmissionChange
<1>1. /\ submission[a].external \in {None, x}
      /\ submission' = [submission EXCEPT ![a] = [submission[a] EXCEPT !.external = x]]
  BY DEF BindBackendSubmissionExternalIds
<1>2. /\ [submission[a] EXCEPT !.external = x].external = x
      /\ [submission[a] EXCEPT !.external = x].state = submission[a].state
  BY DEF StoreTypeOK, SubmissionRows
<1>3. \A b \in AttemptIds : SubmissionKept(b)
  BY <1>1, <1>2 DEF StoreTypeOK, SubmissionKept
<1> QED BY <1>3 DEF SubmissionChange

(* Every step changes the submission table so.                             *)
LEMMA EverySubmissionChange == StoreTypeOK /\ [StoreNext]_storeVars => SubmissionChange
<1> SUFFICES ASSUME StoreTypeOK, [StoreNext]_storeVars PROVE SubmissionChange
  OBVIOUS
<1>1. CASE LeaseStep
  <2>1. \A W, t : ExpireLeases(W, t) => submission' = ExpiredSubmissions(Due(W, t))
    BY DEF ExpireLeases
  <2>2. \A l, w, o, t : LeaseNextWorkItem(l, w, o, t) \/ AcquireLease(l, w, o, t)
            => submission' = ExpiredSubmissions(Due(Work, t))
    BY DEF LeaseNextWorkItem, AcquireLease
  <2>3. \A l, o, t : RenewLease(l, o, t) \/ ReleaseLease(l, o) => UNCHANGED submission
    BY DEF RenewLease, ReleaseLease
  <2>4. \A W, t : ExpireLeases(W, t) => SubmissionChange
    BY <2>1, ExpiredSubmissionChange
  <2>5. \A l, w, o, t : LeaseNextWorkItem(l, w, o, t) \/ AcquireLease(l, w, o, t) => SubmissionChange
    BY <2>2, ExpiredSubmissionChange
  <2>6. \A l, o, t : RenewLease(l, o, t) \/ ReleaseLease(l, o) => SubmissionChange
    BY <2>3, SubmissionsUnchanged
  <2> QED BY <1>1, <2>4, <2>5, <2>6 DEF LeaseStep, LeaseNextNothing
<1>2. CASE AttemptStep
  <2>1. \A a, w, n, c, k, l : InsertAttempt(a, w, n, c, k, l) => UNCHANGED submission
    BY DEF InsertAttempt
  <2>2. \A a, w, n, c, k, l, t : CreateAttempt(a, w, n, c, k, l, t) => UNCHANGED submission
    BY <2>1 DEF CreateAttempt
  <2>3. \A a, w, c, k, l, t : CreateAttemptForLease(a, w, c, k, l, t) => UNCHANGED submission
    BY <2>1 DEF CreateAttemptForLease
  <2>4. \A a, s, f, rc : TransitionAttempt(a, s, f, rc) => UNCHANGED submission
    BY DEF TransitionAttempt
  <2>5. \A a \in AttemptIds : \A x : RecordBackendSubmission(a, x) => SubmissionChange
    BY RecordChange
  <2>6. ASSUME NEW a \in AttemptIds, NEW s \in SubmissionStates, TransitionBackendSubmission(a, s)
        PROVE  SubmissionChange
    <3>1. submission' = [submission EXCEPT ![a] = [submission[a] EXCEPT !.state = s]]
      BY <2>6 DEF TransitionBackendSubmission
    <3> QED BY <3>1, StateSubmissionChange
  <2>7. SubmissionWrites \subseteq SubmissionStates
    OBVIOUS
  <2> QED BY <1>2, <2>2, <2>3, <2>4, <2>5, <2>6, <2>7, BindChange, SubmissionsUnchanged DEF AttemptStep
<1>3. RowStep => UNCHANGED submission
  BY DEF RowStep, CreateRun, UpdateRun, PutPlan, UpdatePlan, PutPlannedTrial, CreateWorkItem,
         UpdatePlannedTrial, UpdateWorkItem
<1>4. ControlStep => UNCHANGED submission
  BY DEF ControlStep, RequestCancellation, CompletePlanIfTerminal, ScheduleRetry
<1>5. Tick \/ UNCHANGED storeVars => UNCHANGED submission
  BY DEF Tick, storeVars
<1> QED BY <1>1, <1>2, <1>3, <1>4, <1>5, SubmissionsUnchanged DEF StoreNext

(* History is append-only: renew_lease, release_lease and expire_leases    *)
(* revive no ended lease, no method rewrites the work item, number or      *)
(* lease of a recorded attempt, and no submission changes its external job.*)
THEOREM HistoryIsFrozen == StoreSpec => HistoryFrozen
<1>1. StoreTypeOK /\ [StoreNext]_storeVars => [HistoryStep]_storeVars
  <2> SUFFICES ASSUME StoreTypeOK, [StoreNext]_storeVars PROVE HistoryStep
    OBVIOUS
  <2>1. LeaseChange /\ AttemptChange /\ SubmissionChange
    BY EveryLeaseChange, EveryAttemptChange, EverySubmissionChange
  <2>2. ASSUME NEW a \in AttemptIds, attempt[a].state # "absent"
        PROVE  /\ attempt'[a].state # "absent"
               /\ attempt'[a].work = attempt[a].work
               /\ attempt'[a].number = attempt[a].number
               /\ attempt'[a].lease = attempt[a].lease
    BY <2>1, <2>2 DEF AttemptChange, AttemptKept, AttemptInserted, SameIdentity
  <2> QED BY <2>1, <2>2, GrantedKept, EndedKept DEF HistoryStep, SubmissionChange, SubmissionKept
<1> QED BY <1>1, StoreTypeCorrect, PTL DEF StoreSpec, HistoryFrozen

-----------------------------------------------------------------------------
(* The place of an attempt in its work item's history.                     *)

(* Changes of the two tables keep every attempt's place.                   *)
LEMMA IdentityStep ==
    ASSUME StoreTypeOK, AttemptIdentity, LeaseChange, AttemptChange
    PROVE  AttemptIdentity'
<1>1. ASSUME NEW a \in AttemptIds, attempt'[a].lease # None
      PROVE  /\ lease'[attempt'[a].lease].state # "absent"
             /\ lease'[attempt'[a].lease].work = attempt'[a].work
  <2>1. CASE attempt'[a].lease = attempt[a].lease /\ attempt'[a].work = attempt[a].work
    <3>1. attempt[a].lease \in LeaseIds
      BY <1>1, <2>1 DEF StoreTypeOK, AttemptRows
    <3>2. lease[attempt[a].lease].state # "absent" /\ lease[attempt[a].lease].work = attempt[a].work
      BY <1>1, <2>1 DEF AttemptIdentity
    <3>3. ASSUME NEW l \in LeaseIds, lease[l].state # "absent"
          PROVE  lease'[l].state # "absent" /\ lease'[l].work = lease[l].work
      BY <3>3, GrantedKept
    <3> QED BY <2>1, <3>1, <3>2, <3>3
  <2>2. CASE ~(attempt'[a].lease = attempt[a].lease /\ attempt'[a].work = attempt[a].work)
    BY <1>1, <2>2 DEF AttemptChange, AttemptKept, AttemptInserted, SameIdentity
  <2> QED BY <2>1, <2>2
<1>2. ASSUME NEW a \in AttemptIds, NEW b \in AttemptIds, a # b,
             attempt'[a].work = attempt'[b].work, attempt'[a].work # None
      PROVE  /\ attempt'[a].number # attempt'[b].number
             /\ ~(attempt'[a].candidate = attempt'[b].candidate /\ attempt'[a].retry = attempt'[b].retry)
  <2>1. CASE \A d \in AttemptIds : AttemptKept(d)
    BY <1>2, <2>1 DEF AttemptKept, SameIdentity, AttemptIdentity
  <2>2. ASSUME NEW d \in AttemptIds, NEW w \in Work, NEW n \in Nat, NEW c \in Nat, NEW k \in Nat,
               NEW l \in LeaseIds \cup {None}, AttemptInserted(d, w, n, c, k, l)
        PROVE  /\ attempt'[a].number # attempt'[b].number
               /\ ~(attempt'[a].candidate = attempt'[b].candidate
                    /\ attempt'[a].retry = attempt'[b].retry)
    <3>1. CASE a = d
      BY <1>2, <2>2, <3>1 DEF AttemptInserted
    <3>2. CASE b = d
      BY <1>2, <2>2, <3>2 DEF AttemptInserted
    <3>3. CASE a # d /\ b # d
      <4>1. attempt'[a] = attempt[a] /\ attempt'[b] = attempt[b]
        BY <2>2, <3>3 DEF AttemptInserted
      <4>2. /\ attempt[a].number # attempt[b].number
            /\ <<attempt[a].candidate, attempt[a].retry>> # <<attempt[b].candidate, attempt[b].retry>>
        BY <1>2, <4>1 DEF AttemptIdentity
      <4> QED BY <4>1, <4>2
    <3> QED BY <3>1, <3>2, <3>3
  <2> QED BY <2>1, <2>2 DEF AttemptChange
<1> QED BY <1>1, <1>2 DEF AttemptIdentity

(* An attempt's lease was granted for the attempt's work item, and number  *)
(* and (candidate, retry) slot are unique within the work item: what       *)
(* create_attempt, create_attempt_for_lease and the tables' UNIQUE         *)
(* constraints promise, for any clients.                                   *)
THEOREM AttemptsIdentified == StoreSpec => []AttemptIdentity
<1>1. StoreInit => AttemptIdentity
  BY DEF StoreInit, NoAttempt, AttemptIdentity
<1>2. StoreTypeOK /\ AttemptIdentity /\ [StoreNext]_storeVars => AttemptIdentity'
  BY EveryLeaseChange, EveryAttemptChange, IdentityStep
<1> QED BY <1>1, <1>2, StoreTypeCorrect, PTL DEF StoreSpec

-----------------------------------------------------------------------------
(* lease_next_work_item is deterministic: aging, priority and seniority    *)
(* leave at most one work item to lease, so the choice of w in             *)
(* LeaseNextWorkItem is no choice.                                         *)
THEOREM SelectionUnique ==
    ASSUME NEW t \in Nat, NEW ws, NEW ls, NEW v \in Work, NEW w \in Work,
           IsSelected(v, t, ws, ls), IsSelected(w, t, ws, ls)
    PROVE  v = w
<1>1. ~(Precedes(v, w, t) /\ Precedes(w, v, t))
  BY DEF Precedes
<1> QED BY <1>1 DEF IsSelected
=============================================================================
