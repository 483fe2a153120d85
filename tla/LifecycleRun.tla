---------------------------- MODULE LifecycleRun ----------------------------
(***************************************************************************)
(* One run of a staged evidence lifecycle (aec_bench/lifecycles/runtime):  *)
(* checkpoints are released in order, a host opens an attempt at the       *)
(* active one, an agent requests conditional evidence within a budget and  *)
(* leaves a submission in the workspace, and the host submits it.          *)
(*                                                                         *)
(* Every operation on the run runs under its lock file and starts with     *)
(* _load_state, which rolls an unfinished evidence request forward.  An    *)
(* operation is one action here: the sequence of the file systems that its *)
(* writes make, of which the last is reached, or any earlier one if the    *)
(* host is killed.  The workspace's submissions and the request and result *)
(* files of an attempt are written without the lock, by actions of their   *)
(* own.  A submission that is not structurally valid is like a missing one *)
(* to every step, and an agent leaves valid ones only.                     *)
(***************************************************************************)
EXTENDS Integers, FiniteSets, Sequences, SequencesExt

CONSTANTS
    Hosts,              \* processes in run_lifecycle
    Checkpoints,        \* how many there are
    Requests,           \* evidence requests declared at each checkpoint
    Prerequisites,      \* [Requests -> SUBSET Requests]
    RequestBudget,
    Contents,           \* of a submission
    Nothing,
    MaxAttempts, MaxActions, MaxTransitions, MaxKills, MaxRuns,   \* bounds
    MaxDisturbances     \* bound on what tally.disturbed counts

Steps == 1 .. Checkpoints

ASSUME LifecycleConstants ==
    /\ Checkpoints \in Nat \ {0} /\ RequestBudget \in Nat /\ Nothing \notin Contents
    /\ Prerequisites \in [Requests -> SUBSET Requests] /\ MaxKills \in Nat /\ MaxRuns \in Nat
    /\ MaxDisturbances \in Nat

VARIABLES
    fs,         \* the files of the run
    host,       \* [Hosts -> Host]
    tally       \* calls of run_lifecycle, processes killed, and disturbances: calls that
                \* overlapped another, submissions of a checkpoint written by another's agent

lifecycleVars == <<fs, host, tally>>

(* An attempt's session is named after the checkpoint and number that its  *)
(* host expected, and bound to the evidence visible in its request.        *)
Sessions == Steps \X Nat
Views == SUBSET Requests
Attempts == [session : Sessions, status : {"active", "submitted", "interrupted", "failed"},
             view : Views]
CheckpointRuns == [status : {"pending", "active", "submitted"}, sub : Contents \cup {Nothing},
                   attempts : Seq(Attempts), budget : 0 .. RequestBudget]
Outcomes == {"released", "already_released", "rejected"}
RequestActions == [cp : Steps, req : Requests, outcome : Outcomes, session : Sessions,
                   before : 0 .. RequestBudget, view : Views]
States == [active : 0 .. Checkpoints, cps : [Steps -> CheckpointRuns],
           actions : Seq(RequestActions), transitions : Nat]

NoCheckpointRun == [status |-> "pending", sub |-> Nothing, attempts |-> <<>>,
                    budget |-> RequestBudget]
NewState == [active |-> 0, cps |-> [cp \in Steps |-> NoCheckpointRun], actions |-> <<>>,
             transitions |-> 0]

(* state.json; the canonical transactions and those that are marked as     *)
(* committed; their projections into the inbox; the ledger's transition    *)
(* and request entries; workspace and archived submissions; candidates     *)
(* kept of attempts; request and result files; reserved files moved aside. *)
NoFiles == [exists |-> FALSE, state |-> NewState, tx |-> <<>>, committed |-> {}, inbox |-> {},
            moves |-> <<>>, asks |-> <<>>, work |-> [cp \in Steps |-> Nothing],
            archive |-> [cp \in Steps |-> Nothing], kept |-> <<>>, req |-> <<>>, res |-> <<>>,
            aside |-> {}]

NoContext == [cp |-> 0, attempts |-> <<>>, view |-> {}]
IdleHost == [pc |-> "idle", ctx |-> NoContext, session |-> <<0, 0>>, result |-> "none"]

LifecycleInit ==
    /\ fs = NoFiles
    /\ host = [h \in Hosts |-> IdleHost]
    /\ tally = [started |-> 0, disturbed |-> 0, kills |-> 0]

-----------------------------------------------------------------------------
(* Reading a state.                                                        *)
Put(f, k, v) == [x \in DOMAIN f \cup {k} |-> IF x = k THEN v ELSE f[x]]
ActiveIn(attempts) == {i \in DOMAIN attempts : attempts[i].status = "active"}
HasActive(attempts) == ActiveIn(attempts) # {}
FirstActive(attempts) ==
    attempts[CHOOSE i \in ActiveIn(attempts) : \A j \in ActiveIn(attempts) : i <= j]
Submitted(s) == {cp \in Steps : s.cps[cp].status = "submitted"}
IsComplete(s) == Submitted(s) = Steps
ReleasedAt(actions, cp) ==
    {i \in DOMAIN actions : actions[i].cp = cp /\ actions[i].outcome = "released"}
ReleasedIn(actions, cp) == {actions[i].req : i \in ReleasedAt(actions, cp)}

(* _assert_prior_submissions_unchanged.                                    *)
PriorUnchanged(f) ==
    \A cp \in Submitted(f.state) : f.archive[cp] = f.state.cps[cp].sub /\ f.work[cp] = f.state.cps[cp].sub

-----------------------------------------------------------------------------
(* _load_state.  The transactions that the state lacks are rolled forward, *)
(* each with its transition; a release is taken from the budget.           *)
Applied(s, txs) ==
    [s EXCEPT !.actions = @ \o txs,
              !.cps = [cp \in Steps |->
                          [s.cps[cp] EXCEPT !.budget = @ - Cardinality(ReleasedAt(txs, cp))]],
              !.transitions = @ + Len(txs)]

Lacking(f) == SubSeq(f.tx, Len(f.state.actions) + 1, Len(f.tx))

RollsForward(s, a) ==
    /\ \E i \in DOMAIN s.cps[a.cp].attempts : s.cps[a.cp].attempts[i].session = a.session
    /\ s.cps[a.cp].budget = a.before
    /\ ReleasedIn(s.actions, a.cp) = a.view

LedgerFits(entries, n) == IsInjective(entries) /\ ToSet(entries) \subseteq 1 .. n

Loadable(f) ==
    /\ f.exists
    /\ Len(f.tx) >= Len(f.state.actions)
    /\ SubSeq(f.tx, 1, Len(f.state.actions)) = f.state.actions
    /\ \A i \in DOMAIN Lacking(f) :
          RollsForward(Applied(f.state, SubSeq(Lacking(f), 1, i - 1)), Lacking(f)[i])
    /\ LET s == Applied(f.state, Lacking(f))
       IN LedgerFits(f.moves, s.transitions) /\ LedgerFits(f.asks, Len(s.actions))

(* The files after each write of _sync_transition_ledger and of            *)
(* _sync_evidence_request_ledger, which append what is missing, in order.  *)
Missing(entries, n) ==
    LET gap == (1 .. n) \ ToSet(entries)
    IN [k \in 1 .. Cardinality(gap) |->
           CHOOSE i \in gap : Cardinality({j \in gap : j < i}) = k - 1]
SyncMoves(f) ==
    LET m == Missing(f.moves, f.state.transitions)
    IN [k \in 1 .. Len(m) |-> [f EXCEPT !.moves = @ \o SubSeq(m, 1, k)]]
SyncAsks(f) ==
    LET m == Missing(f.asks, Len(f.state.actions))
    IN [k \in 1 .. Len(m) |-> [f EXCEPT !.asks = @ \o SubSeq(m, 1, k)]]

WithMoves(steps) == steps \o SyncMoves(Last(steps))
WithAsks(steps) == steps \o SyncAsks(Last(steps))
Sync(steps) == WithAsks(WithMoves(steps))

Project(f) ==
    LET released == {i \in DOMAIN f.tx : f.tx[i].outcome = "released"}
    IN [f EXCEPT !.inbox = @ \cup {<<f.tx[i].cp, f.tx[i].req>> : i \in released}]
Commit(f) == [f EXCEPT !.committed = DOMAIN f.tx]
RollForward(f) == [f EXCEPT !.state = Applied(@, Lacking(f))]

(* The files after each write of a load, which leaves alone what is in     *)
(* place.                                                                  *)
InPlace(f) ==
    /\ Lacking(f) = <<>> /\ Project(f) = f
    /\ Len(f.moves) = f.state.transitions /\ Len(f.asks) = Len(f.tx) /\ f.committed = DOMAIN f.tx

Load(f) ==
    LET projected == Project(f)
        recovered == IF Lacking(f) = <<>> THEN <<f, projected>>
                     ELSE Sync(<<f, projected, RollForward(projected)>>)
    IN IF InPlace(f) THEN <<f>> ELSE Sync(Append(recovered, Commit(Last(recovered))))

Loaded(f) == Last(Load(f))

-----------------------------------------------------------------------------
(* An operation under the lock: it runs to its end, or its host is killed  *)
(* after some of its writes.                                               *)
At(h, pc) == host[h].pc = pc
Goto(h, pc) ==
    host' = [host EXCEPT ![h] = IF pc = "idle" THEN IdleHost ELSE [@ EXCEPT !.pc = pc]]

OneKilled == tally.kills < MaxKills /\ tally' = [tally EXCEPT !.kills = @ + 1]
Killed(h) == OneKilled /\ Goto(h, "idle")

Ends(steps) == fs' = Last(steps) /\ UNCHANGED tally
Part(steps) == \E i \in 1 .. Len(steps) - 1 : fs' = steps[i]
BreaksOff(h, steps) == Part(steps) /\ Killed(h)

(* _write_state and _sync_transition_ledger.                               *)
Save(f, s) == WithMoves(<<[f EXCEPT !.state = s]>>)

(* The exception of a refused operation: what was loaded stays.            *)
Refused(h, pc) == \/ Ends(Load(fs)) /\ Goto(h, pc)
                  \/ BreaksOff(h, Load(fs))

-----------------------------------------------------------------------------
(* release_checkpoint: the state is created, or loaded; the active         *)
(* checkpoint is returned, or the next one is released.                    *)
Created(f) == [f EXCEPT !.exists = TRUE]
Opened(f) == IF f.exists THEN Load(f) ELSE <<f, Created(f)>>

Release(s) ==
    LET cp == Cardinality(Submitted(s)) + 1
    IN [s EXCEPT !.active = cp, !.cps[cp].status = "active", !.transitions = @ + 1]

Context(s) == [cp |-> s.active, attempts |-> s.cps[s.active].attempts,
               view |-> ReleasedIn(s.actions, s.active)]

ReleaseCheckpoint(h, pc, next) ==
    /\ At(h, pc)
    /\ fs.exists => Loadable(fs)
    /\ LET opened == Opened(fs)
           f == Last(opened)
           released == opened \o Save(f, Release(f.state))
       IN \/ BreaksOff(h, opened)
          \/ /\ IsComplete(f.state)
             /\ Ends(opened) /\ Goto(h, "idle")
          \/ /\ f.state.active # 0
             /\ Ends(opened)
             /\ host' = [host EXCEPT ![h].pc = next, ![h].ctx = Context(f.state)]
          \/ /\ ~IsComplete(f.state) /\ f.state.active = 0 /\ ~PriorUnchanged(f)
             /\ Ends(opened) /\ Goto(h, "idle")
          \/ /\ ~IsComplete(f.state) /\ f.state.active = 0 /\ PriorUnchanged(f)
             /\ f.state.transitions < MaxTransitions
             /\ \/ /\ Ends(released)
                   /\ host' = [host EXCEPT ![h].pc = next, ![h].ctx = Context(Release(f.state))]
                \/ BreaksOff(h, released)

Start(h) ==
    /\ At(h, "idle") /\ tally.started < MaxRuns
    /\ Goto(h, "release")
    /\ \/ /\ \A g \in Hosts \ {h} : At(g, "idle")
          /\ tally' = [tally EXCEPT !.started = @ + 1]
       \/ /\ \E g \in Hosts \ {h} : ~At(g, "idle")
          /\ tally.disturbed < MaxDisturbances
          /\ tally' = [tally EXCEPT !.started = @ + 1, !.disturbed = @ + 1]
    /\ UNCHANGED fs

(* _recover_host_episode_attempt: the request of an attempt that was left  *)
(* active, which is among the files of the active checkpoint, must be the  *)
(* one that the host would make now; it gets a result, unless it has one,  *)
(* which must be the host's.                                               *)
Interrupted(c) == FirstActive(c.attempts)
RequestStands(c) ==
    LET a == Interrupted(c)
    IN /\ a.session[1] = c.cp /\ a.session \in DOMAIN fs.req
       /\ fs.req[a.session] = a.view /\ a.view = c.view
ResultForeign(c) ==
    LET session == Interrupted(c).session
    IN session \in DOMAIN fs.res /\ fs.res[session] = <<"foreign">>
Recoverable(c) == RequestStands(c) /\ ~ResultForeign(c)

Recover(h) ==
    /\ At(h, "recover")
    /\ LET c == host[h].ctx
       IN \/ ~HasActive(c.attempts) /\ Goto(h, "again") /\ UNCHANGED fs
          \/ HasActive(c.attempts) /\ ~Recoverable(c) /\ Goto(h, "idle") /\ UNCHANGED fs
          \/ /\ HasActive(c.attempts) /\ Recoverable(c)
             /\ fs' = IF Interrupted(c).session \in DOMAIN fs.res THEN fs
                      ELSE [fs EXCEPT !.res = Put(@, Interrupted(c).session, <<"interrupted">>)]
             /\ Goto(h, "again")
    /\ UNCHANGED tally

(* _preserve_submission_candidate: copy, then remove, under the session of *)
(* an attempt; refused if another candidate is kept there.                 *)
Candidate(cp) == fs.work[cp] # Nothing
Preservable(session, cp) == session \in DOMAIN fs.kept => fs.kept[session] = fs.work[cp]
Preserved(session, cp) ==
    LET copied == [fs EXCEPT !.kept = Put(@, session, fs.work[cp])]
    IN <<fs, copied, [copied EXCEPT !.work[cp] = Nothing]>>

(* The last attempt's session, unless there is none or it was submitted.   *)
PriorSessions(attempts) ==
    {attempts[i].session : i \in {j \in {Len(attempts)} \ {0} : attempts[j].status # "submitted"}}

PreservePrior(h) ==
    /\ At(h, "preserve")
    /\ LET cp == host[h].ctx.cp
           owners == {session \in PriorSessions(host[h].ctx.attempts) : Preservable(session, cp)}
       IN \/ ~Candidate(cp) /\ Goto(h, "prepare") /\ UNCHANGED <<fs, tally>>
          \/ Candidate(cp) /\ owners = {} /\ Goto(h, "idle") /\ UNCHANGED <<fs, tally>>
          \/ /\ Candidate(cp)
             /\ \E session \in owners :
                   \/ Ends(Preserved(session, cp)) /\ Goto(h, "prepare")
                   \/ BreaksOff(h, Preserved(session, cp))

(* The environment prepares the attempt or raises, and may leave a file    *)
(* under a reserved name.  Such files are moved aside, once for each name, *)
(* and the request is published.                                           *)
Without(f, k) == [x \in DOMAIN f \ {k} |-> f[x]]
ForeignRequest(f, session, view) == session \in DOMAIN f.req /\ f.req[session] # view
MoveRequest(f, session, view) ==
    IF ForeignRequest(f, session, view)
    THEN [f EXCEPT !.req = Without(@, session), !.aside = @ \cup {<<session, "req">>}] ELSE f
MoveResult(f, session) ==
    IF session \in DOMAIN f.res
    THEN [f EXCEPT !.res = Without(@, session), !.aside = @ \cup {<<session, "res">>}] ELSE f

Prepare(h, leaves, raises) ==
    /\ At(h, "prepare")
    /\ Len(host[h].ctx.attempts) < MaxAttempts
    /\ LET c == host[h].ctx
           session == <<c.cp, Len(c.attempts) + 1>>
           left == IF leaves THEN [fs EXCEPT !.res = Put(@, session, <<"foreign">>)] ELSE fs
           requestMoved == MoveRequest(left, session, c.view)
           moved == MoveResult(requestMoved, session)
           steps == <<left, requestMoved, moved, [moved EXCEPT !.req = Put(@, session, c.view)]>>
           found == requestMoved # left \/ moved # requestMoved
           requestBlocked == requestMoved # left /\ <<session, "req">> \in fs.aside
           blocked == requestBlocked \/ (moved # requestMoved /\ <<session, "res">> \in fs.aside)
       IN \/ /\ blocked
             /\ fs' = IF requestBlocked THEN left ELSE requestMoved
             /\ Goto(h, "idle") /\ UNCHANGED tally
          \/ /\ ~blocked
             /\ \/ /\ Ends(steps)
                   /\ host' = [host EXCEPT ![h].pc = "open", ![h].session = session,
                                           ![h].result = IF raises \/ found
                                                         THEN "failed" ELSE "none"]
                \/ BreaksOff(h, steps)

(* reduce_open_attempt: an active attempt of another session is            *)
(* interrupted, one of the same session is resumed.                        *)
Attempt(session, view) == [session |-> session, status |-> "active", view |-> view]
Marked(attempts, status) ==
    [i \in DOMAIN attempts |-> IF attempts[i].status = "active"
                               THEN [attempts[i] EXCEPT !.status = status] ELSE attempts[i]]

(* Variant: an attempt left active stays active beside the new one.        *)
ReopenedBeside(s, a) == [s EXCEPT !.cps[s.active].attempts = Append(@, a)]

Reopened(s, a) ==
    [s EXCEPT !.cps[s.active].attempts = Append(Marked(@, "interrupted"), a)]

OpenAttempt(h) ==
    /\ At(h, "open")
    /\ Loadable(fs)
    /\ LET f == Loaded(fs)
           s == f.state
           attempts == s.cps[s.active].attempts
           a == Attempt(host[h].session, host[h].ctx.view)
           same == HasActive(attempts) /\ FirstActive(attempts).session = a.session
           steps == Append(Load(fs), [f EXCEPT !.state = Reopened(s, a)])
           expected == <<s.active, Len(attempts) + 1>> = a.session
           go == IF host[h].result = "failed" \/ Candidate(host[h].ctx.cp) THEN "result" ELSE "execute"
       IN \/ s.active = 0 /\ Refused(h, "idle")
          \/ /\ s.active # 0 /\ same
             /\ Refused(h, IF <<s.active, Len(attempts)>> = a.session /\ FirstActive(attempts).view = a.view
                           THEN go ELSE "idle")
          \/ /\ s.active # 0 /\ ~same /\ Len(attempts) < MaxAttempts
             /\ \/ Ends(steps) /\ Goto(h, IF expected THEN go ELSE "idle")
                \/ BreaksOff(h, steps)

-----------------------------------------------------------------------------
(* request_checkpoint_evidence by the agent of h, for its session.         *)
(* Variant: prerequisites are not looked at.                               *)
OutcomeUnordered(s, r) ==
    IF r \in ReleasedIn(s.actions, s.active) THEN "already_released"
    ELSE IF s.cps[s.active].budget > 0 THEN "released" ELSE "rejected"

Outcome(s, r) ==
    LET released == ReleasedIn(s.actions, s.active)
    IN IF r \in released THEN "already_released"
       ELSE IF Prerequisites[r] \subseteq released /\ s.cps[s.active].budget > 0 THEN "released"
       ELSE "rejected"

Action(s, r, session) ==
    [cp |-> s.active, req |-> r, outcome |-> Outcome(s, r), session |-> session,
     before |-> s.cps[s.active].budget, view |-> ReleasedIn(s.actions, s.active)]

(* Variant: the state is written before its transaction.                   *)
RecordStateFirst(f, a) ==
    LET stated == [f EXCEPT !.state = Applied(@, <<a>>)]
        begun == [stated EXCEPT !.tx = Append(@, a)]
        saved == Sync(<<stated, begun, Project(begun)>>)
    IN Append(saved, Commit(Last(saved)))

(* The transaction, its projection, the state, the ledgers, the marker.    *)
Record(f, a) ==
    LET begun == [f EXCEPT !.tx = Append(@, a)]
        projected == Project(begun)
        saved == Sync(<<begun, projected, [projected EXCEPT !.state = Applied(@, <<a>>)]>>)
    IN Append(saved, Commit(Last(saved)))

Ask(h, r) ==
    /\ At(h, "execute")
    /\ Loadable(fs)
    /\ LET f == Loaded(fs)
           s == f.state
           steps == Load(fs) \o Record(f, Action(s, r, host[h].session))
       IN /\ s.active # 0 /\ HasActive(s.cps[s.active].attempts)
          /\ FirstActive(s.cps[s.active].attempts).session = host[h].session
          /\ Len(s.actions) < MaxActions /\ s.transitions < MaxTransitions
          /\ \/ Ends(steps) /\ UNCHANGED host
             \/ BreaksOff(h, steps)

(* The agent writes the submission of its checkpoint, or another one of    *)
(* the workspace, which all agents share; and it returns.                  *)
Write(h, cp, content) ==
    /\ At(h, "execute")
    /\ fs' = [fs EXCEPT !.work[cp] = content]
    /\ \/ cp = host[h].ctx.cp /\ UNCHANGED tally
       \/ /\ cp # host[h].ctx.cp /\ tally.disturbed < MaxDisturbances
          /\ tally' = [tally EXCEPT !.disturbed = @ + 1]
    /\ UNCHANGED host

Return(h, result) ==
    /\ At(h, "execute")
    /\ host' = [host EXCEPT ![h].pc = "result", ![h].result = result]
    /\ UNCHANGED <<fs, tally>>

(* _persist_episode_result_or_close: the result file is written once.      *)
PersistResult(h) ==
    /\ At(h, "result")
    /\ LET session == host[h].session
           result == <<IF host[h].result = "completed" THEN "completed" ELSE "failed", h>>
           conflict == session \in DOMAIN fs.res /\ fs.res[session] # result
       IN /\ fs' = IF session \in DOMAIN fs.res THEN fs
                   ELSE [fs EXCEPT !.res = Put(@, session, result)]
          /\ Goto(h, IF ~conflict /\ result[1] = "completed" THEN "submit" ELSE "close")
    /\ UNCHANGED tally

(* submit_checkpoint: whatever checkpoint is active, by whoever calls.     *)
AcceptedRun(run, content) ==
    [run EXCEPT !.status = "submitted", !.sub = content, !.attempts = Marked(@, "submitted")]

Accepted(s, content) ==
    [s EXCEPT !.active = 0, !.transitions = @ + 1, !.cps[s.active] = AcceptedRun(@, content)]

Archived(f, content) == [f EXCEPT !.archive[f.state.active] = content]

(* Variant: the state is written before the archive.                       *)
AcceptStateFirst(f, content) ==
    LET saved == Save(f, Accepted(f.state, content))
    IN Append(saved, [Last(saved) EXCEPT !.archive[f.state.active] = content])

(* Variant: the submission is moved to the archive, not copied.            *)
AcceptMoving(f, content) ==
    LET archived == [Archived(f, content) EXCEPT !.work[f.state.active] = Nothing]
    IN <<archived>> \o Save(archived, Accepted(f.state, content))

(* The files after each write of an accepted submission.                   *)
Accept(f, content) ==
    <<Archived(f, content)>> \o Save(Archived(f, content), Accepted(f.state, content))

SubmitCheckpoint(h) ==
    /\ At(h, "submit")
    /\ Loadable(fs)
    /\ LET f == Loaded(fs)
           s == f.state
           content == f.work[s.active]
           steps == Load(fs) \o Accept(f, content)
           refused == s.active = 0 \/ ~PriorUnchanged(f)
       IN \/ refused /\ Refused(h, "close")
          \/ ~refused /\ content = Nothing /\ Refused(h, "close")
          \/ /\ ~refused /\ content # Nothing
             /\ s.transitions < MaxTransitions
             /\ \/ /\ Ends(steps)
                   /\ Goto(h, IF IsComplete(Accepted(s, content)) THEN "idle" ELSE "release")
                \/ BreaksOff(h, steps)

(* _fail_episode_attempt_if_active reads, fail_checkpoint_attempt reads    *)
(* again and writes.                                                       *)
IsOwn(h, s) ==
    /\ s.active # 0 /\ HasActive(s.cps[s.active].attempts)
    /\ FirstActive(s.cps[s.active].attempts).session = host[h].session

Close(h) ==
    /\ At(h, "close")
    /\ Loadable(fs)
    /\ Refused(h, IF IsOwn(h, Loaded(fs).state) THEN "fail" ELSE "idle")

FailAttempt(h) ==
    /\ At(h, "fail")
    /\ Loadable(fs)
    /\ LET f == Loaded(fs)
           s == f.state
           failed == [s EXCEPT !.cps[s.active].attempts = Marked(@, "failed")]
           steps == Append(Load(fs), [f EXCEPT !.state = failed])
       IN \/ ~IsOwn(h, s) /\ Refused(h, "idle")
          \/ /\ IsOwn(h, s)
             /\ \/ Ends(steps) /\ Goto(h, "keep")
                \/ BreaksOff(h, steps)

KeepCandidate(h) ==
    /\ At(h, "keep")
    /\ LET cp == host[h].ctx.cp
           session == host[h].session
       IN IF Candidate(cp) /\ Preservable(session, cp)
          THEN \/ Ends(Preserved(session, cp)) /\ Goto(h, "idle")
               \/ BreaksOff(h, Preserved(session, cp))
          ELSE Goto(h, "idle") /\ UNCHANGED <<fs, tally>>

(* Variant: a revisit accepts what it finds in the workspace.              *)
RevisitAccepts(cp) ==
    /\ Loadable(fs)
    /\ LET f == Loaded(fs)
       IN /\ cp \in Submitted(f.state) /\ f.work[cp] # Nothing
          /\ f.state.transitions < MaxTransitions
          /\ fs' = [f EXCEPT !.archive[cp] = f.work[cp], !.state.cps[cp].sub = f.work[cp],
                             !.state.transitions = @ + 1, !.moves = Append(@, f.state.transitions + 1)]
    /\ UNCHANGED <<host, tally>>

(* revisit_checkpoint, by an operator.                                     *)
Revisit(cp) ==
    /\ Loadable(fs)
    /\ LET f == Loaded(fs)
           steps == Load(fs) \o Save(f, [f.state EXCEPT !.transitions = @ + 1])
       IN /\ PriorUnchanged(f) /\ cp \in Submitted(f.state)
          /\ f.state.transitions < MaxTransitions
          /\ Ends(steps) \/ (Part(steps) /\ OneKilled)
    /\ UNCHANGED host

Kill(h) == ~At(h, "idle") /\ Killed(h) /\ UNCHANGED fs

HostStep(h) ==
    \/ Start(h) \/ ReleaseCheckpoint(h, "release", "recover") \/ Recover(h)
    \/ ReleaseCheckpoint(h, "again", "preserve") \/ PreservePrior(h)
    \/ \E leaves, raises \in BOOLEAN : Prepare(h, leaves, raises)
    \/ OpenAttempt(h) \/ PersistResult(h) \/ SubmitCheckpoint(h) \/ Close(h) \/ FailAttempt(h)
    \/ KeepCandidate(h) \/ Kill(h)

Agent(h) ==
    \/ \E r \in Requests : Ask(h, r)
    \/ \E cp \in Steps, c \in Contents : Write(h, cp, c)
    \/ \E result \in {"completed", "failed"} : Return(h, result)

LifecycleNext ==
    \/ \E h \in Hosts : HostStep(h) \/ Agent(h)
    \/ \E cp \in Steps : Revisit(cp)

LifecycleSpec == LifecycleInit /\ [][LifecycleNext]_lifecycleVars

-----------------------------------------------------------------------------
(* The state file has its type; committed transactions exist.              *)
LifecycleTypeOK ==
    /\ fs.state.active \in 0 .. Checkpoints
    /\ \A cp \in Steps : fs.state.cps[cp] \in CheckpointRuns
    /\ ToSet(fs.state.actions) \subseteq RequestActions /\ ToSet(fs.tx) \subseteq RequestActions
    /\ fs.committed \subseteq DOMAIN fs.tx
    /\ tally.kills \in 0 .. MaxKills /\ tally.started \in 0 .. MaxRuns

(* However many hosts were killed, and wherever, _load_state accepts the   *)
(* files: the state is one that its model validates, and recovery is never *)
(* refused for a budget, a history, an owner or a ledger entry that does   *)
(* not match.                                                              *)
AlwaysLoadable == LifecycleTypeOK /\ (fs.exists => Loadable(fs))

(* A checkpoint's evidence is released within its budget, each packet once *)
(* and after its prerequisites, counted over the canonical transactions.   *)
WithinBudget(f) ==
    \A cp \in Steps :
        LET r == ReleasedAt(f.tx, cp)
        IN /\ Cardinality(r) <= RequestBudget
           /\ Cardinality(r) + Applied(f.state, Lacking(f)).cps[cp].budget = RequestBudget
           /\ \A i, j \in r : f.tx[i].req = f.tx[j].req => i = j
           /\ \A i \in r :
                 Prerequisites[f.tx[i].req] \subseteq {f.tx[j].req : j \in {k \in r : k < i}}
BudgetKept == WithinBudget(fs)

(* Checkpoints are accepted in order, the active one follows them, and     *)
(* only it has an active attempt, and no more than one.                    *)
Ordered(s) ==
    LET n == Cardinality(Submitted(s))
    IN /\ Submitted(s) = 1 .. n
       /\ s.active \in {0, n + 1}
       /\ \A cp \in Steps : /\ \A i, j \in ActiveIn(s.cps[cp].attempts) : i = j
                            /\ HasActive(s.cps[cp].attempts) => s.active = cp
InOrder == Ordered(fs.state)

(* The archived submission of an accepted checkpoint is the accepted one.  *)
Archives(f) == \A cp \in Submitted(f.state) : f.archive[cp] = f.state.cps[cp].sub
ArchiveIntact == Archives(fs)

(* As long as the calls of run_lifecycle follow one another, killed or     *)
(* not, and agents write their own checkpoint's submission, the workspace  *)
(* keeps the accepted submissions, as every later release, submission and  *)
(* revisit demands.                                                        *)
AcceptedIntact == tally.disturbed = 0 => PriorUnchanged(fs)

(* What was accepted of a checkpoint is never accepted anew or changed.    *)
AcceptedStands ==
    [][\A cp \in Submitted(fs.state) :
          /\ fs'.state.cps[cp] = fs.state.cps[cp] /\ fs'.archive[cp] = fs.archive[cp]]_fs

(* A host that finds an attempt left active can take the run over.         *)
InterruptedResumes ==
    \A h \in Hosts : At(h, "recover") /\ HasActive(host[h].ctx.attempts) => RequestStands(host[h].ctx)
=============================================================================
