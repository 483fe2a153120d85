----------------------------- MODULE RunLaunch ------------------------------
(***************************************************************************)
(* start_or_resume_run from the stored plan to the first execution, on top *)
(* of EvidenceRunStore: read the run without its lock, create the rows of  *)
(* the operational store, enqueue the plan trial by trial, start the run,  *)
(* dispatch.  Several commands run at once, the plan is revised meanwhile, *)
(* and each command may be killed between any two steps.  Rows are durable *)
(* when written.                                                           *)
(*                                                                         *)
(* What happens between dispatch and a worker (leases, attempts, and the   *)
(* checks of resume on work under way) is LocalScheduler.  The worker is   *)
(* ArtifactTrialAdapter.execute up to its check of the plan.               *)
(***************************************************************************)
EXTENDS EvidenceRunStore, Sequences

CONSTANTS
    Commands,       \* callers that run `run start` or `run resume`
    Planners,       \* callers that create, plan and close the run
    TrialsOf        \* [Versions -> Seq of trials]: a plan's trials by ordinal

(* The ready plans of a run have as many trials as its specification asks  *)
(* for (_validate_plan_against_spec).                                      *)
ASSUME LaunchConstants ==
    /\ Callers = Commands \cup Planners /\ Commands \cap Planners = {}
    /\ \A v \in Versions : TrialsOf[v] \in Seq({TrialsOf[v][i] : i \in DOMAIN TrialsOf[v]})
    /\ \A v, w \in Versions : Len(TrialsOf[v]) = Len(TrialsOf[w])

VARIABLES
    planRow,        \* state of the plan in the operational store
    planned,        \* [ordinal -> trial]: the planned-trial rows of the plan
    items,          \* [trial -> command]: the work items and who gave them their identity
    cmd,            \* [Commands -> Command]
    executed        \* versions of the plan that a worker has executed work of

launchVars == <<dir, since, op, lapses, kills, boots, planRow, planned, items, cmd, executed>>
rows == <<planRow, planned, items>>

Pcs == {"idle", "ensure", "check", "trials", "items", "start", "starting", "dispatch", "work", "done"}
Waiting == [pc |-> "idle", version |-> 0, saw |-> "none", next |-> 1, known |-> <<>>]

Range(f) == {f[i] : i \in DOMAIN f}
At(c, pc) == cmd[c].pc = pc
Trials(c) == TrialsOf[cmd[c].version]
Goto(c, pc) == cmd' = [cmd EXCEPT ![c].pc = pc, ![c].next = 1]

LaunchInit ==
    /\ EvidenceInit
    /\ planRow = "none" /\ planned = <<>> /\ items = <<>>
    /\ cmd = [c \in Commands |-> Waiting]
    /\ executed = {}

-----------------------------------------------------------------------------
(* find_run of a read-only store takes no lock; start wants a ready run,   *)
(* resume a ready or a started one, and a store that exists.               *)
Look(c) ==
    /\ At(c, "idle")
    /\ Readable(dir) /\ dir.plan.state = "ready"
    /\ dir.state.state \in {"ready", "started"}
    /\ dir.state.state = "started" => planRow # "none"
    /\ cmd' = [cmd EXCEPT ![c].pc = "ensure", ![c].version = dir.plan.version,
                          ![c].saw = dir.state.state]
    /\ UNCHANGED <<evidenceVars, rows, executed>>

(* _ensure_operational_records.                                            *)
Ensure(c) ==
    /\ At(c, "ensure")
    /\ planRow' = IF planRow = "none" THEN "ready" ELSE planRow
    /\ Goto(c, "check")
    /\ UNCHANGED <<evidenceVars, planned, items, executed>>

(* Variant: stored work items are not compared with the plan.              *)
CheckNothing(c) ==
    /\ At(c, "check")
    /\ cmd' = [cmd EXCEPT ![c].pc = IF planRow = "ready" THEN "trials" ELSE "start",
                          ![c].known = items]
    /\ UNCHANGED <<evidenceVars, rows, executed>>

(* _work_items_for_plan, and whether the plan is to be enqueued.  A work   *)
(* item has the ordinal of its planned trial.                              *)
Matches(c) == /\ DOMAIN items = Range(Trials(c))
              /\ \A n \in DOMAIN planned : planned[n] = Trials(c)[n]
Check(c) ==
    /\ At(c, "check")
    /\ IF DOMAIN items = {} \/ Matches(c)
       THEN cmd' = [cmd EXCEPT ![c].pc = IF planRow = "ready" THEN "trials" ELSE "start",
                               ![c].known = items]
       ELSE Goto(c, "done")
    /\ UNCHANGED <<evidenceVars, rows, executed>>

(* enqueue_ready_plan: put_planned_trial for every trial, which refuses an *)
(* ordinal of another trial and a trial of another ordinal ...             *)
PutTrial(c) ==
    /\ At(c, "trials")
    /\ LET n == cmd[c].next
           t == Trials(c)[n]
           clash == \E i \in DOMAIN planned : (i = n) # (planned[i] = t)
       IN \/ n > Len(Trials(c)) /\ Goto(c, "items") /\ UNCHANGED planned
          \/ n <= Len(Trials(c)) /\ clash /\ Goto(c, "done") /\ UNCHANGED planned
          \/ /\ n <= Len(Trials(c)) /\ ~clash
             /\ planned' = [i \in DOMAIN planned \cup {n} |-> IF i = n THEN t ELSE planned[i]]
             /\ cmd' = [cmd EXCEPT ![c].next = n + 1]
    /\ UNCHANGED <<evidenceVars, planRow, items, executed>>

(* ... then create_work_item, which repeats a work item of the same        *)
(* identity and refuses a second one for a trial.                          *)
PutItem(c) ==
    /\ At(c, "items")
    /\ LET n == cmd[c].next
           t == Trials(c)[n]
       IN \/ n > Len(Trials(c)) /\ Goto(c, "start") /\ UNCHANGED items
          \/ /\ n <= Len(Trials(c))
             /\ items' = IF t \in DOMAIN items THEN items
                         ELSE [i \in DOMAIN items \cup {t} |-> IF i = t THEN c ELSE items[i]]
             /\ IF t \in DOMAIN items => t \in DOMAIN cmd[c].known
                THEN cmd' = [cmd EXCEPT ![c].next = n + 1] ELSE Goto(c, "done")
    /\ UNCHANGED <<evidenceVars, planRow, planned, executed>>

(* start_run, if the run was ready when the command looked.                *)
Start(c) ==
    /\ At(c, "start")
    /\ \/ cmd[c].saw = "started" /\ Goto(c, "dispatch") /\ UNCHANGED evidenceVars
       \/ cmd[c].saw = "ready" /\ StartRun(c) /\ Goto(c, "starting")
       \/ /\ cmd[c].saw = "ready" /\ LockFree /\ ~MayStart(dir, c)
          /\ Goto(c, "done") /\ UNCHANGED evidenceVars
    /\ UNCHANGED <<rows, executed>>

StartReturns(c) ==
    /\ At(c, "starting")
    /\ Return(c)
    /\ Goto(c, "dispatch")
    /\ UNCHANGED <<rows, executed>>

(* dispatch_once leases the work and marks the plan running.               *)
Dispatch(c) ==
    /\ At(c, "dispatch")
    /\ planRow' = "running"
    /\ Goto(c, "work")
    /\ UNCHANGED <<evidenceVars, planned, items, executed>>

(* Variant: the worker does not compare the plans.                         *)
WorkUnchecked(c) ==
    /\ At(c, "work") /\ LockFree
    /\ executed' = executed \cup {cmd[c].version}
    /\ Goto(c, "done")
    /\ UNCHANGED <<evidenceVars, rows>>

(* The worker reads the run under its lock and executes only if the stored *)
(* plan is the one it was given.                                           *)
Work(c) ==
    /\ At(c, "work") /\ LockFree
    /\ executed' = IF Readable(dir) /\ dir.plan = Plan(cmd[c].version, "ready")
                   THEN executed \cup {cmd[c].version} ELSE executed
    /\ Goto(c, "done")
    /\ UNCHANGED <<evidenceVars, rows>>

(* A command is killed outside the lock, or as its holder.                 *)
KillCommand(c) ==
    /\ cmd[c].pc \notin {"idle", "done"}
    /\ \/ op.by # c /\ kills < MaxKills /\ kills' = kills + 1 /\ UNCHANGED <<dir, since, op, lapses, boots>>
       \/ op.by = c /\ KillHolder
    /\ Goto(c, "done")
    /\ UNCHANGED <<rows, executed>>

PowerLoss ==
    /\ LosePower
    /\ cmd' = [c \in Commands |-> IF At(c, "idle") THEN cmd[c] ELSE [cmd[c] EXCEPT !.pc = "done"]]
    /\ UNCHANGED <<rows, executed>>

Planner(p) ==
    /\ \/ CreateRun(p) \/ CloseRun(p) \/ Return(p)
       \/ \E v \in Versions : WriteDraftPlan(p, v) \/ PromoteReadyPlan(p, v)
       \/ op.by = p /\ KillHolder
    /\ UNCHANGED <<rows, cmd, executed>>

Command(c) ==
    \/ Look(c) \/ Ensure(c) \/ Check(c) \/ PutTrial(c) \/ PutItem(c) \/ Start(c) \/ StartReturns(c)
    \/ Dispatch(c) \/ Work(c) \/ KillCommand(c)

LaunchNext ==
    \/ \E c \in Commands : Command(c)
    \/ \E p \in Planners : Planner(p)
    \/ (Replace \/ Flush) /\ UNCHANGED <<rows, cmd, executed>>
    \/ PowerLoss

LaunchSpec == LaunchInit /\ [][LaunchNext]_launchVars

-----------------------------------------------------------------------------
(* Work is executed for the plan that was started, and only after the      *)
(* start is durable: no power loss can make the run ready, and its plan    *)
(* open to revision, again.  The exception is a start whose command was    *)
(* killed between the rename and the flush: `run resume` takes what it     *)
(* sees for durable, and until some call flushes the directory a power     *)
(* loss may take the start back under work that was executed.              *)
ExecutedIsStarted ==
    \A v \in executed \ undone :
        /\ IsStarted(dir) /\ dir.plan = Plan(v, "ready")
        /\ ~broken => \A d \in since : IsStarted(d) /\ d.plan = Plan(v, "ready")

(* Nothing is executed before the whole plan is enqueued, and nothing else *)
(* is: not after a kill in the middle of enqueueing, not when two commands *)
(* enqueue at once, not when the plan was revised in between.              *)
ExecutedIsEnqueued == \A v \in executed : DOMAIN items = Range(TrialsOf[v])
=============================================================================
