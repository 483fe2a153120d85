-------------------------- MODULE EvidenceRunStore --------------------------
(***************************************************************************)
(* EvidenceRunStore (aec_bench/ledger): the resolved specification, the    *)
(* plan and the state of one run, three files of one directory.  Every     *)
(* call runs under the run's lock file, decides on what it reads and then  *)
(* replaces up to two files, each by replace_file_bytes_durable: a rename, *)
(* seen at once, and a flush of the directory.  A file that already has    *)
(* its content is not written, and then nothing is flushed.                *)
(*                                                                         *)
(* The holder of the lock may be killed between any two steps, which frees *)
(* the lock, and the machine may lose power.  Renames within one directory *)
(* reach the disk in their order, so a power loss restores the directory   *)
(* as it was at some moment since its last flush.                          *)
(***************************************************************************)
EXTENDS Integers

CONSTANTS
    Callers,
    Versions,           \* of the plan's identity, positive
    MaxKills, MaxBoots, \* bounds on kills and on power losses
    Nobody

ASSUME EvidenceConstants ==
    /\ Versions \subseteq Nat \ {0} /\ Nobody \notin Callers
    /\ MaxKills \in Nat /\ MaxBoots \in Nat

VARIABLES
    dir,       \* the directory as readers see it
    since,     \* the directories that a power loss may leave
    op,        \* the call that holds the lock
    broken,    \* history: readers see a start that a kill left without its flush
    undone,    \* history: versions whose start, left like this, a power loss took back
    kills, boots

lapses == <<broken, undone>>
evidenceVars == <<dir, since, op, lapses, kills, boots>>

PlanFiles == [version : Versions \cup {0}, state : {"none", "draft", "ready"}]
StateFiles == [state : {"none", "draft", "ready", "started", "closed"},
               version : Versions \cup {0},       \* of the plan it binds
               at : Callers \cup {Nobody}]        \* started_at, known by its caller
Directories == [spec : BOOLEAN, plan : PlanFiles, state : StateFiles]

NoPlan == [version |-> 0, state |-> "none"]
NoState == [state |-> "none", version |-> 0, at |-> Nobody]
Empty == [spec |-> FALSE, plan |-> NoPlan, state |-> NoState]

Plan(v, s) == [version |-> v, state |-> s]
State(s, v, c) == [state |-> s, version |-> v, at |-> c]

(* A call first replaces the specification or the plan, then the state.    *)
OpPcs == {"file", "fileFlush", "state", "stateFlush", "done"}
Ops == [pc : OpPcs \cup {"free"}, by : Callers \cup {Nobody}, next : Directories]
IsStarted(d) == d.state.state \in {"started", "closed"}
Free == [pc |-> "free", by |-> Nobody, next |-> Empty]
LockFree == op.pc = "free"

EvidenceInit ==
    /\ dir = Empty /\ since = {Empty}
    /\ op = Free
    /\ broken = FALSE /\ undone = {}
    /\ kills = 0 /\ boots = 0

-----------------------------------------------------------------------------
(* What each call accepts of the directory d, and what it makes of it.     *)
(* A call that is not accepted raises and changes nothing.                 *)
Known(d) == d.spec /\ d.state.state # "none"
Unstarted(d) == d.state.state \in {"draft", "ready"}

MayCreate(d) == d.state.state # "none" \/ d.plan = NoPlan
Created(d) ==
    [d EXCEPT !.spec = TRUE,
              !.state = IF @.state = "none" THEN State("draft", 0, Nobody) ELSE @]

(* Variant: a draft is accepted whatever the state of the run.             *)
MayDraftAnytime(d, v) ==
    /\ Known(d)
    /\ d.plan = NoPlan \/ v > d.plan.version \/ d.plan = Plan(v, "draft")

(* A draft replaces the plan with a higher version, or repeats it.         *)
MayDraft(d, v) ==
    /\ Known(d) /\ Unstarted(d)
    /\ d.plan = NoPlan \/ v > d.plan.version \/ d.plan = Plan(v, "draft")
Drafted(d, v) == [d EXCEPT !.plan = Plan(v, "draft"), !.state = State("draft", v, Nobody)]

(* A plan is promoted with the content of the draft, and again if ready.   *)
MayPromote(d, v) == Known(d) /\ Unstarted(d) /\ d.plan # NoPlan /\ d.plan.version = v
Promoted(d, v) == [d EXCEPT !.plan = Plan(v, "ready"), !.state = State("ready", v, Nobody)]

(* A start needs the ready state of this very plan; with the same          *)
(* started_at it may be repeated.                                          *)
MayStart(d, c) ==
    /\ Known(d) /\ d.plan.state = "ready" /\ d.state.version = d.plan.version
    /\ d.state.state = "ready" \/ d.state = State("started", d.plan.version, c)
Started(d, c) == [d EXCEPT !.state = State("started", d.plan.version, c)]

MayClose(d) == Known(d) /\ d.state.state = "started" /\ d.plan # NoPlan
               /\ d.state.version = d.plan.version
Closed(d) == [d EXCEPT !.state.state = "closed"]

(* What read_run accepts.                                                  *)
Readable(d) ==
    /\ Known(d)
    /\ IF d.plan = NoPlan THEN d.state = State("draft", 0, Nobody)
       ELSE /\ d.state.version = d.plan.version
            /\ d.plan.state = IF d.state.state = "draft" THEN "draft" ELSE "ready"

-----------------------------------------------------------------------------
Acquire(c, next) ==
    /\ LockFree
    /\ op' = [pc |-> "file", by |-> c, next |-> next]
    /\ UNCHANGED <<dir, since, lapses, kills, boots>>

CreateRun(c) == MayCreate(dir) /\ Acquire(c, Created(dir))
WriteDraftPlan(c, v) == MayDraft(dir, v) /\ Acquire(c, Drafted(dir, v))
PromoteReadyPlan(c, v) == MayPromote(dir, v) /\ Acquire(c, Promoted(dir, v))
StartRun(c) == MayStart(dir, c) /\ Acquire(c, Started(dir, c))
CloseRun(c) == MayClose(dir) /\ Acquire(c, Closed(dir))

(* Variant: the state is written before the plan.                          *)
HalfwayStateFirst == [dir EXCEPT !.state = op.next.state]

(* replace_file_bytes_durable of the first file, then of the state file,   *)
(* unless it has that content.                                             *)
Halfway == [op.next EXCEPT !.state = dir.state]

Replace ==
    /\ op.pc \in {"file", "state"}
    /\ LET first == op.pc = "file"
           next == IF first THEN Halfway ELSE op.next
       IN IF next = dir
          THEN /\ op' = [op EXCEPT !.pc = IF first THEN "state" ELSE "done"]
               /\ UNCHANGED <<dir, since>>
          ELSE /\ dir' = next
               /\ since' = since \cup {next}
               /\ op' = [op EXCEPT !.pc = IF first THEN "fileFlush" ELSE "stateFlush"]
    /\ UNCHANGED <<lapses, kills, boots>>

Flush ==
    /\ op.pc \in {"fileFlush", "stateFlush"}
    /\ since' = {dir}
    /\ op' = [op EXCEPT !.pc = IF @ = "fileFlush" THEN "state" ELSE "done"]
    /\ broken' = FALSE
    /\ UNCHANGED <<dir, undone, kills, boots>>

Return(c) ==
    /\ op.pc = "done" /\ op.by = c
    /\ op' = Free
    /\ UNCHANGED <<dir, since, lapses, kills, boots>>

(* The holder of the lock dies, or a file operation of it raises.          *)
KillHolder ==
    /\ ~LockFree
    /\ kills < MaxKills
    /\ kills' = kills + 1
    /\ op' = Free
    /\ broken' = IF IsStarted(dir) /\ \E d \in since : ~IsStarted(d) THEN TRUE ELSE broken
    /\ UNCHANGED <<dir, since, undone, boots>>

LosePower ==
    /\ boots < MaxBoots
    /\ boots' = boots + 1
    /\ dir' \in since
    /\ since' = {dir'}
    /\ op' = Free
    /\ broken' = FALSE
    /\ undone' = IF broken /\ ~IsStarted(dir') THEN undone \cup {dir.plan.version} ELSE undone
    /\ UNCHANGED kills

Call(c) ==
    \/ CreateRun(c) \/ StartRun(c) \/ CloseRun(c) \/ Return(c)
    \/ \E v \in Versions : WriteDraftPlan(c, v) \/ PromoteReadyPlan(c, v)

EvidenceNext == (\E c \in Callers : Call(c)) \/ Replace \/ Flush \/ KillHolder \/ LosePower

EvidenceSpec == EvidenceInit /\ [][EvidenceNext]_evidenceVars

-----------------------------------------------------------------------------
(* The files and the call under way have their types.                      *)
EvidenceTypeOK ==
    /\ dir \in Directories /\ since \subseteq Directories /\ dir \in since
    /\ op \in Ops
    /\ broken \in BOOLEAN /\ undone \subseteq Versions \cup {0}
    /\ kills \in 0 .. MaxKills /\ boots \in 0 .. MaxBoots

(* Through kills between two files and through power losses, a run that    *)
(* says it was started has its specification and the ready plan that it    *)
(* says was started.                                                       *)
Whole(d) == IsStarted(d) => d.spec /\ d.plan = Plan(d.state.version, "ready")
StartedIsWhole == \A d \in since : Whole(d)

(* A call that was broken off can be repeated: files that read_run refuses *)
(* are accepted by the call whose first half they are, so no kill leaves   *)
(* the run beyond repair.                                                  *)
Repairable(d) ==
    \/ Readable(d) \/ d = Empty
    \/ MayCreate(d) /\ Readable(Created(d))
    \/ d.plan.state = "draft" /\ MayDraft(d, d.plan.version)
    \/ d.plan.state = "ready" /\ MayPromote(d, d.plan.version)
BrokenOffIsRepairable == \A d \in since : Repairable(d)

(* After a start that was flushed, no call and no failure replaces the     *)
(* plan or takes the start back.                                           *)
StartStands ==
    [][(\A d \in since : IsStarted(d)) =>
            /\ dir'.plan = dir.plan /\ IsStarted(dir')
            /\ dir'.state.at = dir.state.at]_dir
=============================================================================
