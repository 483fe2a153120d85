--------------------------- MODULE RunLaunchProofs --------------------------
(***************************************************************************)
(* Theorems about RunLaunch and about the run store it calls, for any      *)
(* commands, planners and versions of the plan, any number of kills and    *)
(* any number of power losses.                                             *)
(***************************************************************************)
EXTENDS RunLaunch, TLAPS

-----------------------------------------------------------------------------
(***************************************************************************)
(* EvidenceRunStore, with kills between a rename and its flush too.        *)
(*                                                                         *)
(* StartedIsWhole is not inductive: a call writes two files and what the   *)
(* second write makes of the directory was decided before the first.       *)
(* EvidenceInv adds that the directory a call under way heads for is whole *)
(* and keeps a start, and that the directories a power loss may leave      *)
(* agree on the start with what readers see.                               *)
(***************************************************************************)

(* e has the start of d, if d has one.                                     *)
Keeps(d, e) ==
    IsStarted(d) => /\ IsStarted(e) /\ e.spec /\ e.plan = d.plan
                    /\ e.state.at = d.state.at /\ e.state.version = d.state.version

EvidenceInv ==
    /\ EvidenceTypeOK
    /\ StartedIsWhole
    /\ ~LockFree => Whole(op.next) /\ Keeps(dir, op.next)
    /\ \A d \in since : Keeps(d, dir)

-----------------------------------------------------------------------------
(* What a call heads for is a directory, whole and with the old start.     *)
Sound(d, e) == e \in Directories /\ Whole(e) /\ Keeps(d, e)

(* create_run leaves a state that exists alone.                            *)
LEMMA CreatedSound ==
    ASSUME NEW d \in Directories, Whole(d), MayCreate(d)
    PROVE  Sound(d, Created(d))
BY DEF Sound, Directories, PlanFiles, StateFiles, Whole, Keeps, IsStarted, MayCreate, Created,
       State, Plan

(* write_draft_plan refuses a run that was started.                        *)
LEMMA DraftedSound ==
    ASSUME NEW d \in Directories, NEW v \in Versions, Whole(d), MayDraft(d, v)
    PROVE  Sound(d, Drafted(d, v))
BY DEF Sound, Directories, PlanFiles, StateFiles, Whole, Keeps, IsStarted, MayDraft, Drafted,
       State, Plan, Known, Unstarted

(* promote_ready_plan refuses a run that was started.                      *)
LEMMA PromotedSound ==
    ASSUME NEW d \in Directories, NEW v \in Versions, Whole(d), MayPromote(d, v)
    PROVE  Sound(d, Promoted(d, v))
BY DEF Sound, Directories, PlanFiles, StateFiles, Whole, Keeps, IsStarted, MayPromote, Promoted,
       State, Plan, Known, Unstarted

(* start_run repeats a start only with its own started_at.                 *)
LEMMA StartedSound ==
    ASSUME NEW d \in Directories, NEW c \in Callers, Whole(d), MayStart(d, c)
    PROVE  Sound(d, Started(d, c))
BY DEF Sound, Directories, PlanFiles, StateFiles, Whole, Keeps, IsStarted, MayStart, Started,
       State, Plan, Known

(* close_run changes nothing of the start.                                 *)
LEMMA ClosedSound ==
    ASSUME NEW d \in Directories, Whole(d), MayClose(d)
    PROVE  Sound(d, Closed(d))
BY DEF Sound, Directories, PlanFiles, StateFiles, Whole, Keeps, IsStarted, MayClose, Closed,
       State, Plan, Known

(* The directory between the two writes of a call.                         *)
LEMMA HalfwaySound ==
    ASSUME EvidenceInv, ~LockFree
    PROVE  Sound(dir, Halfway) /\ Keeps(Halfway, op.next)
<1>1. dir \in Directories /\ op.next \in Directories /\ Whole(dir) /\ Whole(op.next)
      /\ Keeps(dir, op.next)
  BY DEF EvidenceInv, EvidenceTypeOK, StartedIsWhole, Ops
<1> QED
  BY <1>1 DEF Sound, Halfway, Directories, PlanFiles, StateFiles, Whole, Keeps, IsStarted, Plan

(* A call that takes the lock keeps the invariant if what it heads for is  *)
(* sound.                                                                  *)
LEMMA AcquireInv ==
    ASSUME EvidenceInv, NEW c \in Callers, NEW next, Sound(dir, next), Acquire(c, next)
    PROVE  EvidenceInv'
<1>1. op' = [pc |-> "file", by |-> c, next |-> next]
      /\ UNCHANGED <<dir, since, broken, undone, kills, boots>>
  BY DEF Acquire, lapses
<1>2. EvidenceTypeOK'
  BY <1>1 DEF EvidenceInv, EvidenceTypeOK, Sound, Ops, OpPcs
<1>3. Whole(op.next)' /\ Keeps(dir, op.next)'
  BY <1>1 DEF Sound, Whole, Keeps, IsStarted
<1>4. StartedIsWhole' /\ (\A d \in since : Keeps(d, dir))'
  BY <1>1 DEF EvidenceInv, StartedIsWhole, Keeps, IsStarted, Whole
<1> QED
  BY <1>2, <1>3, <1>4 DEF EvidenceInv

(* One rename.                                                             *)
LEMMA ReplaceInv ==
    ASSUME EvidenceInv, Replace
    PROVE  EvidenceInv' /\ Keeps(dir, dir')
<1>1. PICK e : /\ e \in {Halfway, op.next}
               /\ dir' = e /\ since' = since \cup {e}
               /\ \E pc \in OpPcs : op' = [op EXCEPT !.pc = pc]
               /\ UNCHANGED <<broken, undone, kills, boots>>
  <2>1. dir \in since
    BY DEF EvidenceInv, EvidenceTypeOK
  <2> QED BY <2>1 DEF Replace, OpPcs, lapses
<1>2. ~LockFree /\ op \in Ops
  BY DEF Replace, LockFree, EvidenceInv, EvidenceTypeOK
<1>3. ~LockFree' /\ op' \in Ops /\ op'.next = op.next
  BY <1>1, <1>2 DEF LockFree, Ops, OpPcs
<1>4. Sound(dir, e) /\ Keeps(e, op.next)
  <2>1. CASE e = Halfway
    BY <2>1, <1>2, HalfwaySound
  <2>2. CASE e = op.next
    BY <2>2, <1>2 DEF EvidenceInv, EvidenceTypeOK, Sound, Ops, Keeps, Whole, IsStarted
  <2> QED BY <1>1, <2>1, <2>2
<1>5. EvidenceTypeOK'
  BY <1>1, <1>3, <1>4 DEF EvidenceInv, EvidenceTypeOK, Sound
<1>6. StartedIsWhole'
  BY <1>1, <1>4 DEF EvidenceInv, StartedIsWhole, Sound
<1>7. Whole(op'.next) /\ Keeps(dir', op'.next)
  BY <1>1, <1>2, <1>3, <1>4 DEF EvidenceInv
<1>8. \A d \in since' : Keeps(d, dir')
  <2>1. Keeps(e, e)
    BY <1>4 DEF Sound, Keeps, Whole, IsStarted
  <2>2. ASSUME NEW d \in since PROVE Keeps(d, e)
    <3>1. Keeps(d, dir) /\ Keeps(dir, e)
      BY <1>4 DEF EvidenceInv, Sound
    <3> QED BY <3>1 DEF Keeps
  <2> QED BY <1>1, <2>1, <2>2
<1> QED
  BY <1>1, <1>4, <1>5, <1>6, <1>7, <1>8 DEF EvidenceInv, Sound

(* Steps that leave the directory that readers see alone, and its loss of  *)
(* power, leave the lock free or the call as it is.                        *)
LEMMA OtherInv ==
    ASSUME EvidenceInv,
           Flush \/ (\E c \in Callers : Return(c)) \/ KillHolder \/ LosePower
    PROVE  EvidenceInv' /\ dir' \in since
<1>1. dir \in since
  BY DEF EvidenceInv, EvidenceTypeOK
<1>2. CASE Flush
  <2>1. /\ since' = {dir} /\ dir' = dir /\ broken' = FALSE /\ UNCHANGED <<undone, kills, boots>>
        /\ ~LockFree /\ ~LockFree' /\ op' \in Ops /\ op'.next = op.next
    BY <1>2 DEF Flush, LockFree, EvidenceInv, EvidenceTypeOK, Ops, OpPcs
  <2>2. Whole(op'.next) /\ Keeps(dir', op'.next) /\ Whole(dir)
    BY <2>1, <1>1 DEF EvidenceInv, StartedIsWhole
  <2>3. EvidenceTypeOK'
    BY <2>1 DEF EvidenceInv, EvidenceTypeOK
  <2>4. StartedIsWhole' /\ \A d \in since' : Keeps(d, dir')
    BY <2>1, <2>2, <1>1 DEF EvidenceInv, StartedIsWhole
  <2> QED BY <2>1, <2>2, <2>3, <2>4, <1>1 DEF EvidenceInv
<1>3. CASE KillHolder \/ \E c \in Callers : Return(c)
  <2>1. op' = Free /\ dir' = dir /\ since' = since /\ boots' = boots /\ undone' = undone
        /\ kills' \in 0 .. MaxKills
    <3>1. CASE KillHolder
      <4>1. op' = Free /\ UNCHANGED <<dir, since, boots, undone>>
            /\ kills < MaxKills /\ kills' = kills + 1
        BY <3>1 DEF KillHolder
      <4> QED BY <4>1, EvidenceConstants DEF EvidenceInv, EvidenceTypeOK
    <3>2. CASE \E c \in Callers : Return(c)
      BY <3>2 DEF Return, EvidenceInv, EvidenceTypeOK, lapses
    <3> QED BY <1>3, <3>1, <3>2
  <2>2. LockFree' /\ op' \in Ops
    BY <2>1 DEF LockFree, Free, Ops, Empty, NoPlan, NoState, Directories, PlanFiles, StateFiles
  <2>3. broken' \in BOOLEAN
    <3>1. broken' \in {TRUE, broken}
      BY <1>3 DEF KillHolder, Return, lapses
    <3> QED BY <3>1 DEF EvidenceInv, EvidenceTypeOK
  <2> QED BY <2>1, <2>2, <2>3, <1>1 DEF EvidenceInv, EvidenceTypeOK, StartedIsWhole
<1>4. CASE LosePower
  <2>1. op' = Free /\ dir' \in since /\ since' = {dir'} /\ kills' = kills
        /\ boots' \in 0 .. MaxBoots /\ broken' = FALSE
    BY <1>4, EvidenceConstants DEF LosePower, EvidenceInv, EvidenceTypeOK
  <2>2. LockFree' /\ op' \in Ops
    BY <2>1 DEF LockFree, Free, Ops, Empty, NoPlan, NoState, Directories, PlanFiles, StateFiles
  <2>3. Whole(dir')
    BY <2>1 DEF EvidenceInv, StartedIsWhole
  <2>4. Keeps(dir', dir')
    BY <2>3 DEF Keeps, Whole, IsStarted
  <2>5. undone' \subseteq Versions \cup {0}
    BY <1>4, <1>1 DEF LosePower, EvidenceInv, EvidenceTypeOK, Directories, PlanFiles
  <2>6. EvidenceTypeOK'
    BY <2>1, <2>2, <2>5 DEF EvidenceInv, EvidenceTypeOK
  <2> QED BY <2>1, <2>2, <2>3, <2>4, <2>6 DEF EvidenceInv, StartedIsWhole
<1> QED BY <1>2, <1>3, <1>4

(* A call that takes the lock.                                             *)
LEMMA BeginInv ==
    ASSUME EvidenceInv, NEW c \in Callers, Call(c), ~Return(c)
    PROVE  EvidenceInv' /\ dir' = dir
<1>1. dir \in Directories /\ Whole(dir)
  BY DEF EvidenceInv, EvidenceTypeOK, StartedIsWhole
<1>2. PICK next : Sound(dir, next) /\ Acquire(c, next)
  <2>1. CASE CreateRun(c)
    BY <2>1, <1>1, CreatedSound DEF CreateRun
  <2>2. CASE StartRun(c)
    BY <2>2, <1>1, StartedSound DEF StartRun
  <2>3. CASE CloseRun(c)
    BY <2>3, <1>1, ClosedSound DEF CloseRun
  <2>4. ASSUME NEW v \in Versions, WriteDraftPlan(c, v) PROVE \E next : Sound(dir, next) /\ Acquire(c, next)
    BY <2>4, <1>1, DraftedSound DEF WriteDraftPlan
  <2>5. ASSUME NEW v \in Versions, PromoteReadyPlan(c, v) PROVE \E next : Sound(dir, next) /\ Acquire(c, next)
    BY <2>5, <1>1, PromotedSound DEF PromoteReadyPlan
  <2> QED BY <2>1, <2>2, <2>3, <2>4, <2>5 DEF Call
<1> QED BY <1>2, AcquireInv DEF Acquire

(* The invariant at the beginning: no file exists.                         *)
LEMMA InitInv == EvidenceInit => EvidenceInv
<1>1. EvidenceInit => broken \in BOOLEAN /\ undone \subseteq Versions \cup {0}
  BY DEF EvidenceInit
<1> QED
  BY <1>1, EvidenceConstants DEF EvidenceInit, EvidenceInv, EvidenceTypeOK, StartedIsWhole, Whole, Keeps,
   IsStarted, LockFree, Free, Ops, Empty, NoPlan, NoState, Directories, PlanFiles, StateFiles

(* A step keeps the invariant, and what readers see afterwards is what     *)
(* they saw, or could have seen since the last flush, or has its start.    *)
LEMMA StepInv ==
    ASSUME EvidenceInv, [EvidenceNext]_evidenceVars
    PROVE  EvidenceInv' /\ (dir' \in since \/ Keeps(dir, dir'))
<1>1. dir \in since
  BY DEF EvidenceInv, EvidenceTypeOK
<1>2. CASE Replace
  BY <1>2, ReplaceInv
<1>3. CASE Flush \/ (\E c \in Callers : Return(c)) \/ KillHolder \/ LosePower
  BY <1>3, OtherInv
<1>4. ASSUME NEW c \in Callers, Call(c), ~Return(c) PROVE EvidenceInv' /\ dir' = dir
  BY <1>4, BeginInv
<1>5. CASE UNCHANGED evidenceVars
  <2>1. UNCHANGED <<dir, since, op, broken, undone, kills, boots>>
    BY <1>5 DEF evidenceVars, lapses
  <2> QED BY <2>1, <1>1 DEF EvidenceInv, EvidenceTypeOK, StartedIsWhole, LockFree
<1> QED BY <1>1, <1>2, <1>3, <1>4, <1>5 DEF EvidenceNext

(* EvidenceInv is an invariant.                                            *)
LEMMA EvidenceInvariant == EvidenceSpec => []EvidenceInv
BY InitInv, StepInv, PTL DEF EvidenceSpec

-----------------------------------------------------------------------------
(* What a call heads for, and the directory between its two writes, are    *)
(* both repairable.                                                        *)
Between(d, e) == [e EXCEPT !.state = d.state]
Mends(d, e) == Repairable(e) /\ Repairable(Between(d, e))

RepairInv ==
    /\ BrokenOffIsRepairable
    /\ ~LockFree => Mends(dir, op.next)

(* Every call mends what it accepts of a repairable directory.             *)
LEMMA CallsMend ==
    ASSUME NEW d \in Directories, Repairable(d), NEW c \in Callers
    PROVE  /\ MayCreate(d) => Mends(d, Created(d))
           /\ \A v \in Versions : MayDraft(d, v) => Mends(d, Drafted(d, v))
           /\ \A v \in Versions : MayPromote(d, v) => Mends(d, Promoted(d, v))
           /\ MayStart(d, c) => Mends(d, Started(d, c))
           /\ MayClose(d) => Mends(d, Closed(d))
<1> USE EvidenceConstants DEF Mends, Between, Repairable, Readable, Known, Unstarted, Directories,
        PlanFiles, StateFiles, Plan, State, NoPlan, NoState, Empty, MayCreate, Created, MayDraft,
        MayPromote
<1>1. MayCreate(d) => Mends(d, Created(d))
  OBVIOUS
<1>2. ASSUME NEW v \in Versions, MayDraft(d, v) PROVE Mends(d, Drafted(d, v))
  BY <1>2 DEF Drafted
<1>3. ASSUME NEW v \in Versions, MayPromote(d, v) PROVE Mends(d, Promoted(d, v))
  BY <1>3 DEF Promoted
<1>4. MayStart(d, c) => Mends(d, Started(d, c))
  BY DEF MayStart, Started
<1>5. MayClose(d) => Mends(d, Closed(d))
  BY DEF MayClose, Closed
<1> QED BY <1>1, <1>2, <1>3, <1>4, <1>5

(* A step keeps RepairInv.                                                 *)
LEMMA StepRepair ==
    ASSUME EvidenceInv, RepairInv, [EvidenceNext]_evidenceVars
    PROVE  RepairInv'
<1>1. dir \in since /\ dir \in Directories /\ op \in Ops
  BY DEF EvidenceInv, EvidenceTypeOK
<1>2. Repairable(dir)
  BY <1>1 DEF RepairInv, BrokenOffIsRepairable
<1>3. CASE Replace
  <2>1. ~LockFree
    BY <1>3 DEF Replace, LockFree
  <2>2. Mends(dir, op.next) /\ Halfway = Between(dir, op.next)
    BY <2>1 DEF RepairInv, Halfway, Between
  <2>3. op'.next = op.next
    BY <1>1, <1>3 DEF Replace, Ops
  <2>4. dir' \in {Halfway, op.next} /\ since' = since \cup {dir'}
    BY <1>1, <1>3 DEF Replace
  <2>5. Between(dir', op.next) \in {Between(dir, op.next), op.next}
    BY <1>1, <2>2, <2>4 DEF Between, Ops, Directories
  <2> QED BY <2>2, <2>3, <2>4, <2>5 DEF RepairInv, BrokenOffIsRepairable, Mends
<1>4. CASE Flush
  BY <1>1, <1>2, <1>4 DEF Flush, RepairInv, BrokenOffIsRepairable, LockFree, Ops
<1>5. CASE KillHolder \/ LosePower \/ \E c \in Callers : Return(c)
  <2>1. LockFree' /\ since' \subseteq since
    <3>1. op' = Free /\ (since' = since \/ (dir' \in since /\ since' = {dir'}))
      BY <1>5 DEF KillHolder, LosePower, Return
    <3> QED BY <3>1 DEF LockFree, Free
  <2> QED BY <2>1 DEF RepairInv, BrokenOffIsRepairable
<1>6. ASSUME NEW c \in Callers, Call(c), ~Return(c) PROVE RepairInv'
  <2>1. PICK next : Mends(dir, next) /\ Acquire(c, next)
    <3>1. CASE CreateRun(c) \/ StartRun(c) \/ CloseRun(c)
      BY <3>1, <1>1, <1>2, CallsMend DEF CreateRun, StartRun, CloseRun
    <3>2. ASSUME NEW v \in Versions, WriteDraftPlan(c, v) \/ PromoteReadyPlan(c, v)
          PROVE  \E next : Mends(dir, next) /\ Acquire(c, next)
      BY <3>2, <1>1, <1>2, CallsMend DEF WriteDraftPlan, PromoteReadyPlan
    <3> QED BY <1>6, <3>1, <3>2 DEF Call
  <2>2. op'.next = next /\ dir' = dir /\ since' = since
    BY <2>1 DEF Acquire
  <2> QED BY <2>1, <2>2 DEF RepairInv, BrokenOffIsRepairable
<1>7. CASE UNCHANGED evidenceVars
  BY <1>7 DEF evidenceVars, RepairInv, BrokenOffIsRepairable, LockFree
<1> QED BY <1>3, <1>4, <1>5, <1>6, <1>7 DEF EvidenceNext

-----------------------------------------------------------------------------
(* The files of a run keep values that the calls can read, and readers see *)
(* a directory that a power loss could leave.                              *)
THEOREM EvidenceTypeCorrect == EvidenceSpec => []EvidenceTypeOK
<1>1. EvidenceInv => EvidenceTypeOK
  BY DEF EvidenceInv
<1> QED BY <1>1, EvidenceInvariant, PTL

(* Whenever a kill or a power loss falls, a run that says it was started   *)
(* has its specification and the ready plan that start_run bound.          *)
THEOREM StartedRunsAreWhole == EvidenceSpec => []StartedIsWhole
<1>1. EvidenceInv => StartedIsWhole
  BY DEF EvidenceInv
<1> QED BY <1>1, EvidenceInvariant, PTL

(* Once its start is flushed, no call, kill or power loss replaces a run's *)
(* plan, its started_at or the start itself.                               *)
THEOREM StartsStand == EvidenceSpec => StartStands
<1> DEFINE Stands == (\A d \in since : IsStarted(d)) =>
                        /\ dir'.plan = dir.plan /\ IsStarted(dir')
                        /\ dir'.state.at = dir.state.at
<1>1. EvidenceInv /\ [EvidenceNext]_evidenceVars => [Stands]_dir
  <2> SUFFICES ASSUME EvidenceInv, [EvidenceNext]_evidenceVars, \A d \in since : IsStarted(d)
               PROVE  /\ dir'.plan = dir.plan /\ IsStarted(dir')
                      /\ dir'.state.at = dir.state.at
    OBVIOUS
  <2>1. dir \in since /\ \A d \in since : Keeps(d, dir)
    BY DEF EvidenceInv, EvidenceTypeOK
  <2>2. dir' \in since \/ Keeps(dir, dir')
    BY StepInv
  <2> QED BY <2>1, <2>2 DEF Keeps
<1> QED BY <1>1, EvidenceInvariant, PTL DEF EvidenceSpec, StartStands

(* Wherever a kill or a power loss breaks a call off, the files can be     *)
(* read or the call that was broken off is accepted again.                 *)
THEOREM BrokenOffCallsRepeat == EvidenceSpec => []BrokenOffIsRepairable
<1>1. EvidenceInit => RepairInv
  BY DEF EvidenceInit, RepairInv, BrokenOffIsRepairable, Repairable, LockFree, Free
<1>2. RepairInv => BrokenOffIsRepairable
  BY DEF RepairInv
<1> QED BY <1>1, <1>2, StepRepair, EvidenceInvariant, PTL DEF EvidenceSpec

-----------------------------------------------------------------------------
(***************************************************************************)
(* RunLaunch.                                                              *)
(*                                                                         *)
(* The steps of RunLaunch change the run's directory only by calls of      *)
(* EvidenceRunStore, whose invariants carry over (MoveInv).  Two more are  *)
(* needed.  StartInv: a command that dispatches has seen or made a start,  *)
(* and outside a flush a start that readers see is on the disk, unless a   *)
(* kill left it without its flush.  EnqueueInv:                            *)
(* work items are made only by commands whose whole plan agrees with the   *)
(* planned-trial rows, so two such commands have the same trials, whatever *)
(* their versions.                                                         *)
(***************************************************************************)

AllTrials == UNION {Range(TrialsOf[v]) : v \in Versions}
Items == UNION {[S -> Commands] : S \in SUBSET AllTrials}
Ordinals == Nat \ {0}
CommandRecords ==
    [pc : Pcs, version : Versions \cup {0}, saw : {"none", "ready", "started"},
     next : Ordinals, known : Items]

LaunchTypeOK ==
    /\ planRow \in {"none", "ready", "running"}
    /\ items \in Items
    /\ cmd \in [Commands -> CommandRecords]
    /\ executed \subseteq Versions
    /\ \A c \in Commands : cmd[c].pc \notin {"idle", "done"} => cmd[c].version \in Versions

(* A plan file has a version of the plan.                                  *)
Versioned(d) == d.plan.state # "none" => d.plan.version \in Versions
VersionInv == Versioned(op.next) /\ \A d \in since : Versioned(d)

(* A start that readers see is on the disk but during a flush or after a   *)
(* kill before it, and at the end of a call readers see what it headed for. *)
OnDisk ==
    op.pc \notin {"fileFlush", "stateFlush"} /\ ~broken /\ IsStarted(dir) =>
        \A d \in since : IsStarted(d)
BrokenSeen == broken => IsStarted(dir)
Headed == op.pc \in {"stateFlush", "done"} => dir = op.next

(* A command that goes on to dispatch has seen, or made, the start.        *)
SeesStart(c) ==
    /\ cmd[c].pc \notin {"idle", "done"} /\ cmd[c].saw = "started" => IsStarted(dir)
    /\ cmd[c].pc \in {"dispatch", "work"} => IsStarted(dir)
    /\ At(c, "starting") => op.by = c /\ ~LockFree /\ IsStarted(op.next)

StartInv ==
    /\ OnDisk /\ BrokenSeen /\ Headed
    /\ \A c \in Commands : SeesStart(c)
    /\ ExecutedIsStarted

(* The trials of version v are planned; they are the work items.           *)
Planned(v) == \A n \in 1 .. Len(TrialsOf[v]) : n \in DOMAIN planned /\ planned[n] = TrialsOf[v][n]
Enqueued(v) ==
    \E w \in Versions : /\ Planned(w) /\ DOMAIN items = Range(TrialsOf[w])
                        /\ Range(TrialsOf[v]) = Range(TrialsOf[w])

(* How far a command has come.                                             *)
Progress(c) ==
    /\ cmd[c].pc \notin {"idle", "ensure", "done"} => planRow # "none"
    /\ At(c, "check") => cmd[c].next = 1
    /\ At(c, "trials") =>
          \A n \in 1 .. Len(Trials(c)) : n < cmd[c].next =>
                n \in DOMAIN planned /\ planned[n] = Trials(c)[n]
    /\ At(c, "items") =>
          /\ Planned(cmd[c].version)
          /\ \A n \in 1 .. Len(Trials(c)) : n < cmd[c].next => Trials(c)[n] \in DOMAIN items
    /\ cmd[c].pc \in {"start", "starting", "dispatch", "work"} => Enqueued(cmd[c].version)

EnqueueInv ==
    /\ \A t \in DOMAIN items : \E w \in Versions : Planned(w) /\ t \in Range(TrialsOf[w])
    /\ planRow = "running" => \E w \in Versions : Enqueued(w)
    /\ \A c \in Commands : Progress(c)
    /\ \A v \in executed : Enqueued(v)

-----------------------------------------------------------------------------
(* What a step of RunLaunch does to the directory: a step of the evidence  *)
(* store, or the kill of a process that does not hold the lock.            *)
Move ==
    \/ [EvidenceNext]_evidenceVars
    \/ kills < MaxKills /\ kills' = kills + 1 /\ UNCHANGED <<dir, since, op, broken, undone, boots>>

LaunchMove == [LaunchNext]_launchVars

(* Every step is such a move.                                              *)
LEMMA LaunchMoves == ASSUME LaunchMove PROVE Move
<1>1. Commands \subseteq Callers /\ Planners \subseteq Callers
  BY LaunchConstants
<1>2. CASE UNCHANGED launchVars
  BY <1>2 DEF launchVars, Move, evidenceVars
<1>3. ASSUME NEW c \in Commands, Command(c) PROVE Move
  <2>1. CASE Start(c)
    BY <1>1, <2>1 DEF Start, Move, EvidenceNext, Call
  <2>2. CASE StartReturns(c)
    BY <1>1, <2>2 DEF StartReturns, Move, EvidenceNext, Call
  <2>3. CASE KillCommand(c)
    BY <2>3 DEF KillCommand, Move, EvidenceNext, lapses
  <2>4. CASE Look(c) \/ Ensure(c) \/ Check(c) \/ PutTrial(c) \/ PutItem(c) \/ Dispatch(c) \/ Work(c)
    BY <2>4 DEF Look, Ensure, Check, PutTrial, PutItem, Dispatch, Work, Move
  <2> QED BY <1>3, <2>1, <2>2, <2>3, <2>4 DEF Command
<1>4. ASSUME NEW p \in Planners, Planner(p) PROVE Move
  BY <1>1, <1>4 DEF Planner, Move, EvidenceNext, Call
<1>5. CASE Replace \/ Flush \/ PowerLoss
  BY <1>5 DEF PowerLoss, Move, EvidenceNext
<1> QED BY <1>2, <1>3, <1>4, <1>5 DEF LaunchMove, LaunchNext

(* The invariants of the evidence store survive a move, and the directory  *)
(* keeps a start or goes back to one that a power loss may leave.          *)
LEMMA MoveInv ==
    ASSUME EvidenceInv, RepairInv, Move
    PROVE  EvidenceInv' /\ RepairInv' /\ (dir' \in since \/ Keeps(dir, dir'))
<1>1. CASE [EvidenceNext]_evidenceVars
  BY <1>1, StepInv, StepRepair
<1>2. CASE kills < MaxKills /\ kills' = kills + 1 /\ UNCHANGED <<dir, since, op, broken, undone, boots>>
  <2>1. kills' \in 0 .. MaxKills
    BY <1>2, EvidenceConstants DEF EvidenceInv, EvidenceTypeOK
  <2>2. EvidenceInv' /\ dir' \in since
    BY <1>2, <2>1 DEF EvidenceInv, EvidenceTypeOK, StartedIsWhole, LockFree
  <2>3. RepairInv'
    BY <1>2 DEF RepairInv, BrokenOffIsRepairable, LockFree
  <2> QED BY <2>2, <2>3
<1> QED BY <1>1, <1>2 DEF Move

(* A step takes the lock, writes, frees the lock, or leaves all alone.     *)
LEMMA MoveCases ==
    ASSUME Move
    PROVE  \/ LockFree /\ UNCHANGED <<dir, since>> /\ \E c \in Callers : op'.by = c /\ op'.pc = "file"
           \/ Replace \/ Flush \/ LosePower
           \/ UNCHANGED <<dir, since>> /\ op' = Free
           \/ UNCHANGED <<dir, since, op>>
<1>1. CASE KillHolder
  BY <1>1 DEF KillHolder
<1>2. ASSUME NEW c \in Callers, Call(c)
      PROVE  UNCHANGED <<dir, since>> /\ (op' = Free \/ (LockFree /\ op'.by = c /\ op'.pc = "file"))
  BY <1>2 DEF Call, CreateRun, StartRun, CloseRun, WriteDraftPlan, PromoteReadyPlan, Acquire, Return
<1> QED BY <1>1, <1>2 DEF Move, EvidenceNext, evidenceVars

(* Every call that takes the lock heads for a directory whose plan, if it  *)
(* has one, has a version.                                                 *)
LEMMA MoveVersion ==
    ASSUME EvidenceInv, VersionInv, Move
    PROVE  VersionInv'
<1>1. dir \in since /\ dir \in Directories /\ op \in Ops /\ op.next \in Directories
  BY DEF EvidenceInv, EvidenceTypeOK, Ops
<1>2. Versioned(dir) /\ Versioned(op.next)
  BY <1>1 DEF VersionInv
<1>3. ASSUME NEW c \in Callers, Call(c), ~Return(c) PROVE VersionInv'
  <2>1. PICK next : Versioned(next) /\ Acquire(c, next)
    <3>1. CASE CreateRun(c)
      BY <1>1, <1>2, <3>1 DEF CreateRun, Created, Versioned, Directories
    <3>2. CASE StartRun(c)
      BY <1>1, <1>2, <3>2 DEF StartRun, Started, Versioned, Directories
    <3>3. CASE CloseRun(c)
      BY <1>1, <1>2, <3>3 DEF CloseRun, Closed, Versioned, Directories
    <3>4. ASSUME NEW v \in Versions, WriteDraftPlan(c, v) \/ PromoteReadyPlan(c, v)
          PROVE  \E next : Versioned(next) /\ Acquire(c, next)
      <4>1. Versioned(Drafted(dir, v)) /\ Versioned(Promoted(dir, v))
        BY <1>1 DEF Versioned, Drafted, Promoted, Plan, Directories
      <4> QED BY <3>4, <4>1 DEF WriteDraftPlan, PromoteReadyPlan
    <3> QED BY <1>3, <3>1, <3>2, <3>3, <3>4 DEF Call
  <2>2. op'.next = next /\ since' = since
    BY <2>1 DEF Acquire
  <2> QED BY <2>1, <2>2 DEF VersionInv
<1>4. CASE Replace
  <2>1. op'.next = op.next /\ dir' \in {Halfway, op.next} /\ since' = since \cup {dir'}
    BY <1>1, <1>4 DEF Replace, Ops
  <2>2. Versioned(Halfway)
    BY <1>1, <1>2 DEF Halfway, Versioned, Directories
  <2> QED BY <1>2, <2>1, <2>2 DEF VersionInv
<1>5. CASE Flush
  BY <1>1, <1>2, <1>5 DEF Flush, VersionInv, Ops
<1>6. CASE KillHolder \/ LosePower \/ \E c \in Callers : Return(c)
  <2>1. op' = Free /\ since' \subseteq since
    BY <1>6 DEF KillHolder, LosePower, Return
  <2> QED BY <2>1 DEF VersionInv, Versioned, Free, Empty, NoPlan
<1>7. CASE UNCHANGED <<since, op>>
  BY <1>7 DEF VersionInv
<1> QED BY <1>3, <1>4, <1>5, <1>6, <1>7 DEF Move, EvidenceNext, evidenceVars

(* Whatever a call leaves behind: a start that is seen is on the disk, or  *)
(* the kill that left it there is remembered.                              *)
LEMMA MoveOnDisk ==
    ASSUME EvidenceInv, OnDisk, BrokenSeen, Headed, Move
    PROVE  OnDisk' /\ BrokenSeen' /\ Headed'
<1>1. op \in Ops /\ dir \in since
  BY DEF EvidenceInv, EvidenceTypeOK
<1>2. CASE Replace
  <2>1. IsStarted(dir) => IsStarted(dir')
    BY <1>2, ReplaceInv DEF Keeps
  <2>2. broken' = broken
    BY <1>2 DEF Replace, lapses
  <2>3. Headed'
    BY <1>1, <1>2 DEF Replace, Headed, Ops
  <2>4. op'.pc \in {"fileFlush", "stateFlush"} \/ UNCHANGED <<dir, since>>
    BY <1>1, <1>2 DEF Replace, Ops
  <2>5. op.pc \notin {"fileFlush", "stateFlush"}
    BY <1>2 DEF Replace
  <2> QED BY <2>1, <2>2, <2>3, <2>4, <2>5 DEF OnDisk, BrokenSeen
<1>3. CASE Flush
  BY <1>1, <1>3 DEF Flush, OnDisk, BrokenSeen, Headed, Ops
<1>4. CASE KillHolder
  BY <1>4 DEF KillHolder, OnDisk, BrokenSeen, Headed, Free
<1>5. CASE LosePower
  BY <1>5 DEF LosePower, OnDisk, BrokenSeen, Headed, Free
<1>6. CASE UNCHANGED <<dir, since, op, broken>>
  BY <1>6 DEF OnDisk, BrokenSeen, Headed
<1>7. ASSUME NEW c \in Callers, Call(c) PROVE OnDisk' /\ BrokenSeen' /\ Headed'
  <2>1. op'.pc \in {"free", "file"} /\ op.pc \in {"free", "done"} /\ UNCHANGED <<dir, since, broken>>
    BY <1>7 DEF Call, CreateRun, StartRun, CloseRun, WriteDraftPlan, PromoteReadyPlan, Acquire,
                Return, LockFree, Free, lapses
  <2> QED BY <2>1 DEF OnDisk, BrokenSeen, Headed
<1> QED BY <1>2, <1>3, <1>4, <1>5, <1>6, <1>7 DEF Move, EvidenceNext, evidenceVars, lapses

(* A start that readers see stays, with its plan, but for a power loss.    *)
LEMMA StartSeen ==
    ASSUME EvidenceInv, Move, ~LosePower, IsStarted(dir)
    PROVE  IsStarted(dir') /\ dir'.plan = dir.plan
<1>1. CASE Replace
  BY <1>1, ReplaceInv DEF Keeps
<1>2. CASE dir' = dir
  BY <1>2
<1> QED BY <1>1, <1>2, MoveCases DEF Flush

(* A start of a plan that is on the disk stays, through power losses too.  *)
LEMMA StartOnDisk ==
    ASSUME EvidenceInv, RepairInv, Move, NEW plan, \A d \in since : IsStarted(d) /\ d.plan = plan
    PROVE  \A d \in since' : IsStarted(d) /\ d.plan = plan
<1>1. dir \in since
  BY DEF EvidenceInv, EvidenceTypeOK
<1>2. IsStarted(dir') /\ dir'.plan = plan
  BY <1>1, MoveInv DEF Keeps
<1>3. since' \subseteq since \cup {dir'}
  BY <1>1, MoveCases DEF Replace, Flush, LosePower
<1> QED BY <1>2, <1>3

(* What ExecutedIsStarted says of one version.                             *)
Lasts(v) ==
    /\ IsStarted(dir) /\ dir.plan = Plan(v, "ready")
    /\ ~broken => \A d \in since : IsStarted(d) /\ d.plan = Plan(v, "ready")

(* It lasts, or the power loss that ends it is remembered.                 *)
LEMMA StartLasts ==
    ASSUME EvidenceInv, RepairInv, Move, NEW v \in Versions, Lasts(v)
    PROVE  Lasts(v)' \/ v \in undone'
<1>1. dir \in since /\ \A d \in since : Keeps(d, dir)
  BY DEF EvidenceInv, EvidenceTypeOK
<1>2. CASE ~broken
  <2>1. \A d \in since' : IsStarted(d) /\ d.plan = Plan(v, "ready")
    BY <1>2, StartOnDisk DEF Lasts
  <2>2. dir' \in since'
    BY MoveInv DEF EvidenceInv, EvidenceTypeOK
  <2> QED BY <2>1, <2>2 DEF Lasts
<1>3. CASE broken /\ LosePower
  <2>1. since' = {dir'} /\ dir' \in since /\ (~IsStarted(dir') => dir.plan.version \in undone')
    BY <1>3 DEF LosePower
  <2>2. dir.plan.version = v
    BY DEF Lasts, Plan
  <2>3. IsStarted(dir') => dir'.plan = Plan(v, "ready")
    BY <1>1, <2>1 DEF Keeps, Lasts
  <2> QED BY <2>1, <2>2, <2>3 DEF Lasts
<1>4. CASE broken /\ ~LosePower
  <2>1. IsStarted(dir') /\ dir'.plan = Plan(v, "ready")
    BY <1>4, StartSeen DEF Lasts
  <2>2. broken' \/ since' = {dir'}
    BY <1>4 DEF Move, EvidenceNext, Call, CreateRun, StartRun, CloseRun, WriteDraftPlan,
                PromoteReadyPlan, Acquire, Return, Replace, Flush, KillHolder, evidenceVars, lapses
  <2> QED BY <2>1, <2>2 DEF Lasts
<1> QED BY <1>2, <1>3, <1>4

-----------------------------------------------------------------------------
(* What Goto makes of the commands.                                        *)
LEMMA GotoCommands ==
    ASSUME LaunchTypeOK, NEW c \in Commands, NEW pc \in Pcs, Goto(c, pc)
    PROVE  /\ cmd' \in [Commands -> CommandRecords]
           /\ cmd'[c].pc = pc /\ cmd'[c].next = 1
           /\ cmd'[c].version = cmd[c].version /\ cmd'[c].saw = cmd[c].saw
           /\ \A b \in Commands \ {c} : cmd'[b] = cmd[b]
<1>1. 1 \in Ordinals
  BY DEF Ordinals
<1> QED BY <1>1 DEF Goto, LaunchTypeOK, CommandRecords

(* A command that has put a row and goes on to the next ordinal.           *)
LEMMA NextCommands ==
    ASSUME LaunchTypeOK, NEW c \in Commands, NEW n, n = cmd[c].next,
           cmd' = [cmd EXCEPT ![c].next = n + 1]
    PROVE  /\ cmd' \in [Commands -> CommandRecords]
           /\ cmd'[c].pc = cmd[c].pc /\ cmd'[c].next = n + 1
           /\ cmd'[c].version = cmd[c].version
           /\ \A b \in Commands \ {c} : cmd'[b] = cmd[b]
<1>1. n \in Ordinals
  BY DEF LaunchTypeOK, CommandRecords
<1>2. PICK k \in Ordinals : k = n + 1
  BY <1>1 DEF Ordinals
<1> QED BY <1>2 DEF LaunchTypeOK, CommandRecords

(* The rows only grow, and a plan that is enqueued stays so.               *)
RowsGrow ==
    /\ \A n \in DOMAIN planned : n \in DOMAIN planned' /\ planned'[n] = planned[n]
    /\ DOMAIN items \subseteq DOMAIN items'
    /\ \A v \in Versions : Enqueued(v) => Enqueued(v)'
    /\ planRow # "none" => planRow' # "none"

(* Planned trials stay planned.                                            *)
LEMMA PlannedStays ==
    ASSUME NEW v, Planned(v),
           \A n \in DOMAIN planned : n \in DOMAIN planned' /\ planned'[n] = planned[n]
    PROVE  Planned(v)'
BY DEF Planned

(* A step that leaves the planned trials and the work items alone.         *)
LEMMA RowsAlone ==
    ASSUME UNCHANGED <<planned, items>>, planRow # "none" => planRow' # "none"
    PROVE  RowsGrow
BY DEF RowsGrow, Enqueued, Planned

(* Two versions whose trials are all planned have the same trials.         *)
LEMMA PlannedAgree ==
    ASSUME NEW v \in Versions, NEW w \in Versions, Planned(v), Planned(w)
    PROVE  Range(TrialsOf[v]) = Range(TrialsOf[w])
<1>1. DOMAIN TrialsOf[v] = 1 .. Len(TrialsOf[v]) /\ DOMAIN TrialsOf[w] = 1 .. Len(TrialsOf[w])
      /\ Len(TrialsOf[v]) = Len(TrialsOf[w])
  BY LaunchConstants
<1>2. \A n \in 1 .. Len(TrialsOf[v]) : TrialsOf[v][n] = TrialsOf[w][n]
  BY <1>1 DEF Planned
<1> QED BY <1>1, <1>2 DEF Range

(* A command that takes no step, or is killed, while the rows grow.        *)
LEMMA OthersProgress ==
    ASSUME LaunchTypeOK, RowsGrow, NEW b \in Commands, Progress(b),
           cmd'[b] = cmd[b] \/ cmd'[b].pc = "done"
    PROVE  Progress(b)'
<1>1. CASE cmd'[b].pc = "done"
  BY <1>1 DEF Progress, At
<1>2. CASE cmd'[b] = cmd[b]
  <2>1. PICK v : v = cmd[b].version
    OBVIOUS
  <2>2. cmd[b].pc \notin {"idle", "done"} => v \in Versions
    BY <2>1 DEF LaunchTypeOK
  <2>3. At(b, "items") => Planned(v)'
    BY <2>1, PlannedStays DEF Progress, RowsGrow
  <2>4. cmd[b].pc \in {"start", "starting", "dispatch", "work"} => Enqueued(v)'
    BY <2>1, <2>2 DEF Progress, RowsGrow
  <2>5. cmd[b].pc = "items" => Planned(cmd[b].version)'
    BY <1>2, <2>1, <2>3 DEF Planned, At
  <2>6. cmd[b].pc \in {"start", "starting", "dispatch", "work"} => Enqueued(cmd[b].version)'
    BY <1>2, <2>1, <2>4 DEF Enqueued
  <2> QED BY <1>2, <2>5, <2>6 DEF Progress, At, Trials, RowsGrow
<1> QED BY <1>1, <1>2

(* The parts of EnqueueInv that are not about the command that takes the   *)
(* step.                                                                   *)
LEMMA EnqueueKeeps ==
    ASSUME LaunchTypeOK, EnqueueInv, RowsGrow, executed' = executed,
           NEW c \in Commands, Progress(c)',
           \A b \in Commands \ {c} : cmd'[b] = cmd[b] \/ cmd'[b].pc = "done",
           \A t \in DOMAIN items' \ DOMAIN items :
                \E w \in Versions : Planned(w)' /\ t \in Range(TrialsOf[w]),
           planRow' = "running" => planRow = "running" \/ \E w \in Versions : Enqueued(w)
    PROVE  EnqueueInv'
<1>1. \A t \in DOMAIN items' : \E w \in Versions : Planned(w)' /\ t \in Range(TrialsOf[w])
  BY PlannedStays DEF EnqueueInv, RowsGrow
<1>2. planRow' = "running" => \E w \in Versions : Enqueued(w)'
  BY DEF EnqueueInv, RowsGrow
<1>3. \A b \in Commands : Progress(b)'
  BY OthersProgress DEF EnqueueInv
<1>4. \A v \in executed' : Enqueued(v)'
  BY DEF EnqueueInv, RowsGrow, LaunchTypeOK
<1> QED BY <1>1, <1>2, <1>3, <1>4 DEF EnqueueInv

(* The parts of LaunchTypeOK that are not about that command.              *)
LEMMA TypeKeeps ==
    ASSUME LaunchTypeOK, planRow' \in {"none", "ready", "running"}, items' \in Items,
           cmd' \in [Commands -> CommandRecords], executed' \subseteq Versions,
           NEW c \in Commands, \A b \in Commands \ {c} : cmd'[b] = cmd[b] \/ cmd'[b].pc = "done",
           cmd'[c].pc \notin {"idle", "done"} => cmd'[c].version \in Versions
    PROVE  LaunchTypeOK'
BY DEF LaunchTypeOK

LaunchInv == LaunchTypeOK /\ EnqueueInv

(* What the invariant says of a command that is under way.                 *)
LEMMA OfCommand ==
    ASSUME LaunchInv, NEW c \in Commands, cmd[c].pc \notin {"idle", "done"}
    PROVE  /\ cmd[c] \in CommandRecords /\ cmd[c].version \in Versions /\ Progress(c)
           /\ Trials(c) = TrialsOf[cmd[c].version]
           /\ DOMAIN Trials(c) = 1 .. Len(Trials(c)) /\ Len(Trials(c)) \in Nat
BY LaunchConstants DEF LaunchInv, LaunchTypeOK, EnqueueInv, Trials

(* find_run: a version of the plan that is there.                          *)
LEMMA LookInv ==
    ASSUME EvidenceInv, VersionInv, LaunchInv, NEW c \in Commands, Look(c) PROVE LaunchInv'
<1>1. dir \in since /\ dir \in Directories
  BY DEF EvidenceInv, EvidenceTypeOK
<1>2. dir.plan.version \in Versions /\ dir.state.state \in {"ready", "started"}
  BY <1>1 DEF Look, VersionInv, Versioned
<1>3. cmd \in [Commands -> CommandRecords] /\ UNCHANGED <<planRow, planned, items, executed>>
  BY DEF LaunchInv, LaunchTypeOK, Look, rows
<1>4. /\ cmd' \in [Commands -> CommandRecords] /\ cmd'[c].pc = "ensure"
      /\ cmd'[c].version \in Versions /\ \A b \in Commands \ {c} : cmd'[b] = cmd[b]
  <2>1. PICK v \in Versions, saw \in {"ready", "started"} :
           cmd' = [cmd EXCEPT ![c].pc = "ensure", ![c].version = v, ![c].saw = saw]
    BY <1>2 DEF Look
  <2>2. PICK old \in CommandRecords : old = cmd[c]
    BY <1>3
  <2>3. PICK new : new = [old EXCEPT !.pc = "ensure", !.version = v, !.saw = saw]
    OBVIOUS
  <2>4. new \in CommandRecords /\ new.pc = "ensure" /\ new.version = v
    BY <2>3 DEF CommandRecords, Pcs
  <2>5. cmd' = [cmd EXCEPT ![c] = new]
    BY <1>3, <2>1, <2>2, <2>3
  <2> QED BY <1>3, <2>4, <2>5
<1>5. LaunchTypeOK'
  BY <1>3, <1>4, TypeKeeps DEF LaunchInv, LaunchTypeOK
<1>6. Progress(c)'
  BY <1>4 DEF Progress, At
<1>7. EnqueueInv'
  BY <1>3, <1>4, <1>6, RowsAlone, EnqueueKeeps DEF LaunchInv
<1> QED BY <1>5, <1>7 DEF LaunchInv

(* _ensure_operational_records.                                            *)
LEMMA EnsureInv == ASSUME LaunchInv, NEW c \in Commands, Ensure(c) PROVE LaunchInv'
<1>1. At(c, "ensure") /\ cmd[c].version \in Versions
  BY OfCommand DEF Ensure, At
<1>2. UNCHANGED <<planned, items, executed>> /\ Goto(c, "check")
      /\ planRow' = IF planRow = "none" THEN "ready" ELSE planRow
  BY DEF Ensure
<1>3. /\ cmd' \in [Commands -> CommandRecords] /\ cmd'[c].pc = "check"
      /\ cmd'[c].version = cmd[c].version /\ \A b \in Commands \ {c} : cmd'[b] = cmd[b]
  BY <1>2, GotoCommands DEF LaunchInv, Pcs
<1>4. LaunchTypeOK'
  BY <1>1, <1>2, <1>3, TypeKeeps DEF LaunchInv, LaunchTypeOK
<1>5. Progress(c)'
  <2>1. cmd'[c].next = 1 /\ planRow' # "none"
    BY <1>2, GotoCommands DEF LaunchInv, Pcs
  <2> QED BY <1>3, <2>1 DEF Progress, At
<1>6. EnqueueInv'
  BY <1>2, <1>3, <1>5, RowsAlone, EnqueueKeeps DEF LaunchInv
<1> QED BY <1>4, <1>6 DEF LaunchInv

(* _work_items_for_plan: a plan that runs is enqueued, and only the same   *)
(* trials may go on without enqueueing.                                    *)
LEMMA CheckInv == ASSUME LaunchInv, NEW c \in Commands, Check(c) PROVE LaunchInv'
<1>1. /\ At(c, "check") /\ cmd[c].version \in Versions /\ cmd \in [Commands -> CommandRecords]
      /\ planRow # "none" /\ items \in Items /\ planRow \in {"none", "ready", "running"}
  BY OfCommand DEF Check, At, Progress, LaunchInv, LaunchTypeOK
<1>2. UNCHANGED <<planRow, planned, items, executed>>
  BY DEF Check, rows
<1>3. CASE Goto(c, "done")
  <2>1. /\ cmd' \in [Commands -> CommandRecords] /\ cmd'[c].pc = "done"
        /\ \A b \in Commands \ {c} : cmd'[b] = cmd[b]
    BY <1>3, GotoCommands DEF LaunchInv, Pcs
  <2>2. LaunchTypeOK'
    BY <1>2, <2>1, TypeKeeps DEF LaunchInv, LaunchTypeOK
  <2>3. Progress(c)'
    BY <2>1 DEF Progress, At
  <2>4. EnqueueInv'
    BY <1>2, <2>1, <2>3, RowsAlone, EnqueueKeeps DEF LaunchInv
  <2> QED BY <2>2, <2>4 DEF LaunchInv
<1>4. ASSUME DOMAIN items = {} \/ Matches(c),
             NEW pc \in {"trials", "start"}, planRow = "ready" <=> pc = "trials",
             cmd' = [cmd EXCEPT ![c].pc = pc, ![c].known = items]
      PROVE  LaunchInv'
  <2>1. /\ cmd' \in [Commands -> CommandRecords] /\ cmd'[c].pc = pc
        /\ cmd'[c].version = cmd[c].version /\ cmd'[c].next = cmd[c].next
        /\ \A b \in Commands \ {c} : cmd'[b] = cmd[b]
    BY <1>1, <1>4 DEF CommandRecords, Pcs
  <2>2. LaunchTypeOK'
    BY <1>1, <1>2, <2>1, TypeKeeps DEF LaunchInv, LaunchTypeOK
  <2>3. Progress(c)'
    <3>1. CASE pc = "trials"
      <4>1. cmd[c].next = 1
        BY <1>1, OfCommand DEF Progress, At
      <4> QED BY <1>1, <1>2, <2>1, <3>1, <4>1 DEF Progress, At
    <3>2. CASE pc = "start"
      <4>1. PICK w \in Versions : Planned(w) /\ DOMAIN items = Range(TrialsOf[w])
        <5>1. planRow = "running"
          BY <1>1, <1>4, <3>2
        <5> QED BY <5>1 DEF LaunchInv, EnqueueInv, Enqueued
      <4>2. DOMAIN items = Range(Trials(c))
        <5>1. CASE Matches(c)
          BY <5>1 DEF Matches
        <5>2. CASE DOMAIN items = {}
          <6>1. Trials(c) = TrialsOf[cmd[c].version] /\ Len(Trials(c)) = Len(TrialsOf[w])
                /\ DOMAIN Trials(c) = 1 .. Len(Trials(c))
                /\ DOMAIN TrialsOf[w] = 1 .. Len(TrialsOf[w])
            BY <1>1, LaunchConstants DEF Trials
          <6>2. DOMAIN TrialsOf[w] = {}
            BY <4>1, <5>2 DEF Range
          <6> QED BY <5>2, <6>1, <6>2 DEF Range
        <5> QED BY <1>4, <5>1, <5>2
      <4>3. PICK v : v = cmd[c].version
        OBVIOUS
      <4>4. Enqueued(v)'
        BY <1>2, <4>1, <4>2, <4>3 DEF Enqueued, Planned, Trials
      <4>5. Enqueued(cmd[c].version)'
        BY <2>1, <4>3, <4>4 DEF Enqueued
      <4> QED BY <1>1, <1>2, <2>1, <3>2, <4>5 DEF Progress, At
    <3> QED BY <3>1, <3>2
  <2>4. EnqueueInv'
    BY <1>2, <2>1, <2>3, RowsAlone, EnqueueKeeps DEF LaunchInv
  <2> QED BY <2>2, <2>4 DEF LaunchInv
<1> QED BY <1>3, <1>4 DEF Check

(* A command that goes on and leaves the rows alone.                       *)
LEMMA GotoInv ==
    ASSUME LaunchInv, UNCHANGED <<planRow, planned, items, executed>>, NEW c \in Commands,
           NEW pc \in Pcs, Goto(c, pc),
           pc = "done" \/ (cmd[c].pc \notin {"idle", "done"} /\ Progress(c)')
    PROVE  LaunchInv'
<1>1. /\ cmd' \in [Commands -> CommandRecords] /\ cmd'[c].pc = pc
      /\ cmd'[c].version = cmd[c].version /\ \A b \in Commands \ {c} : cmd'[b] = cmd[b]
  BY GotoCommands DEF LaunchInv
<1>2. LaunchTypeOK'
  BY <1>1, TypeKeeps DEF LaunchInv, LaunchTypeOK
<1>3. Progress(c)'
  BY <1>1 DEF Progress, At
<1>4. EnqueueInv'
  BY <1>1, <1>3, RowsAlone, EnqueueKeeps DEF LaunchInv
<1> QED BY <1>2, <1>4 DEF LaunchInv

(* put_planned_trial adds a row or finds it as it wants it.                *)
LEMMA PutTrialInv == ASSUME LaunchInv, NEW c \in Commands, PutTrial(c) PROVE LaunchInv'
<1> DEFINE n == cmd[c].next
           t == Trials(c)[n]
           clash == \E i \in DOMAIN planned : (i = n) # (planned[i] = t)
<1>1. /\ At(c, "trials") /\ cmd[c].version \in Versions /\ cmd \in [Commands -> CommandRecords]
      /\ n \in Nat /\ Progress(c) /\ Len(Trials(c)) \in Nat
      /\ Trials(c) = TrialsOf[cmd[c].version]
  BY OfCommand DEF PutTrial, At, LaunchInv, LaunchTypeOK, CommandRecords, Ordinals
<1>2. UNCHANGED <<planRow, items, executed>>
  BY DEF PutTrial
<1>3. CASE n > Len(Trials(c)) /\ Goto(c, "items") /\ UNCHANGED planned
  <2>1. cmd'[c].pc = "items" /\ cmd'[c].next = 1 /\ cmd'[c].version = cmd[c].version
    BY <1>3, GotoCommands DEF LaunchInv, Pcs
  <2>2. Planned(cmd[c].version)
    BY <1>1, <1>3 DEF Progress, Planned, At
  <2>3. Progress(c)'
    BY <1>1, <1>2, <1>3, <2>1, <2>2 DEF Progress, At, Planned
  <2> QED BY <1>1, <1>2, <1>3, <2>3, GotoInv DEF Pcs, At
<1>4. CASE Goto(c, "done") /\ UNCHANGED planned
  BY <1>2, <1>4, GotoInv DEF Pcs
<1>5. CASE /\ n <= Len(Trials(c)) /\ ~clash
           /\ planned' = [i \in DOMAIN planned \cup {n} |-> IF i = n THEN t ELSE planned[i]]
           /\ cmd' = [cmd EXCEPT ![c].next = n + 1]
  <2>1. /\ cmd' \in [Commands -> CommandRecords] /\ cmd'[c].pc = "trials"
        /\ cmd'[c].next = n + 1 /\ cmd'[c].version = cmd[c].version
        /\ \A b \in Commands \ {c} : cmd'[b] = cmd[b]
    BY <1>1, <1>5, NextCommands DEF LaunchInv, At
  <2>2. \A i \in DOMAIN planned : i \in DOMAIN planned' /\ planned'[i] = planned[i]
    BY <1>5
  <2>3. n \in DOMAIN planned' /\ planned'[n] = t
    BY <1>5
  <2>4. RowsGrow
    <3>1. ASSUME NEW v \in Versions, Enqueued(v) PROVE Enqueued(v)'
      <4>1. PICK w \in Versions : /\ Planned(w) /\ DOMAIN items = Range(TrialsOf[w])
                                  /\ Range(TrialsOf[v]) = Range(TrialsOf[w])
        BY <3>1 DEF Enqueued
      <4>2. Planned(w)'
        BY <2>2, <4>1, PlannedStays
      <4> QED BY <1>2, <4>1, <4>2 DEF Enqueued
    <3> QED BY <1>2, <2>2, <3>1 DEF RowsGrow
  <2>5. Progress(c)'
    <3>1. \A i \in 1 .. Len(Trials(c)) : i < n + 1 => i \in DOMAIN planned' /\ planned'[i] = Trials(c)[i]
      BY <1>1, <2>2, <2>3 DEF Progress, At
    <3> QED BY <1>1, <1>2, <2>1, <3>1 DEF Progress, At, Trials
  <2>6. LaunchTypeOK'
    BY <1>1, <1>2, <2>1, TypeKeeps DEF LaunchInv, LaunchTypeOK
  <2>7. EnqueueInv'
    BY <1>2, <2>1, <2>4, <2>5, EnqueueKeeps DEF LaunchInv
  <2> QED BY <2>6, <2>7 DEF LaunchInv
<1> QED BY <1>3, <1>4, <1>5 DEF PutTrial

(* create_work_item adds a trial of a plan whose trials are all planned:   *)
(* if some plan is enqueued, it is a trial that has its work item.         *)
LEMMA PutItemInv == ASSUME LaunchInv, NEW c \in Commands, PutItem(c) PROVE LaunchInv'
<1> DEFINE n == cmd[c].next
<1>1. /\ At(c, "items") /\ cmd[c].version \in Versions /\ cmd \in [Commands -> CommandRecords]
      /\ n \in Nat \ {0} /\ Progress(c) /\ Len(Trials(c)) \in Nat
      /\ Trials(c) = TrialsOf[cmd[c].version] /\ DOMAIN Trials(c) = 1 .. Len(Trials(c))
      /\ Planned(cmd[c].version)
  BY OfCommand DEF PutItem, At, LaunchInv, LaunchTypeOK, CommandRecords, Progress, Ordinals
<1>2. UNCHANGED <<planRow, planned, executed>>
  BY DEF PutItem
<1>3. CASE n > Len(Trials(c)) /\ Goto(c, "start") /\ UNCHANGED items
  <2>1. cmd'[c].pc = "start" /\ cmd'[c].version = cmd[c].version
    BY <1>3, GotoCommands DEF LaunchInv, Pcs
  <2>2. Range(Trials(c)) \subseteq DOMAIN items
    BY <1>1, <1>3 DEF Progress, At, Range
  <2>3. DOMAIN items \subseteq Range(Trials(c))
    BY <1>1, PlannedAgree DEF LaunchInv, EnqueueInv
  <2>4. PICK v : v = cmd[c].version
    OBVIOUS
  <2>5. Enqueued(v)'
    BY <1>1, <1>2, <1>3, <2>2, <2>3, <2>4 DEF Enqueued, Planned
  <2>6. Enqueued(cmd[c].version)'
    BY <2>1, <2>4, <2>5 DEF Enqueued
  <2>7. Progress(c)'
    BY <1>1, <1>2, <2>1, <2>6 DEF Progress, At
  <2> QED BY <1>1, <1>2, <1>3, <2>7, GotoInv DEF Pcs, At
<1>4. ASSUME NEW t, t = Trials(c)[n], n <= Len(Trials(c)),
             items' = IF t \in DOMAIN items THEN items
                      ELSE [i \in DOMAIN items \cup {t} |-> IF i = t THEN c ELSE items[i]],
             \/ cmd' = [cmd EXCEPT ![c].next = n + 1]
             \/ Goto(c, "done")
      PROVE  LaunchInv'
  <2>1. /\ cmd' \in [Commands -> CommandRecords] /\ cmd'[c].version = cmd[c].version
        /\ \/ cmd'[c].pc = "items" /\ cmd'[c].next = n + 1
           \/ cmd'[c].pc = "done"
        /\ \A b \in Commands \ {c} : cmd'[b] = cmd[b]
    <3>1. CASE Goto(c, "done")
      BY <3>1, GotoCommands DEF LaunchInv, Pcs
    <3>2. CASE cmd' = [cmd EXCEPT ![c].next = n + 1]
      BY <1>1, <3>2, NextCommands DEF LaunchInv, At
    <3> QED BY <1>4, <3>1, <3>2
  <2>2. DOMAIN items' = DOMAIN items \cup {t} /\ t \in Range(Trials(c))
    BY <1>1, <1>4 DEF Range
  <2>3. items' \in Items
    <3>1. t \in AllTrials
      BY <1>1, <2>2 DEF AllTrials
    <3>2. PICK S \in SUBSET AllTrials : items \in [S -> Commands]
      BY DEF LaunchInv, LaunchTypeOK, Items
    <3>3. items' \in [S \cup {t} -> Commands]
      BY <1>4, <3>2
    <3> QED BY <3>1, <3>2, <3>3 DEF Items
  <2>4. RowsGrow
    <3>1. ASSUME NEW v \in Versions, Enqueued(v) PROVE Enqueued(v)'
      <4>1. PICK w \in Versions : /\ Planned(w) /\ DOMAIN items = Range(TrialsOf[w])
                                  /\ Range(TrialsOf[v]) = Range(TrialsOf[w])
        BY <3>1 DEF Enqueued
      <4>2. Range(TrialsOf[w]) = Range(Trials(c))
        BY <1>1, <4>1, PlannedAgree
      <4>3. DOMAIN items' = Range(TrialsOf[w])
        BY <2>2, <4>1, <4>2
      <4>4. Planned(w)'
        BY <1>2, <4>1 DEF Planned
      <4> QED BY <4>1, <4>3, <4>4 DEF Enqueued
    <3> QED BY <1>2, <2>2, <3>1 DEF RowsGrow
  <2>5. Progress(c)'
    <3>1. CASE cmd'[c].pc = "done"
      BY <3>1 DEF Progress, At
    <3>2. CASE cmd'[c].pc = "items" /\ cmd'[c].next = n + 1
      <4>1. \A i \in 1 .. Len(Trials(c)) : i < n + 1 => Trials(c)[i] \in DOMAIN items'
        BY <1>1, <1>4, <2>2 DEF Progress, At
      <4> QED BY <1>1, <1>2, <2>1, <3>2, <4>1 DEF Progress, At, Trials, Planned
    <3> QED BY <2>1, <3>1, <3>2
  <2>6. LaunchTypeOK'
    BY <1>1, <1>2, <2>1, <2>3, TypeKeeps DEF LaunchInv, LaunchTypeOK
  <2>7. ASSUME NEW u \in DOMAIN items' \ DOMAIN items
        PROVE  \E w \in Versions : Planned(w)' /\ u \in Range(TrialsOf[w])
    <3>1. PICK v \in Versions : v = cmd[c].version
      BY <1>1
    <3>2. Planned(v)'
      BY <1>1, <1>2, <3>1 DEF Planned
    <3> QED BY <1>1, <2>2, <3>1, <3>2
  <2>8. EnqueueInv'
    BY <1>2, <2>1, <2>4, <2>5, <2>7, EnqueueKeeps DEF LaunchInv
  <2> QED BY <2>6, <2>8 DEF LaunchInv
<1> QED BY <1>3, <1>4 DEF PutItem

(* A command whose plan is enqueued goes on, the plan perhaps marked       *)
(* running.                                                                *)
LEMMA LaterInv ==
    ASSUME LaunchInv, UNCHANGED <<planned, items, executed>>, planRow' \in {planRow, "running"},
           NEW c \in Commands, cmd[c].pc \in {"start", "starting", "dispatch"},
           NEW pc \in {"starting", "dispatch", "work"}, Goto(c, pc)
    PROVE  LaunchInv'
<1>1. /\ cmd' \in [Commands -> CommandRecords] /\ cmd'[c].pc = pc
      /\ cmd'[c].version = cmd[c].version /\ \A b \in Commands \ {c} : cmd'[b] = cmd[b]
  BY GotoCommands DEF LaunchInv, Pcs
<1>2. PICK v \in Versions : v = cmd[c].version
  BY OfCommand
<1>3. Enqueued(v) /\ planRow # "none"
  BY <1>2, OfCommand DEF Progress
<1>4. LaunchTypeOK'
  BY <1>1, <1>2, TypeKeeps DEF LaunchInv, LaunchTypeOK
<1>5. RowsGrow
  BY RowsAlone
<1>6. Enqueued(v)'
  BY <1>3, <1>5 DEF RowsGrow
<1>7. Enqueued(cmd[c].version)'
  BY <1>1, <1>2, <1>6 DEF Enqueued
<1>8. Progress(c)'
  BY <1>1, <1>3, <1>7 DEF Progress, At
<1>9. EnqueueInv'
  BY <1>1, <1>3, <1>5, <1>8, EnqueueKeeps DEF LaunchInv
<1> QED BY <1>4, <1>9 DEF LaunchInv

(* The worker executes a version that is enqueued.                         *)
LEMMA WorkInv == ASSUME LaunchInv, NEW c \in Commands, Work(c) PROVE LaunchInv'
<1>1. At(c, "work") /\ cmd[c].version \in Versions /\ Enqueued(cmd[c].version)
  BY OfCommand DEF Work, At, Progress
<1>2. UNCHANGED <<planRow, planned, items>> /\ executed' \subseteq executed \cup {cmd[c].version}
  BY DEF Work, rows
<1>3. /\ cmd' \in [Commands -> CommandRecords] /\ cmd'[c].pc = "done"
      /\ \A b \in Commands \ {c} : cmd'[b] = cmd[b]
  BY GotoCommands DEF LaunchInv, Pcs, Work
<1>4. LaunchTypeOK'
  BY <1>1, <1>2, <1>3, TypeKeeps DEF LaunchInv, LaunchTypeOK
<1>5. RowsGrow
  BY <1>2, RowsAlone
<1>6. \A t \in DOMAIN items' : \E w \in Versions : Planned(w)' /\ t \in Range(TrialsOf[w])
  BY <1>2 DEF LaunchInv, EnqueueInv, Planned
<1>7. planRow' = "running" => \E w \in Versions : Enqueued(w)'
  BY <1>2, <1>5 DEF LaunchInv, EnqueueInv, RowsGrow
<1>8. \A b \in Commands : Progress(b)'
  BY <1>3, <1>5, OthersProgress DEF LaunchInv, EnqueueInv
<1>9. \A v \in executed' : Enqueued(v)'
  BY <1>1, <1>2, <1>5 DEF LaunchInv, LaunchTypeOK, EnqueueInv, RowsGrow
<1> QED BY <1>4, <1>6, <1>7, <1>8, <1>9 DEF LaunchInv, EnqueueInv

(* No row, no execution, and each command as it was or stopped.            *)
LEMMA IdleInv ==
    ASSUME LaunchInv, UNCHANGED <<planRow, planned, items, executed>>,
           cmd' \in [Commands -> CommandRecords],
           \A b \in Commands : cmd'[b] = cmd[b] \/ cmd'[b].pc = "done"
    PROVE  LaunchInv'
<1>1. LaunchTypeOK'
  BY DEF LaunchInv, LaunchTypeOK
<1>2. \A b \in Commands : Progress(b)'
  BY RowsAlone, OthersProgress DEF LaunchInv, EnqueueInv
<1>3. RowsGrow
  BY RowsAlone
<1>4. \A t \in DOMAIN items' : \E w \in Versions : Planned(w)' /\ t \in Range(TrialsOf[w])
  BY DEF LaunchInv, EnqueueInv, Planned
<1>5. planRow' = "running" => \E w \in Versions : Enqueued(w)'
  BY <1>3 DEF LaunchInv, EnqueueInv, RowsGrow
<1>6. \A v \in executed' : Enqueued(v)'
  BY <1>3 DEF LaunchInv, LaunchTypeOK, EnqueueInv, RowsGrow
<1> QED BY <1>1, <1>2, <1>4, <1>5, <1>6 DEF LaunchInv, EnqueueInv

(* A power loss stops every command.                                       *)
LEMMA StoppedCommands ==
    ASSUME LaunchTypeOK, PowerLoss
    PROVE  /\ cmd' \in [Commands -> CommandRecords]
           /\ \A b \in Commands : IF At(b, "idle") THEN cmd'[b] = cmd[b] ELSE cmd'[b].pc = "done"
<1>1. \A b \in Commands : /\ [cmd[b] EXCEPT !.pc = "done"] \in CommandRecords
                          /\ [cmd[b] EXCEPT !.pc = "done"].pc = "done"
  BY DEF LaunchTypeOK, CommandRecords, Pcs
<1> QED BY <1>1 DEF PowerLoss, LaunchTypeOK

(* Every step keeps the types and the order of enqueueing.                 *)
LEMMA LaunchStepInv ==
    ASSUME EvidenceInv, VersionInv, LaunchInv, LaunchMove
    PROVE  LaunchInv'
<1>1. ASSUME NEW c \in Commands, Command(c) PROVE LaunchInv'
  <2>1. CASE Start(c)
    <3>1. At(c, "start") /\ UNCHANGED <<planRow, planned, items, executed>>
      BY <2>1 DEF Start, rows
    <3>2. Goto(c, "dispatch") \/ Goto(c, "starting") \/ Goto(c, "done")
      BY <2>1 DEF Start
    <3> QED BY <3>1, <3>2, LaterInv, GotoInv DEF At, Pcs
  <2>2. CASE StartReturns(c)
    BY <2>2, LaterInv DEF StartReturns, At, rows
  <2>3. CASE Dispatch(c)
    BY <2>3, LaterInv DEF Dispatch, At
  <2>4. CASE KillCommand(c)
    BY <2>4, GotoInv DEF KillCommand, rows, Pcs
  <2> QED BY <1>1, <2>1, <2>2, <2>3, <2>4, LookInv, EnsureInv, CheckInv, PutTrialInv, PutItemInv,
             WorkInv DEF Command
<1>2. CASE UNCHANGED <<rows, cmd, executed>>
  BY <1>2, IdleInv DEF rows, LaunchInv, LaunchTypeOK
<1>3. CASE PowerLoss
  BY <1>3, StoppedCommands, IdleInv DEF PowerLoss, rows, LaunchInv
<1> QED BY <1>1, <1>2, <1>3 DEF LaunchMove, LaunchNext, Planner, launchVars, rows

-----------------------------------------------------------------------------
(* While a command waits for its start nobody else gets the lock or ends   *)
(* the call: only the holder returns or is killed.                         *)
LEMMA HolderStays ==
    ASSUME EvidenceInv, LaunchTypeOK, LaunchMove, ~LosePower, NEW b \in Commands,
           op.by = b, ~LockFree, At(b, "starting"), cmd'[b].pc = "starting"
    PROVE  op'.by = b /\ op'.pc # "free" /\ op'.next = op.next
<1>1. op \in Ops /\ op.pc # "free" /\ b \notin Planners
  BY LaunchConstants DEF EvidenceInv, EvidenceTypeOK, LockFree
<1>2. CASE Replace \/ Flush
  BY <1>1, <1>2 DEF Replace, Flush, Ops
<1>3. CASE op' = op
  BY <1>1, <1>3
<1>4. ASSUME NEW p \in Planners, Planner(p) PROVE FALSE
  BY <1>1, <1>4 DEF Planner, CreateRun, CloseRun, WriteDraftPlan, PromoteReadyPlan, Acquire, LockFree,
                    Return
<1>5. ASSUME NEW c \in Commands, Command(c) PROVE op' = op
  <2>1. CASE Start(c)
    BY <1>1, <2>1 DEF Start, StartRun, Acquire, LockFree, evidenceVars
  <2>2. CASE StartReturns(c)
    <3>1. c = b
      BY <2>2 DEF StartReturns, Return
    <3>2. cmd'[b].pc = "dispatch"
      BY <2>2, <3>1, GotoCommands DEF StartReturns, Pcs
    <3> QED BY <3>2
  <2>3. CASE KillCommand(c)
    <3>1. c = b => cmd'[b].pc = "done"
      BY <2>3, GotoCommands DEF KillCommand, Pcs
    <3> QED BY <2>3, <3>1 DEF KillCommand
  <2>4. CASE Look(c) \/ Ensure(c) \/ Check(c) \/ PutTrial(c) \/ PutItem(c) \/ Dispatch(c) \/ Work(c)
    BY <2>4 DEF Look, Ensure, Check, PutTrial, PutItem, Dispatch, Work, evidenceVars
  <2> QED BY <1>5, <2>1, <2>2, <2>3, <2>4 DEF Command
<1> QED BY <1>2, <1>3, <1>4, <1>5 DEF LaunchMove, LaunchNext, PowerLoss, launchVars

(* A command that takes no step still has the start it saw.                *)
LEMMA OthersSee ==
    ASSUME EvidenceInv, LaunchTypeOK, LaunchMove, ~LosePower, NEW b \in Commands, SeesStart(b),
           cmd'[b] = cmd[b]
    PROVE  SeesStart(b)'
<1>1. IsStarted(dir) => IsStarted(dir')
  BY LaunchMoves, StartSeen
<1>2. At(b, "starting") => op'.by = b /\ op'.pc # "free" /\ op'.next = op.next
  BY HolderStays DEF SeesStart, At
<1> QED BY <1>1, <1>2 DEF SeesStart, At, LockFree

(* What a step of a command makes of its place and of what it saw.         *)
LEMMA CommandSteps ==
    ASSUME LaunchInv, NEW c \in Commands, Command(c)
    PROVE  /\ \A b \in Commands \ {c} : cmd'[b] = cmd[b]
           /\ \/ Look(c) /\ cmd'[c].pc = "ensure" /\ cmd'[c].saw = dir.state.state
              \/ /\ UNCHANGED <<dir, op>> /\ cmd'[c].saw = cmd[c].saw
                 /\ cmd[c].pc \notin {"idle", "done"}
                 /\ cmd'[c].pc \in {"check", "trials", "items", "start"}
              \/ /\ UNCHANGED dir /\ cmd'[c].saw = cmd[c].saw /\ cmd'[c].pc = "dispatch"
                 /\ (At(c, "start") /\ cmd[c].saw = "started")
                       \/ (At(c, "starting") /\ Return(c))
              \/ Dispatch(c) /\ cmd'[c].saw = cmd[c].saw /\ cmd'[c].pc = "work"
              \/ At(c, "start") /\ StartRun(c) /\ cmd'[c].saw = "ready" /\ cmd'[c].pc = "starting"
              \/ cmd'[c].pc = "done"
<1>1. cmd \in [Commands -> CommandRecords]
  BY DEF LaunchInv, LaunchTypeOK
<1>2. ASSUME NEW pc \in Pcs, Goto(c, pc)
      PROVE  /\ cmd'[c].pc = pc /\ cmd'[c].saw = cmd[c].saw
             /\ \A b \in Commands \ {c} : cmd'[b] = cmd[b]
  BY <1>2, GotoCommands DEF LaunchInv
<1>3. CASE Look(c)
  BY <1>1, <1>3 DEF Look, CommandRecords
<1>4. CASE Ensure(c)
  BY <1>2, <1>4 DEF Ensure, Pcs, At, evidenceVars
<1>5. CASE Check(c)
  <2>1. CASE Goto(c, "done")
    BY <1>2, <2>1 DEF Pcs
  <2>2. ASSUME NEW pc \in {"trials", "start"}, cmd' = [cmd EXCEPT ![c].pc = pc, ![c].known = items]
        PROVE  /\ cmd'[c].pc = pc /\ cmd'[c].saw = cmd[c].saw
               /\ \A b \in Commands \ {c} : cmd'[b] = cmd[b]
    BY <1>1, <2>2 DEF CommandRecords
  <2> QED BY <1>5, <2>1, <2>2 DEF Check, At, evidenceVars
<1>6. CASE PutTrial(c) \/ PutItem(c)
  <2>1. UNCHANGED <<dir, op>> /\ cmd[c].pc \in {"trials", "items"}
    BY <1>6 DEF PutTrial, PutItem, At, evidenceVars
  <2>2. \/ Goto(c, "items") \/ Goto(c, "start") \/ Goto(c, "done")
        \/ cmd' = [cmd EXCEPT ![c].next = cmd[c].next + 1]
    BY <1>6 DEF PutTrial, PutItem
  <2>3. CASE cmd' = [cmd EXCEPT ![c].next = cmd[c].next + 1]
    BY <1>1, <2>1, <2>3 DEF CommandRecords
  <2> QED BY <1>2, <2>1, <2>2, <2>3 DEF Pcs
<1>7. CASE Start(c)
  BY <1>2, <1>7 DEF Start, Pcs, At, evidenceVars
<1>8. CASE StartReturns(c)
  BY <1>2, <1>8 DEF StartReturns, Return, Pcs, At
<1>9. CASE Dispatch(c)
  BY <1>2, <1>9 DEF Dispatch, Pcs
<1>10. CASE Work(c) \/ KillCommand(c)
  BY <1>2, <1>10 DEF Work, KillCommand, Pcs
<1> QED BY <1>3, <1>4, <1>5, <1>6, <1>7, <1>8, <1>9, <1>10 DEF Command

(* The command that takes a step.                                          *)
LEMMA CommandSees ==
    ASSUME EvidenceInv, LaunchInv, StartInv, NEW c \in Commands, Command(c)
    PROVE  SeesStart(c)'
<1>1. SeesStart(c) /\ Headed
  BY DEF StartInv
<1>2. CASE Look(c) /\ cmd'[c].pc = "ensure" /\ cmd'[c].saw = dir.state.state
  BY <1>2 DEF Look, SeesStart, At, IsStarted, evidenceVars
<1>3. CASE /\ UNCHANGED <<dir, op>> /\ cmd'[c].saw = cmd[c].saw
           /\ cmd[c].pc \notin {"idle", "done"}
           /\ cmd'[c].pc \in {"check", "trials", "items", "start"}
  BY <1>1, <1>3 DEF SeesStart, At
<1>4. CASE /\ UNCHANGED dir /\ cmd'[c].saw = cmd[c].saw /\ cmd'[c].pc = "dispatch"
           /\ (At(c, "start") /\ cmd[c].saw = "started") \/ (At(c, "starting") /\ Return(c))
  BY <1>1, <1>4 DEF SeesStart, At, Return, Headed
<1>5. CASE Dispatch(c) /\ cmd'[c].saw = cmd[c].saw /\ cmd'[c].pc = "work"
  BY <1>1, <1>5 DEF SeesStart, At, Dispatch, evidenceVars
<1>6. CASE At(c, "start") /\ StartRun(c) /\ cmd'[c].saw = "ready" /\ cmd'[c].pc = "starting"
  <2>1. dir \in Directories
    BY DEF EvidenceInv, EvidenceTypeOK
  <2>2. IsStarted(Started(dir, c))
    BY <2>1 DEF Started, State, IsStarted, Directories
  <2>3. op'.by = c /\ op'.pc = "file" /\ op'.next = Started(dir, c) /\ dir' = dir
    BY <1>6 DEF StartRun, Acquire
  <2> QED BY <1>6, <2>2, <2>3 DEF SeesStart, At, LockFree
<1>7. CASE cmd'[c].pc = "done"
  BY <1>7 DEF SeesStart, At
<1> QED BY <1>2, <1>3, <1>4, <1>5, <1>6, <1>7, CommandSteps

(* A power loss is no step of a command or of a planner.                   *)
LEMMA OnlyPowerLoss == ASSUME EvidenceInv, LaunchMove PROVE PowerLoss \/ ~LosePower
<1>1. boots' = boots \/ PowerLoss
  <2>1. ASSUME NEW c \in Commands, Command(c) PROVE boots' = boots
    BY <2>1 DEF Command, Look, Ensure, Check, PutTrial, PutItem, Start, StartRun, Acquire, StartReturns,
                Return, Dispatch, Work, KillCommand, KillHolder, evidenceVars
  <2>2. ASSUME NEW p \in Planners, Planner(p) PROVE boots' = boots
    BY <2>2 DEF Planner, CreateRun, CloseRun, WriteDraftPlan, PromoteReadyPlan, Acquire, Return,
                KillHolder
  <2> QED BY <2>1, <2>2 DEF LaunchMove, LaunchNext, Replace, Flush, launchVars
<1>2. LosePower => boots' # boots
  BY EvidenceConstants DEF LosePower, EvidenceInv, EvidenceTypeOK
<1> QED BY <1>1, <1>2

(* Every step keeps StartInv.                                              *)
LEMMA StartStepInv ==
    ASSUME EvidenceInv, RepairInv, LaunchInv, StartInv, LaunchMove
    PROVE  StartInv'
<1>1. OnDisk' /\ BrokenSeen' /\ Headed'
  BY LaunchMoves, MoveOnDisk DEF StartInv
<1>2. ASSUME NEW b \in Commands PROVE SeesStart(b)'
  <2>1. SeesStart(b)
    BY DEF StartInv
  <2>2. CASE PowerLoss
    BY <2>2, StoppedCommands DEF LaunchInv, SeesStart, At
  <2>3. ASSUME NEW c \in Commands, Command(c), ~LosePower PROVE SeesStart(b)'
    BY <2>1, <2>3, CommandSteps, CommandSees, OthersSee DEF LaunchInv
  <2>4. CASE cmd' = cmd /\ ~LosePower
    BY <2>1, <2>4, OthersSee DEF LaunchInv
  <2>5. PowerLoss \/ ~LosePower
    BY OnlyPowerLoss
  <2> QED BY <2>2, <2>3, <2>4, <2>5 DEF LaunchMove, LaunchNext, Planner, launchVars
<1>3. ExecutedIsStarted'
  <2>0. undone \subseteq undone'
    BY LaunchMoves DEF Move, EvidenceNext, Call, CreateRun, StartRun, CloseRun, WriteDraftPlan,
       PromoteReadyPlan, Acquire, Return, Replace, Flush, KillHolder, LosePower, evidenceVars, lapses
  <2>1. ASSUME NEW v \in executed \ undone' PROVE Lasts(v)'
    <3>1. v \in Versions /\ Lasts(v)
      BY <2>0 DEF StartInv, ExecutedIsStarted, Lasts, LaunchInv, LaunchTypeOK
    <3> QED BY <3>1, LaunchMoves, StartLasts
  <2>2. CASE executed' = executed
    BY <2>1, <2>2 DEF ExecutedIsStarted, Lasts
  <2>3. ASSUME NEW c \in Commands, Work(c) PROVE ExecutedIsStarted'
    <3>1. op.pc = "free" /\ UNCHANGED <<dir, since, broken>> /\ cmd[c].pc = "work"
      BY <2>3 DEF Work, At, LockFree, evidenceVars, lapses
    <3>2. IsStarted(dir) /\ (~broken => \A d \in since : IsStarted(d))
      BY <3>1 DEF StartInv, OnDisk, SeesStart
    <3>3. \A d \in since : IsStarted(d) => d.plan = dir.plan
      BY DEF EvidenceInv, Keeps
    <3>4. PICK w : w = cmd[c].version
      OBVIOUS
    <3>5. dir.plan = Plan(w, "ready") => Lasts(w)'
      BY <3>1, <3>2, <3>3 DEF Lasts
    <3>6. executed' = executed \/ (executed' = executed \cup {w} /\ dir.plan = Plan(w, "ready"))
      BY <2>3, <3>4 DEF Work
    <3> QED BY <2>1, <3>5, <3>6 DEF ExecutedIsStarted, Lasts
  <2>4. executed' = executed \/ \E c \in Commands : Work(c)
    BY DEF LaunchMove, LaunchNext, Command, Look, Ensure, Check, PutTrial, PutItem, Start, StartReturns,
           Dispatch, KillCommand, Planner, PowerLoss, launchVars
  <2> QED BY <2>2, <2>3, <2>4
<1> QED BY <1>1, <1>2, <1>3 DEF StartInv

-----------------------------------------------------------------------------
(* All that a step of RunLaunch preserves of the files and the rows.       *)
RunInv == EvidenceInv /\ RepairInv /\ VersionInv /\ LaunchInv

(* Before the first call there is no file, no row and no command.          *)
LEMMA LaunchInitInv == ASSUME LaunchInit PROVE RunInv /\ StartInv
<1>1. EvidenceInv
  BY InitInv DEF LaunchInit
<1>2. RepairInv
  BY DEF LaunchInit, EvidenceInit, RepairInv, BrokenOffIsRepairable, Repairable, LockFree, Free
<1>3. VersionInv
  BY DEF LaunchInit, EvidenceInit, VersionInv, Versioned, Free, Empty, NoPlan
<1>4. \A c \in Commands : cmd[c] = Waiting
  BY DEF LaunchInit
<1>5. LaunchTypeOK
  <2>1. items \in Items
    <3>1. items \in [{} -> Commands]
      BY DEF LaunchInit
    <3> QED BY <3>1 DEF Items
  <2>2. Waiting \in CommandRecords
    <3>1. 1 \in Ordinals
      BY DEF Ordinals
    <3>2. <<>> \in Items
      BY <2>1 DEF LaunchInit
    <3> QED BY <3>1, <3>2 DEF Waiting, CommandRecords, Pcs
  <2>3. cmd \in [Commands -> CommandRecords]
    BY <2>2 DEF LaunchInit
  <2> QED BY <1>4, <2>1, <2>3 DEF LaunchInit, LaunchTypeOK, Waiting
<1>6. EnqueueInv
  <2>1. \A c \in Commands : Progress(c)
    BY <1>4 DEF Progress, At, Waiting
  <2> QED BY <2>1 DEF LaunchInit, EnqueueInv
<1>7. StartInv
  <2>1. \A c \in Commands : SeesStart(c)
    BY <1>4 DEF SeesStart, At, Waiting
  <2> QED BY <2>1 DEF LaunchInit, EvidenceInit, StartInv, OnDisk, BrokenSeen, Headed, ExecutedIsStarted, Free,
           IsStarted, Empty, NoState
<1> QED BY <1>1, <1>2, <1>3, <1>5, <1>6, <1>7 DEF RunInv, LaunchInv

(* It is an invariant of the launch.                                       *)
LEMMA RunInvariant == LaunchSpec => []RunInv
<1>1. LaunchInit => RunInv
  BY LaunchInitInv
<1>2. RunInv /\ [LaunchNext]_launchVars => RunInv'
  BY LaunchMoves, MoveInv, MoveVersion, LaunchStepInv DEF RunInv, LaunchMove
<1> QED BY <1>1, <1>2, PTL DEF LaunchSpec

(* The rows, the commands and the executed versions have their types.      *)
THEOREM LaunchTypeCorrect == LaunchSpec => []LaunchTypeOK
<1>1. RunInv => LaunchTypeOK
  BY DEF RunInv, LaunchInv
<1> QED BY <1>1, RunInvariant, PTL

(* Under commands that start and resume a run as well as under planners,   *)
(* what says it was started has its specification and the plan started.    *)
THEOREM LaunchedRunsAreWhole == LaunchSpec => []StartedIsWhole
<1>1. RunInv => StartedIsWhole
  BY DEF RunInv, EvidenceInv
<1> QED BY <1>1, RunInvariant, PTL

(* And a call of the evidence store that was broken off can be repeated.   *)
THEOREM LaunchedRunsAreRepairable == LaunchSpec => []BrokenOffIsRepairable
<1>1. RunInv => BrokenOffIsRepairable
  BY DEF RunInv, RepairInv
<1> QED BY <1>1, RunInvariant, PTL

(* A flushed start keeps its plan and its started_at through every step of *)
(* every command, every kill and every power loss.                         *)
THEOREM LaunchedStartsStand == LaunchSpec => StartStands
<1> DEFINE Stays == (\A d \in since : IsStarted(d)) =>
                        /\ dir'.plan = dir.plan /\ IsStarted(dir')
                        /\ dir'.state.at = dir.state.at
<1>1. RunInv /\ [LaunchNext]_launchVars => [Stays]_dir
  <2> SUFFICES ASSUME RunInv, [LaunchNext]_launchVars, \A d \in since : IsStarted(d)
               PROVE  /\ dir'.plan = dir.plan /\ IsStarted(dir')
                      /\ dir'.state.at = dir.state.at
    OBVIOUS
  <2>1. dir \in since /\ \A d \in since : Keeps(d, dir)
    BY DEF RunInv, EvidenceInv, EvidenceTypeOK
  <2>2. dir' \in since \/ Keeps(dir, dir')
    BY LaunchMoves, MoveInv DEF RunInv, LaunchMove
  <2> QED BY <2>1, <2>2 DEF Keeps
<1> QED BY <1>1, RunInvariant, PTL DEF LaunchSpec, StartStands

(* Nothing is executed but what some plan enqueued as a whole: not after a *)
(* kill in the middle of enqueue_ready_plan, not when two commands enqueue *)
(* at once, not when the plan was revised in between.                      *)
THEOREM OnlyEnqueuedIsExecuted == LaunchSpec => []ExecutedIsEnqueued
<1>1. RunInv => ExecutedIsEnqueued
  BY DEF RunInv, LaunchInv, EnqueueInv, Enqueued, ExecutedIsEnqueued
<1> QED BY <1>1, RunInvariant, PTL

(* Work is executed only for the plan whose start is on the disk, wherever *)
(* kills and power losses fall; after a kill between the rename and the    *)
(* flush of a start, for the plan whose start readers see, until a power   *)
(* loss takes that start back.                                             *)
THEOREM OnlyStartedIsExecuted == LaunchSpec => []ExecutedIsStarted
<1>1. LaunchInit => StartInv
  BY LaunchInitInv
<1>2. RunInv /\ StartInv /\ [LaunchNext]_launchVars => StartInv'
  BY StartStepInv DEF RunInv, LaunchMove
<1>3. StartInv => ExecutedIsStarted
  BY DEF StartInv
<1> QED BY <1>1, <1>2, <1>3, RunInvariant, PTL DEF LaunchSpec
=============================================================================
