----------------------- MODULE TrialPublicationProofs -----------------------
(***************************************************************************)
(* Theorems about TrialPublication, for any trials, any number of          *)
(* processes that resume, and any number of kills, errors and power        *)
(* losses.                                                                 *)
(*                                                                         *)
(* The four invariants of the module are not inductive: what a publisher   *)
(* may link next rests on what it, and not some other publisher, has       *)
(* flushed.  PublicationInv adds, for every publisher, the files it has    *)
(* left behind at each step, and for every file the files it stands on.    *)
(* The link of the record decides the race: whoever links it owns the      *)
(* trial's record, and only the owner writes a terminal receipt.           *)
(***************************************************************************)
EXTENDS TrialPublication, FiniteSetTheorems, TLAPS

TypeOK ==
    /\ work \in [Trials -> RowStates] /\ attempt \in [Trials -> RowStates]
    /\ submission \in [Trials -> {"none", "recorded", "bound"}]
    /\ job \in [Trials -> Outcomes \cup {"none", "running"}]
    /\ cache \subseteq Files /\ disk \subseteq cache
    /\ act \in [Actors -> Activity]
    /\ faulty \subseteq Trials /\ boots \in 0 .. MaxBoots

(* The files of trial t, by publisher a.                                   *)
Artifacts(t) == [kind |-> "artifacts", trial |-> t, by |-> t, status |-> "unknown"]
Record(t, a) == [kind |-> "record", trial |-> t, by |-> a, status |-> "unknown"]
Receipt(t, a, o) == [kind |-> "receipt", trial |-> t, by |-> a, status |-> o]
Final(t, a) == [kind |-> "final", trial |-> t, by |-> a, status |-> "unknown"]

(* A success that can be looked up: what SuccessHasEvidence wants.         *)
Backed(t) ==
    /\ job[t] = "succeeded"
    /\ \E b \in Actors : Record(t, b) \in disk /\ Receipt(t, b, "succeeded") \in disk

Early == {"idle", "submit", "collect", "unknown", "unknownRow"}
Linking == {"manifest", "record", "receipt", "final"}

(* Which trial an actor works on, and what it knows of the job.            *)
Knows(a) ==
    /\ act[a].pc \notin {"idle", "done"} => Trial(a) \in Trials /\ (a \in Trials => Trial(a) = a)
    /\ a \in Trials /\ act[a].pc \in {"idle", "submit"} => job[a] = "none"
    /\ At(a, "submit") => a \in Trials
    /\ act[a].linked => act[a].pc \in Linking \cup {"unknown"}
    /\ act[a].pc \in Early => act[a].found = "unknown"
    /\ act[a].pc \in Linking \cup {"artifacts", "row"} =>
          act[a].found \in Outcomes /\ act[a].found = job[Trial(a)]
    /\ At(a, "settle") => act[a].found # "raised"
    /\ act[a].pc \in {"row", "read", "settle"} /\ act[a].found = "succeeded" => Backed(Trial(a))

(* What a publisher has left behind by the time it is at a step.           *)
Left(a) ==
    /\ act[a].pc \in Linking => Artifacts(Trial(a)) \in disk
    /\ Midway(a) => Record(Trial(a), a) \in cache
    /\ act[a].pc \in {"receipt", "final"} => Record(Trial(a), a) \in disk
    /\ At(a, "receipt") /\ act[a].linked => Receipt(Trial(a), a, act[a].found) \in cache
    /\ At(a, "final") => Receipt(Trial(a), a, act[a].found) \in disk
    /\ At(a, "final") /\ act[a].linked => Final(Trial(a), a) \in cache

ActorInv == \A a \in Actors : Knows(a) /\ Left(a)

(* A trial has one record, and a file stands on what its own publisher     *)
(* flushed before.                                                         *)
OneRecord ==
    \A f, g \in cache : f.kind = "record" /\ g.kind = "record" /\ f.trial = g.trial => f = g
Stands(f) ==
    /\ f.kind = "final" =>
          /\ f.trial \in Trials /\ f.status = "unknown"
          /\ Record(f.trial, f.by) \in disk /\ Artifacts(f.trial) \in disk
          /\ \E o \in Outcomes : Receipt(f.trial, f.by, o) \in disk
    /\ f.kind = "receipt" /\ f.status \in Outcomes =>
          /\ f.trial \in Trials /\ f.status = job[f.trial]
          /\ Record(f.trial, f.by) \in disk
FileInv == OneRecord /\ \A f \in cache : Stands(f)

(* A finalization that a power loss may take is its writer's last step, or *)
(* its writer is gone.                                                     *)
Held(f) == f.trial \in faulty \/ (At(f.by, "final") /\ act[f.by].linked /\ Trial(f.by) = f.trial)
FinalInv == \A f \in cache \ disk : f.kind = "final" => Held(f)

RowInv == \A t \in Trials : "succeeded" \in {attempt[t], work[t]} => Backed(t)

PublicationInv == TypeOK /\ ActorInv /\ FileInv /\ FinalInv /\ RowInv /\ IncompleteNeedsFault

-----------------------------------------------------------------------------
(* A step may start or end a job; an outcome stands.                       *)
JobMoves(a) ==
    \A t \in Trials : \/ job'[t] = job[t]
                      \/ job[t] = "running"
                      \/ t = a /\ job[t] = "none"

(* A step of a that writes no file, and if it leaves the publication of    *)
(* its trial half way, says so.                                            *)
Quiet(a) ==
    /\ \A b \in Actors \ {a} : act'[b] = act[b]
    /\ UNCHANGED <<cache, disk>>
    /\ JobMoves(a)
    /\ faulty \subseteq faulty'
    /\ \/ act'[a] = act[a]
       \/ Midway(a) => Trial(a) \in faulty' \/ (Present("final", Trial(a)) /\ ~act[a].linked)

(* What actor b has and knows, while others take steps.                    *)
LEMMA OthersKeep ==
    ASSUME NEW b \in Actors, Knows(b), Left(b), act'[b] = act[b],
           cache \subseteq cache', disk \subseteq disk',
           \A t \in Trials : job[t] \in Outcomes => job'[t] = job[t],
           b \in Trials /\ act[b].pc \in {"idle", "submit"} => job'[b] = job[b]
    PROVE  Knows(b)' /\ Left(b)'
<1>1. Knows(b)'
  BY DEF Knows, At, Trial, Backed, Early, Linking, Outcomes
<1>2. Left(b)'
  BY DEF Left, At, Trial, Midway, Linking, Artifacts, Record, Receipt, Final
<1> QED BY <1>1, <1>2

(* A success that can be looked up can be looked up for ever.              *)
LEMMA BackedStands ==
    ASSUME disk \subseteq disk', NEW t \in Trials, job[t] \in Outcomes => job'[t] = job[t], Backed(t)
    PROVE  Backed(t)'
BY DEF Backed, Outcomes, Record, Receipt

(* Files stand on files that no step takes from the disk.                  *)
LEMMA FilesStand ==
    ASSUME NEW f, Stands(f), disk \subseteq disk',
           \A t \in Trials : job[t] \in Outcomes => job'[t] = job[t]
    PROVE  Stands(f)'
BY DEF Stands, Record, Artifacts, Receipt

(* A quiet step keeps the invariant, if it keeps the types, the rows and   *)
(* what its own actor knows.                                               *)
LEMMA QuietInv ==
    ASSUME PublicationInv, NEW a \in Actors, Quiet(a), TypeOK', Knows(a)', Left(a)', RowInv'
    PROVE  PublicationInv'
<1>1. \A t \in Trials : job[t] \in Outcomes => job'[t] = job[t]
  BY DEF Quiet, JobMoves, Outcomes
<1>2. ActorInv'
  <2> SUFFICES ASSUME NEW b \in Actors, b # a PROVE Knows(b)' /\ Left(b)'
    BY DEF ActorInv
  <2>1. Knows(b) /\ Left(b) /\ act'[b] = act[b]
    BY DEF PublicationInv, ActorInv, Quiet
  <2>2. b \in Trials /\ act[b].pc \in {"idle", "submit"} => job'[b] = job[b]
    BY <2>1 DEF Knows, Quiet, JobMoves
  <2> QED BY <1>1, <2>1, <2>2, OthersKeep DEF Quiet
<1>3. FileInv'
  <2>1. OneRecord'
    BY DEF PublicationInv, FileInv, OneRecord, Quiet
  <2>2. ASSUME NEW f \in cache PROVE Stands(f)'
    BY <1>1, FilesStand DEF PublicationInv, FileInv, Quiet
  <2> QED BY <2>1, <2>2 DEF FileInv, Quiet
<1>4. FinalInv'
  <2> SUFFICES ASSUME NEW f \in cache \ disk, f.kind = "final" PROVE Held(f)'
    BY DEF FinalInv, Quiet
  <2>1. Held(f) /\ f.by \in Actors
    BY DEF PublicationInv, FinalInv, TypeOK, Files
  <2> QED BY <2>1 DEF Held, Quiet, At, Trial, Midway
<1>5. IncompleteNeedsFault'
  <2> SUFFICES ASSUME NEW t \in Trials \ faulty', Present("record", t)', ~Present("final", t)'
               PROVE  \E b \in Actors : Trial(b)' = t /\ Midway(b)'
    BY DEF IncompleteNeedsFault
  <2>1. Present("record", t) /\ ~Present("final", t) /\ t \notin faulty
    BY DEF Present, OfTrial, Quiet
  <2>2. PICK b \in Actors : Trial(b) = t /\ Midway(b)
    BY <2>1 DEF PublicationInv, IncompleteNeedsFault
  <2>3. act'[b] = act[b]
    BY <2>1, <2>2 DEF Quiet
  <2> QED BY <2>2, <2>3 DEF Trial, Midway, At
<1> QED BY <1>2, <1>3, <1>4, <1>5 DEF PublicationInv

(* Rows keep the invariant if a success they are given is backed.          *)
LEMMA RowsKeep ==
    ASSUME RowInv, disk \subseteq disk',
           \A t \in Trials : job[t] \in Outcomes => job'[t] = job[t],
           \A t \in Trials : "succeeded" \in {attempt'[t], work'[t]} =>
                "succeeded" \in {attempt[t], work[t]} \/ Backed(t)
    PROVE  RowInv'
<1> SUFFICES ASSUME NEW t \in Trials, "succeeded" \in {attempt'[t], work'[t]} PROVE Backed(t)'
  BY DEF RowInv
<1>1. Backed(t)
  BY DEF RowInv
<1> QED BY <1>1, BackedStands

(* What the invariant says of an actor.                                    *)
LEMMA OfActor ==
    ASSUME PublicationInv, NEW a \in Actors
    PROVE  /\ act[a] \in Activity /\ Knows(a) /\ Left(a)
           /\ act[a].pc \notin {"idle", "done"} => Trial(a) \in Trials
BY DEF PublicationInv, TypeOK, ActorInv, Knows

-----------------------------------------------------------------------------
(* The steps that write no file.                                           *)
LEMMA ExecuteInv == ASSUME PublicationInv, NEW t \in Trials, Execute(t) PROVE PublicationInv'
<1>1. t \in Actors /\ act[t] \in Activity /\ Knows(t)
  BY OfActor DEF Actors
<1>2. act'[t] = [act[t] EXCEPT !.pc = "submit", !.trial = t] /\ At(t, "idle")
      /\ \A b \in Actors \ {t} : act'[b] = act[b]
  BY <1>1 DEF Execute, PublicationInv, TypeOK
<1>3. UNCHANGED <<work, attempt, job, cache, disk, faulty, boots>>
  BY DEF Execute, files
<1>4. TypeOK'
  BY <1>1, <1>3 DEF Execute, PublicationInv, TypeOK, Activity, Pcs
<1>5. Knows(t)' /\ Left(t)'
  BY <1>1, <1>2, <1>3 DEF Knows, Left, At, Trial, Activity, Early, Linking, Midway
<1>6. Quiet(t)
  BY <1>1, <1>2, <1>3 DEF Quiet, JobMoves, Midway, At, Knows, Linking
<1>7. RowInv'
  BY <1>3, RowsKeep DEF PublicationInv
<1> QED BY <1>1, <1>4, <1>5, <1>6, <1>7, QuietInv

(* What Goto makes of the actors ...                                       *)
LEMMA GotoActs ==
    ASSUME PublicationInv, NEW a \in Actors, NEW pc \in Pcs, Goto(a, pc)
    PROVE  /\ act' \in [Actors -> Activity]
           /\ act'[a].pc = pc /\ act'[a].linked = FALSE
           /\ act'[a].trial = act[a].trial /\ act'[a].found = act[a].found
           /\ \A b \in Actors \ {a} : act'[b] = act[b]
BY DEF Goto, PublicationInv, TypeOK, Activity

(* ... and Leave, of the worker for its dispatcher, of a reconcile for its *)
(* command.                                                                *)
LEMMA LeaveActs ==
    ASSUME PublicationInv, NEW a \in Actors, NEW found \in Outcomes \cup {"unknown", "raised"},
           Leave(a, found)
    PROVE  /\ act' \in [Actors -> Activity]
           /\ act'[a].pc = (IF a \in Trials THEN "read" ELSE "done") /\ act'[a].linked = FALSE
           /\ act'[a].trial = act[a].trial /\ act'[a].found = found
           /\ \A b \in Actors \ {a} : act'[b] = act[b]
<1> DEFINE pc == IF a \in Trials THEN "read" ELSE "done"
<1>1. act' = [act EXCEPT ![a].pc = pc, ![a].linked = FALSE, ![a].found = found]
  BY DEF Leave, IsWorker
<1>2. pc \in Pcs
  BY DEF Pcs
<1> HIDE DEF pc
<1>3. /\ act' \in [Actors -> Activity]
      /\ act'[a].pc = pc /\ act'[a].linked = FALSE
      /\ act'[a].trial = act[a].trial /\ act'[a].found = found
      /\ \A b \in Actors \ {a} : act'[b] = act[b]
  BY <1>1, <1>2 DEF PublicationInv, TypeOK, Activity
<1> QED BY <1>3 DEF pc

(* An actor that is done has nothing to account for.                       *)
LEMMA DoneKnows ==
    ASSUME NEW a \in Actors, act'[a].pc = "done", act'[a].linked = FALSE
    PROVE  Knows(a)' /\ Left(a)'
BY DEF Knows, Left, At, Early, Linking, Midway

(* client.submit: the job of a worker that had none.                       *)
LEMMA SubmitInv == ASSUME PublicationInv, NEW t \in Trials, Submit(t) PROVE PublicationInv'
<1>1. t \in Actors /\ act[t] \in Activity /\ Knows(t) /\ At(t, "submit") /\ job[t] = "none"
  BY OfActor DEF Actors, Submit, Knows, At
<1>2. /\ act' \in [Actors -> Activity]
      /\ act'[t].pc \in {"collect", "unknown"} /\ act'[t].linked = FALSE
      /\ act'[t].trial = act[t].trial /\ act'[t].found = act[t].found
      /\ \A b \in Actors \ {t} : act'[b] = act[b]
  BY <1>1, GotoActs DEF Submit, Pcs
<1>3. UNCHANGED <<work, attempt, cache, disk, faulty, boots>>
      /\ job' \in {job, [job EXCEPT ![t] = "running"]}
      /\ submission' \in {submission, [submission EXCEPT ![t] = "bound"]}
  BY DEF Submit, files
<1>4. TypeOK'
  BY <1>2, <1>3 DEF PublicationInv, TypeOK
<1>5. Knows(t)' /\ Left(t)'
  BY <1>1, <1>2, <1>3 DEF Knows, Left, At, Trial, Early, Linking, Midway
<1>6. Quiet(t)
  BY <1>1, <1>2, <1>3 DEF Quiet, JobMoves, Midway, At, PublicationInv, TypeOK
<1>7. RowInv'
  BY <1>1, <1>3, RowsKeep DEF PublicationInv, TypeOK, Outcomes
<1> QED BY <1>1, <1>4, <1>5, <1>6, <1>7, QuietInv

(* A job that runs ends.                                                   *)
LEMMA JobEndsInv == ASSUME PublicationInv, NEW t \in Trials, JobEnds(t) PROVE PublicationInv'
<1>1. t \in Actors /\ Knows(t) /\ Left(t) /\ job[t] = "running"
  BY OfActor DEF Actors, JobEnds
<1>2. UNCHANGED <<work, attempt, submission, cache, disk, act, faulty, boots>>
      /\ \E o \in Outcomes : job' = [job EXCEPT ![t] = o]
  BY DEF JobEnds, files, rows
<1>3. TypeOK'
  BY <1>2 DEF PublicationInv, TypeOK
<1>4. JobMoves(t) /\ \A u \in Trials : job[u] \in Outcomes => job'[u] = job[u]
  BY <1>1, <1>2 DEF JobMoves, PublicationInv, TypeOK, Outcomes
<1>5. Knows(t)' /\ Left(t)'
  <2>1. act[t].pc \notin {"idle", "submit"}
    BY <1>1 DEF Knows
  <2> QED BY <1>1, <1>2, <1>4, <2>1, OthersKeep
<1>6. Quiet(t)
  BY <1>2, <1>4 DEF Quiet
<1>7. RowInv'
  BY <1>2, <1>4, RowsKeep DEF PublicationInv
<1> QED BY <1>1, <1>3, <1>5, <1>6, <1>7, QuietInv

(* inspect and collect.                                                    *)
LEMMA CollectInv == ASSUME PublicationInv, NEW a \in Actors, Collect(a) PROVE PublicationInv'
<1>1. act[a] \in Activity /\ Knows(a) /\ At(a, "collect") /\ Trial(a) \in Trials
  BY OfActor DEF Collect, At
<1>2. /\ act' \in [Actors -> Activity]
      /\ \/ act'[a].pc = "unknown" /\ act'[a].found = act[a].found
         \/ act'[a].pc = "artifacts" /\ act'[a].found = job[Trial(a)] /\ job[Trial(a)] \in Outcomes
      /\ act'[a].trial = act[a].trial /\ act'[a].linked = FALSE
      /\ \A b \in Actors \ {a} : act'[b] = act[b]
  <2>1. CASE Goto(a, "unknown")
    BY <2>1, GotoActs DEF Pcs
  <2>2. CASE /\ job[Trial(a)] \in Outcomes
             /\ act' = [act EXCEPT ![a].pc = "artifacts", ![a].found = job[Trial(a)]]
    BY <1>1, <2>2 DEF PublicationInv, TypeOK, Activity, Pcs, Knows, At, Linking, Outcomes
  <2> QED BY <2>1, <2>2 DEF Collect
<1>3. UNCHANGED <<work, attempt, submission, job, cache, disk, faulty, boots>>
  BY DEF Collect, files, rows
<1>4. TypeOK'
  BY <1>2, <1>3 DEF PublicationInv, TypeOK
<1>5. Knows(a)' /\ Left(a)'
  BY <1>1, <1>2, <1>3 DEF Knows, Left, At, Trial, Early, Linking, Midway, Outcomes
<1>6. Quiet(a)
  BY <1>1, <1>2, <1>3 DEF Quiet, JobMoves, Midway, At
<1>7. RowInv'
  BY <1>3, RowsKeep DEF PublicationInv
<1> QED BY <1>4, <1>5, <1>6, <1>7, QuietInv

(* reconcile, whichever way it goes: from the job, from the publication,   *)
(* or refused.                                                             *)
LEMMA ReconcileInv ==
    ASSUME PublicationInv, NEW r \in Resumes, NEW t \in Trials,
           ReconcileJob(r, t) \/ ReconcilePublished(r, t) \/ ReconcileRefused(r, t)
    PROVE  PublicationInv'
<1>1. r \in Actors /\ r \notin Trials /\ act[r] \in Activity /\ Knows(r) /\ At(r, "idle")
  BY OfActor, PublicationConstants
     DEF Actors, ReconcileJob, ReconcilePublished, ReconcileRefused, Reconcilable
<1>2. act[r].found = "unknown" /\ act[r].linked = FALSE
  BY <1>1 DEF Knows, At, Early, Linking, Activity
<1>3. /\ act' \in [Actors -> Activity]
      /\ act'[r].trial = t /\ act'[r].linked = FALSE
      /\ \/ act'[r].pc \in {"collect", "unknown", "done"} /\ act'[r].found = "unknown"
         \/ act'[r].pc = "row" /\ \E f \in Terminal(t) : act'[r].found = f.status
      /\ \A b \in Actors \ {r} : act'[b] = act[b]
  <2>1. CASE ReconcileJob(r, t)
    <3>1. PICK pc \in {"collect", "unknown"} : act' = [act EXCEPT ![r].trial = t, ![r].pc = pc]
      BY <2>1 DEF ReconcileJob
    <3> QED BY <1>1, <1>2, <3>1 DEF PublicationInv, TypeOK, Activity, Pcs
  <2>2. CASE ReconcilePublished(r, t)
    <3>1. PICK f \in Terminal(t) :
             act' = [act EXCEPT ![r].pc = "row", ![r].trial = t, ![r].found = f.status]
      BY <2>2 DEF ReconcilePublished
    <3>2. f.status \in Outcomes
      BY <3>1 DEF Terminal
    <3> QED BY <1>1, <1>2, <3>1, <3>2 DEF PublicationInv, TypeOK, Activity, Pcs
  <2>3. CASE ReconcileRefused(r, t)
    BY <1>1, <1>2, <2>3 DEF ReconcileRefused, PublicationInv, TypeOK, Activity, Pcs
  <2> QED BY <2>1, <2>2, <2>3
<1>4. act'[r].pc = "row" => ReconcilePublished(r, t)
  <2>1. ReconcileJob(r, t) \/ ReconcileRefused(r, t) => act'[r].pc # "row"
    BY <1>1 DEF ReconcileJob, ReconcileRefused, PublicationInv, TypeOK, Activity
  <2> QED BY <2>1
<1>5. UNCHANGED <<work, attempt, submission, job, cache, disk, faulty, boots>>
  BY DEF ReconcileJob, ReconcilePublished, ReconcileRefused, files, rows
<1>6. TypeOK'
  BY <1>3, <1>5 DEF PublicationInv, TypeOK
<1>7. ASSUME act'[r].pc = "row"
      PROVE  /\ act'[r].found \in Outcomes /\ act'[r].found = job[t]
             /\ act'[r].found = "succeeded" => Backed(t)
  <2>1. PICK f \in Terminal(t) : act'[r].found = f.status
    BY <1>3, <1>7
  <2>2. f \in cache /\ f.kind = "receipt" /\ f.trial = t /\ f.status \in Outcomes
    BY <2>1 DEF Terminal, OfTrial
  <2>3. f.status = job[t]
    BY <2>2 DEF Stands, PublicationInv, FileInv
  <2>4. PICK g \in cache : g.kind = "final" /\ g.trial = t
    BY <1>3, <1>7, <1>4 DEF ReconcilePublished, Published, Present, OfTrial
  <2>5. PICK o \in Outcomes : Record(t, g.by) \in disk /\ Receipt(t, g.by, o) \in disk
    BY <2>4 DEF Stands, PublicationInv, FileInv
  <2>6. o = job[t] /\ g.by \in Actors
    <3>1. Stands(Receipt(t, g.by, o))
      BY <2>5 DEF PublicationInv, FileInv, TypeOK
    <3> QED BY <2>4, <3>1 DEF Stands, Receipt, PublicationInv, TypeOK, Files
  <2> QED BY <2>1, <2>2, <2>3, <2>5, <2>6 DEF Backed
<1>8. Knows(r)' /\ Left(r)'
  BY <1>1, <1>3, <1>5, <1>7 DEF Knows, Left, At, Trial, Early, Linking, Midway, Backed
<1>9. Quiet(r)
  BY <1>1, <1>3, <1>5 DEF Quiet, JobMoves, Midway, At
<1>10. RowInv'
  BY <1>5, RowsKeep DEF PublicationInv
<1> QED BY <1>1, <1>6, <1>8, <1>9, <1>10, QuietInv

(* A step that leaves the files and the job alone and writes no success    *)
(* that is not backed.                                                     *)
LEMMA WriterInv ==
    ASSUME PublicationInv, NEW a \in Actors,
           UNCHANGED <<submission, job, cache, disk, boots>>,
           act' \in [Actors -> Activity], \A b \in Actors \ {a} : act'[b] = act[b],
           work' \in [Trials -> RowStates], attempt' \in [Trials -> RowStates],
           \A t \in Trials : "succeeded" \in {attempt'[t], work'[t]} =>
                "succeeded" \in {attempt[t], work[t]} \/ Backed(t),
           faulty \subseteq faulty', faulty' \subseteq Trials,
           Midway(a) => Trial(a) \in faulty' \/ (Present("final", Trial(a)) /\ ~act[a].linked),
           Knows(a)', Left(a)'
    PROVE  PublicationInv'
<1>1. TypeOK'
  BY DEF PublicationInv, TypeOK
<1>2. Quiet(a)
  BY DEF Quiet, JobMoves
<1>3. RowInv'
  BY RowsKeep DEF PublicationInv
<1> QED BY <1>1, <1>2, <1>3, QuietInv

(* _unknown_outcome after its receipt.                                     *)
LEMMA UnknownRowInv == ASSUME PublicationInv, NEW a \in Actors, UnknownRow(a) PROVE PublicationInv'
<1>1. act[a] \in Activity /\ Knows(a) /\ At(a, "unknownRow") /\ Trial(a) \in Trials
  BY OfActor DEF UnknownRow, At
<1>2. /\ UNCHANGED <<work, submission, job, cache, disk, faulty, boots>>
      /\ attempt' = [attempt EXCEPT ![Trial(a)] = "unknown"] /\ Leave(a, "unknown")
  BY DEF UnknownRow, files
<1>3. /\ act' \in [Actors -> Activity] /\ \A b \in Actors \ {a} : act'[b] = act[b]
      /\ act'[a].pc = (IF a \in Trials THEN "read" ELSE "done") /\ act'[a].linked = FALSE
      /\ act'[a].trial = act[a].trial /\ act'[a].found = "unknown"
  BY <1>2, LeaveActs
<1>4. Knows(a)' /\ Left(a)'
  BY <1>1, <1>2, <1>3 DEF Knows, Left, At, Trial, Early, Linking, Midway
<1>5. attempt' \in [Trials -> RowStates]
      /\ \A t \in Trials : attempt'[t] = "succeeded" => attempt[t] = "succeeded"
  BY <1>1, <1>2 DEF PublicationInv, TypeOK, RowStates
<1> QED BY <1>1, <1>2, <1>3, <1>4, <1>5, WriterInv DEF Midway, At, PublicationInv, TypeOK

(* The manifest of the run is there.                                       *)
LEMMA ManifestExistsInv ==
    ASSUME PublicationInv, NEW a \in Actors, ManifestExists(a) PROVE PublicationInv'
<1>1. act[a] \in Activity /\ Knows(a) /\ Left(a) /\ At(a, "manifest") /\ Trial(a) \in Trials
  BY OfActor DEF ManifestExists, At
<1>2. UNCHANGED <<work, attempt, submission, job, cache, disk, faulty, boots>> /\ Goto(a, "record")
  BY DEF ManifestExists, files, rows
<1>3. /\ act' \in [Actors -> Activity] /\ \A b \in Actors \ {a} : act'[b] = act[b]
      /\ act'[a].pc = "record" /\ act'[a].linked = FALSE
      /\ act'[a].trial = act[a].trial /\ act'[a].found = act[a].found
  BY <1>2, GotoActs DEF Pcs
<1>4. Knows(a)' /\ Left(a)'
  BY <1>1, <1>2, <1>3 DEF Knows, Left, At, Trial, Early, Linking, Midway, Artifacts
<1> QED BY <1>1, <1>2, <1>3, <1>4, WriterInv DEF Midway, At, PublicationInv, TypeOK

(* An actor whose publication has raised.                                  *)
LEMMA RaisedKnows ==
    ASSUME NEW a \in Actors, Knows(a), act[a].pc \notin {"idle", "done"},
           act'[a].pc = "raised", act'[a].linked = FALSE, act'[a].trial = act[a].trial
    PROVE  Knows(a)' /\ Left(a)'
BY DEF Knows, Left, At, Trial, Early, Linking, Midway

(* The name of the record or of the finalization is taken.                 *)
LEMMA DuplicateInv == ASSUME PublicationInv, NEW a \in Actors, Duplicate(a) PROVE PublicationInv'
<1>1. /\ Knows(a) /\ Trial(a) \in Trials
      /\ act[a].pc \in {"record", "final"} /\ ~act[a].linked /\ Present(act[a].pc, Trial(a))
  BY OfActor DEF Duplicate
<1>2. /\ UNCHANGED <<work, submission, job, cache, disk, faulty, boots>>
      /\ attempt' = [attempt EXCEPT ![Trial(a)] = "failed"] /\ Goto(a, "raised")
  BY DEF Duplicate, files
<1>3. /\ act' \in [Actors -> Activity] /\ \A b \in Actors \ {a} : act'[b] = act[b]
      /\ act'[a].pc = "raised" /\ act'[a].linked = FALSE /\ act'[a].trial = act[a].trial
  BY <1>2, GotoActs DEF Pcs
<1>4. Knows(a)' /\ Left(a)'
  BY <1>1, <1>3, RaisedKnows
<1>5. attempt' \in [Trials -> RowStates]
      /\ \A t \in Trials : attempt'[t] = "succeeded" => attempt[t] = "succeeded"
  BY <1>1, <1>2 DEF PublicationInv, TypeOK, RowStates, Outcomes
<1>6. Midway(a) => Present("final", Trial(a)) /\ ~act[a].linked
  BY <1>1 DEF Midway, At
<1> QED BY <1>2, <1>3, <1>4, <1>5, <1>6, WriterInv DEF PublicationInv, TypeOK

(* An error between two steps; half way through, the trial is faulty.      *)
LEMMA FailInv == ASSUME PublicationInv, NEW a \in Actors, Fail(a) PROVE PublicationInv'
<1>1. /\ Knows(a) /\ Trial(a) \in Trials /\ act[a].pc \notin {"idle", "done"}
  BY OfActor DEF Fail
<1>2. /\ UNCHANGED <<work, submission, job, cache, disk, boots>>
      /\ attempt' \in {attempt, [attempt EXCEPT ![Trial(a)] = "failed"]} /\ Goto(a, "raised")
      /\ faulty' = faulty \cup Broken(a)
  BY DEF Fail, files
<1>3. /\ act' \in [Actors -> Activity] /\ \A b \in Actors \ {a} : act'[b] = act[b]
      /\ act'[a].pc = "raised" /\ act'[a].linked = FALSE /\ act'[a].trial = act[a].trial
  BY <1>2, GotoActs DEF Pcs
<1>4. Knows(a)' /\ Left(a)'
  BY <1>1, <1>3, RaisedKnows
<1>5. attempt' \in [Trials -> RowStates]
      /\ \A t \in Trials : attempt'[t] = "succeeded" => attempt[t] = "succeeded"
  BY <1>1, <1>2 DEF PublicationInv, TypeOK, RowStates, Outcomes
<1>6. (Midway(a) => Trial(a) \in faulty') /\ faulty' \subseteq Trials /\ faulty \subseteq faulty'
  BY <1>1, <1>2 DEF Broken, PublicationInv, TypeOK
<1> QED BY <1>2, <1>3, <1>4, <1>5, <1>6, WriterInv DEF PublicationInv, TypeOK

(* The except clause of execute.                                           *)
LEMMA RaisedInv == ASSUME PublicationInv, NEW a \in Actors, Raised(a) PROVE PublicationInv'
<1>1. act[a] \in Activity /\ Knows(a) /\ At(a, "raised") /\ Trial(a) \in Trials
  BY OfActor DEF Raised, At
<1>2. /\ UNCHANGED <<work, submission, job, cache, disk, faulty, boots>>
      /\ attempt' \in {attempt, [attempt EXCEPT ![Trial(a)] = "failed"]} /\ Leave(a, "raised")
  BY DEF Raised, files
<1>3. /\ act' \in [Actors -> Activity] /\ \A b \in Actors \ {a} : act'[b] = act[b]
      /\ act'[a].pc = (IF a \in Trials THEN "read" ELSE "done") /\ act'[a].linked = FALSE
      /\ act'[a].trial = act[a].trial /\ act'[a].found = "raised"
  BY <1>2, LeaveActs
<1>4. Knows(a)' /\ Left(a)'
  BY <1>1, <1>2, <1>3 DEF Knows, Left, At, Trial, Early, Linking, Midway
<1>5. attempt' \in [Trials -> RowStates]
      /\ \A t \in Trials : attempt'[t] = "succeeded" => attempt[t] = "succeeded"
  BY <1>1, <1>2 DEF PublicationInv, TypeOK, RowStates, Outcomes
<1> QED BY <1>1, <1>2, <1>3, <1>4, <1>5, WriterInv DEF Midway, At, PublicationInv, TypeOK

(* transition_attempt of a published outcome.                              *)
LEMMA WriteRowInv == ASSUME PublicationInv, NEW a \in Actors, WriteRow(a) PROVE PublicationInv'
<1> DEFINE pc == IF a \in Trials THEN "read" ELSE "settle"
<1>1. act[a] \in Activity /\ Knows(a) /\ At(a, "row") /\ Trial(a) \in Trials
  BY OfActor DEF WriteRow, At
<1>2. /\ UNCHANGED <<work, submission, job, cache, disk, faulty, boots>>
      /\ attempt' = [attempt EXCEPT ![Trial(a)] = act[a].found] /\ Goto(a, pc)
  BY DEF WriteRow, files, IsWorker
<1>3. /\ act' \in [Actors -> Activity] /\ \A b \in Actors \ {a} : act'[b] = act[b]
      /\ act'[a].pc = pc /\ act'[a].linked = FALSE
      /\ act'[a].trial = act[a].trial /\ act'[a].found = act[a].found
  <2>1. pc \in Pcs
    BY DEF Pcs
  <2> QED BY <1>2, <2>1, GotoActs
<1>4. act[a].found \in Outcomes /\ (act[a].found = "succeeded" => Backed(Trial(a)))
  BY <1>1 DEF Knows, At
<1>5. Knows(a)' /\ Left(a)'
  BY <1>1, <1>2, <1>3, <1>4 DEF Knows, Left, At, Trial, Early, Linking, Midway, Backed, Outcomes
<1>6. attempt' \in [Trials -> RowStates]
      /\ \A t \in Trials : attempt'[t] = "succeeded" => attempt[t] = "succeeded" \/ Backed(t)
  BY <1>1, <1>2, <1>4 DEF PublicationInv, TypeOK, RowStates
<1> QED BY <1>1, <1>2, <1>3, <1>5, <1>6, WriterInv DEF Midway, At, PublicationInv, TypeOK

(* dispatch_once looks at the work item.                                   *)
LEMMA ReadInv == ASSUME PublicationInv, NEW t \in Trials, Read(t) PROVE PublicationInv'
<1>1. t \in Actors /\ act[t] \in Activity /\ Knows(t) /\ At(t, "read")
  BY OfActor DEF Actors, Read
<1>2. UNCHANGED <<work, attempt, submission, job, cache, disk, faulty, boots>>
  BY DEF Read, files, rows
<1>3. Trial(t) = t /\ act[t].linked = FALSE
  BY <1>1 DEF Knows, At, Linking, Activity
<1>4. /\ act' \in [Actors -> Activity] /\ \A b \in Actors \ {t} : act'[b] = act[b]
      /\ Knows(t)' /\ Left(t)'
  <2>1. CASE Goto(t, "done")
    BY <1>1, <2>1, GotoActs, DoneKnows DEF Pcs
  <2>2. ASSUME NEW outcome \in {"unknown", OutcomeOf(t)},
               act' = [act EXCEPT ![t].pc = "settle", ![t].found = outcome]
        PROVE  /\ act' \in [Actors -> Activity] /\ \A b \in Actors \ {t} : act'[b] = act[b]
               /\ Knows(t)' /\ Left(t)'
    <3>1. outcome \in Outcomes \cup {"unknown"}
          /\ (outcome = "succeeded" => act[t].found = "succeeded")
      BY <1>1 DEF OutcomeOf, Activity, Outcomes
    <3>2. act' \in [Actors -> Activity] /\ \A b \in Actors \ {t} : act'[b] = act[b]
      BY <1>1, <2>2, <3>1 DEF PublicationInv, TypeOK, Activity, Pcs
    <3>3. act'[t].pc = "settle" /\ act'[t].found = outcome /\ act'[t].linked = FALSE
          /\ act'[t].trial = t
      BY <1>1, <1>3, <2>2 DEF PublicationInv, TypeOK, Activity, Trial
    <3>4. Knows(t)' /\ Left(t)'
      BY <1>1, <1>2, <1>3, <3>1, <3>3
         DEF Knows, Left, At, Trial, Early, Linking, Midway, Backed, Outcomes
    <3> QED BY <3>2, <3>4
  <2> QED BY <2>1, <2>2 DEF Read
<1> QED BY <1>1, <1>2, <1>4, WriterInv DEF Midway, At, PublicationInv, TypeOK

(* The rows get the outcome of a worker or of a reconcile.                 *)
LEMMA SettleInv == ASSUME PublicationInv, NEW a \in Actors, Settle(a) PROVE PublicationInv'
<1>1. act[a] \in Activity /\ Knows(a) /\ At(a, "settle") /\ Trial(a) \in Trials
  BY OfActor DEF Settle, At
<1>2. /\ UNCHANGED <<submission, job, cache, disk, faulty, boots>>
      /\ attempt' = [attempt EXCEPT ![Trial(a)] = act[a].found]
      /\ work' = [work EXCEPT ![Trial(a)] = act[a].found] /\ Goto(a, "done")
  BY DEF Settle, files
<1>3. /\ act' \in [Actors -> Activity] /\ \A b \in Actors \ {a} : act'[b] = act[b]
      /\ Knows(a)' /\ Left(a)'
  BY <1>2, GotoActs, DoneKnows DEF Pcs
<1>4. act[a].found \in RowStates /\ (act[a].found = "succeeded" => Backed(Trial(a)))
  BY <1>1 DEF Knows, At, Activity, RowStates
<1>5. attempt' \in [Trials -> RowStates] /\ work' \in [Trials -> RowStates]
      /\ \A t \in Trials : "succeeded" \in {attempt'[t], work'[t]} =>
             "succeeded" \in {attempt[t], work[t]} \/ Backed(t)
  BY <1>1, <1>2, <1>4 DEF PublicationInv, TypeOK
<1> QED BY <1>1, <1>2, <1>3, <1>5, WriterInv DEF Midway, At, PublicationInv, TypeOK

(* _expire_leases moves rows only, and none to success.                    *)
LEMMA ExpireInv == ASSUME PublicationInv, NEW t \in Trials, Expire(t) PROVE PublicationInv'
<1>1. t \in Actors /\ Knows(t) /\ Left(t)
  BY OfActor DEF Actors
<1>2. /\ UNCHANGED <<submission, job, cache, disk, act, faulty, boots>>
      /\ work' = [work EXCEPT ![t] = "unknown"]
      /\ attempt' = [attempt EXCEPT ![t] = IF @ = "running" THEN "unknown" ELSE @]
  BY DEF Expire, files
<1>3. /\ work' \in [Trials -> RowStates] /\ attempt' \in [Trials -> RowStates]
      /\ \A u \in Trials : "succeeded" \in {attempt'[u], work'[u]} =>
             "succeeded" \in {attempt[u], work[u]}
  BY <1>2 DEF PublicationInv, TypeOK, RowStates
<1>4. TypeOK' /\ RowInv'
  <2>1. RowInv'
    BY <1>2, <1>3, RowsKeep DEF PublicationInv
  <2> QED BY <1>2, <1>3, <2>1 DEF PublicationInv, TypeOK
<1>5. Knows(t)' /\ Left(t)'
  BY <1>1, <1>2, OthersKeep
<1>6. Quiet(t)
  BY <1>2 DEF Quiet, JobMoves
<1> QED BY <1>1, <1>4, <1>5, <1>6, QuietInv

(* A kill between two steps; half way through, the trial is faulty.        *)
LEMMA KillInv == ASSUME PublicationInv, NEW a \in Actors, Kill(a) PROVE PublicationInv'
<1>1. Trial(a) \in Trials
  BY OfActor DEF Kill
<1>2. /\ UNCHANGED <<work, attempt, submission, job, cache, disk, boots>>
      /\ Goto(a, "done") /\ faulty' = faulty \cup Broken(a)
  BY DEF Kill, files, rows
<1>3. /\ act' \in [Actors -> Activity] /\ \A b \in Actors \ {a} : act'[b] = act[b]
      /\ Knows(a)' /\ Left(a)'
  BY <1>2, GotoActs, DoneKnows DEF Pcs
<1>4. (Midway(a) => Trial(a) \in faulty') /\ faulty' \subseteq Trials /\ faulty \subseteq faulty'
  BY <1>1, <1>2 DEF Broken, PublicationInv, TypeOK
<1> QED BY <1>2, <1>3, <1>4, WriterInv DEF PublicationInv, TypeOK

-----------------------------------------------------------------------------
(* The steps that write files.  What they have to show is that the files   *)
(* they add stand, and that the trial is finalized, under way or faulty.   *)
LEMMA FileWriterInv ==
    ASSUME PublicationInv, NEW a \in Actors,
           UNCHANGED <<work, attempt, submission, job, faulty, boots>>,
           act' \in [Actors -> Activity], \A b \in Actors \ {a} : act'[b] = act[b],
           cache \subseteq cache', cache' \subseteq Files, disk \subseteq disk', disk' \subseteq cache',
           Knows(a)', Left(a)', OneRecord', \A f \in cache' \ cache : Stands(f)',
           FinalInv', IncompleteNeedsFault'
    PROVE  PublicationInv'
<1>1. TypeOK'
  BY DEF PublicationInv, TypeOK
<1>2. ActorInv'
  <2> SUFFICES ASSUME NEW b \in Actors, b # a PROVE Knows(b)' /\ Left(b)'
    BY DEF ActorInv
  <2>1. Knows(b) /\ Left(b) /\ act'[b] = act[b]
    BY DEF PublicationInv, ActorInv
  <2> QED BY <2>1, OthersKeep
<1>3. FileInv'
  <2>1. ASSUME NEW f \in cache PROVE Stands(f)'
    BY FilesStand DEF PublicationInv, FileInv
  <2> QED BY <2>1 DEF FileInv
<1>4. RowInv'
  BY RowsKeep DEF PublicationInv
<1> QED BY <1>1, <1>2, <1>3, <1>4 DEF PublicationInv

(* materialize_trial_record.                                               *)
LEMMA PublishArtifactsInv ==
    ASSUME PublicationInv, NEW a \in Actors, PublishArtifacts(a) PROVE PublicationInv'
<1>1. act[a] \in Activity /\ Knows(a) /\ At(a, "artifacts") /\ Trial(a) \in Trials
  BY OfActor DEF PublishArtifacts, At
<1>2. /\ UNCHANGED <<work, attempt, submission, job, faulty, boots>> /\ Goto(a, "manifest")
      /\ cache' = cache \cup {Artifacts(Trial(a))} /\ disk' = disk \cup {Artifacts(Trial(a))}
  BY DEF PublishArtifacts, rows, File, Artifacts
<1>3. /\ act' \in [Actors -> Activity] /\ \A b \in Actors \ {a} : act'[b] = act[b]
      /\ act'[a].pc = "manifest" /\ act'[a].linked = FALSE
      /\ act'[a].trial = act[a].trial /\ act'[a].found = act[a].found
  BY <1>2, GotoActs DEF Pcs
<1>4. Artifacts(Trial(a)) \in Files
  BY <1>1 DEF Artifacts, Files, Kinds, Actors
<1>5. cache' \subseteq Files /\ disk' \subseteq cache'
  BY <1>2, <1>4 DEF PublicationInv, TypeOK
<1>6. Knows(a)' /\ Left(a)'
  BY <1>1, <1>2, <1>3 DEF Knows, Left, At, Trial, Early, Linking, Midway, Artifacts
<1>7. OneRecord' /\ \A f \in cache' \ cache : Stands(f)'
  BY <1>2 DEF PublicationInv, FileInv, OneRecord, Stands, Artifacts
<1>8. FinalInv'
  <2> SUFFICES ASSUME NEW f \in cache \ disk, f.kind = "final" PROVE Held(f)'
    BY <1>2 DEF FinalInv
  <2>1. Held(f) /\ f.by \in Actors
    BY DEF PublicationInv, FinalInv, TypeOK, Files
  <2> QED BY <1>1, <1>2, <1>3, <2>1 DEF Held, At, Trial
<1>9. IncompleteNeedsFault'
  <2> SUFFICES ASSUME NEW t \in Trials \ faulty, Present("record", t)', ~Present("final", t)'
               PROVE  \E b \in Actors : Trial(b)' = t /\ Midway(b)'
    BY <1>2 DEF IncompleteNeedsFault
  <2>1. Present("record", t) /\ ~Present("final", t)
    BY <1>2 DEF Present, OfTrial, Artifacts
  <2>2. PICK b \in Actors : Trial(b) = t /\ Midway(b)
    BY <2>1 DEF PublicationInv, IncompleteNeedsFault
  <2> QED BY <1>1, <1>3, <2>2 DEF Midway, At, Trial
<1> QED BY <1>2, <1>3, <1>5, <1>6, <1>7, <1>8, <1>9, FileWriterInv

(* The receipt of an unknown outcome is not terminal.                      *)
LEMMA UnknownReceiptInv ==
    ASSUME PublicationInv, NEW a \in Actors, UnknownReceipt(a) PROVE PublicationInv'
<1> DEFINE f == Receipt(Trial(a), a, "unknown")
<1>1. /\ act[a] \in Activity /\ Knows(a) /\ At(a, "unknown") /\ Trial(a) \in Trials
      /\ act[a].linked = FALSE /\ act[a].found = "unknown"
  BY OfActor DEF UnknownReceipt, At, Knows, Early, Activity
<1>2. UNCHANGED <<work, attempt, submission, job, disk, faulty, boots>>
  BY DEF UnknownReceipt, rows
<1>3. CASE Leave(a, "unknown") /\ UNCHANGED cache
  <2>1. /\ act' \in [Actors -> Activity] /\ \A b \in Actors \ {a} : act'[b] = act[b]
        /\ act'[a].pc = (IF a \in Trials THEN "read" ELSE "done") /\ act'[a].linked = FALSE
        /\ act'[a].trial = act[a].trial /\ act'[a].found = "unknown"
    BY <1>3, LeaveActs
  <2>2. Knows(a)' /\ Left(a)'
    BY <1>1, <1>2, <2>1 DEF Knows, Left, At, Trial, Early, Linking, Midway
  <2> QED BY <1>1, <1>2, <1>3, <2>1, <2>2, WriterInv DEF Midway, At, PublicationInv, TypeOK
<1>4. CASE cache' = cache \cup {File(a, "receipt")} /\ act' = [act EXCEPT ![a].linked = TRUE]
  <2>1. cache' = cache \cup {f} /\ f \in Files
    BY <1>1, <1>4 DEF File, Receipt, Files, Kinds
  <2>2. /\ act' \in [Actors -> Activity] /\ \A b \in Actors \ {a} : act'[b] = act[b]
        /\ act'[a].pc = "unknown" /\ act'[a].linked = TRUE
        /\ act'[a].trial = act[a].trial /\ act'[a].found = act[a].found
    BY <1>1, <1>4 DEF PublicationInv, TypeOK, Activity, At
  <2>3. cache' \subseteq Files /\ disk' \subseteq cache'
    BY <1>2, <2>1 DEF PublicationInv, TypeOK
  <2>4. Knows(a)' /\ Left(a)'
    BY <1>1, <1>2, <2>2 DEF Knows, Left, At, Trial, Early, Linking, Midway
  <2>5. OneRecord' /\ \A g \in cache' \ cache : Stands(g)'
    BY <2>1 DEF PublicationInv, FileInv, OneRecord, Stands, Receipt, Outcomes
  <2>6. FinalInv'
    <3> SUFFICES ASSUME NEW g \in cache \ disk, g.kind = "final" PROVE Held(g)'
      BY <1>2, <2>1 DEF FinalInv, Receipt
    <3>1. Held(g) /\ g.by \in Actors
      BY DEF PublicationInv, FinalInv, TypeOK, Files
    <3> QED BY <1>1, <1>2, <2>2, <3>1 DEF Held, At, Trial
  <2>7. IncompleteNeedsFault'
    <3> SUFFICES ASSUME NEW t \in Trials \ faulty, Present("record", t)', ~Present("final", t)'
                 PROVE  \E b \in Actors : Trial(b)' = t /\ Midway(b)'
      BY <1>2 DEF IncompleteNeedsFault
    <3>1. Present("record", t) /\ ~Present("final", t)
      BY <2>1 DEF Present, OfTrial, Receipt
    <3>2. PICK b \in Actors : Trial(b) = t /\ Midway(b)
      BY <3>1 DEF PublicationInv, IncompleteNeedsFault
    <3> QED BY <1>1, <2>2, <3>2 DEF Midway, At, Trial
  <2> QED BY <1>2, <2>1, <2>2, <2>3, <2>4, <2>5, <2>6, <2>7, FileWriterInv
<1> QED BY <1>3, <1>4 DEF UnknownReceipt

(* os.link.  The name of a record is free, or this is no link: that makes  *)
(* the record unique, and its writer the only one to go on.                *)
LEMMA LinkInv == ASSUME PublicationInv, NEW a \in Actors, Link(a) PROVE PublicationInv'
<1> PICK f : f = File(a, act[a].pc)
  OBVIOUS
<1>1. /\ act[a] \in Activity /\ Knows(a) /\ Left(a) /\ Trial(a) \in Trials
      /\ act[a].pc \in Linking /\ act[a].linked = FALSE
      /\ act[a].found \in Outcomes /\ act[a].found = job[Trial(a)]
  BY OfActor DEF Link, Knows, Linking, Activity
<1>2. /\ UNCHANGED <<work, attempt, submission, job, disk, faulty, boots>>
      /\ cache' = cache \cup {f} /\ act' = [act EXCEPT ![a].linked = TRUE]
      /\ act[a].pc = "receipt" \/ ~Present(act[a].pc, f.trial)
  BY DEF Link, rows
<1>3. /\ act' \in [Actors -> Activity] /\ \A b \in Actors \ {a} : act'[b] = act[b]
      /\ act'[a].pc = act[a].pc /\ act'[a].linked = TRUE
      /\ act'[a].trial = act[a].trial /\ act'[a].found = act[a].found
  BY <1>1, <1>2 DEF PublicationInv, TypeOK, Activity
<1>4. /\ f \in Files /\ f.kind = act[a].pc /\ f.by = a
      /\ f.kind # "manifest" => f.trial = Trial(a)
      /\ f.kind = "record" => f = Record(Trial(a), a)
      /\ f.kind = "receipt" => f = Receipt(Trial(a), a, act[a].found)
      /\ f.kind = "final" => f = Final(Trial(a), a)
  BY <1>1 DEF File, Files, Kinds, Linking, Record, Receipt, Final
<1>5. cache' \subseteq Files /\ disk' \subseteq cache'
  BY <1>2, <1>4 DEF PublicationInv, TypeOK
<1>6. Knows(a)' /\ Left(a)'
  <2>1. Knows(a)'
    BY <1>1, <1>2, <1>3 DEF Knows, At, Trial, Early, Linking, Backed
  <2>2. Left(a)'
    BY <1>1, <1>2, <1>3, <1>4
       DEF Left, At, Trial, Linking, Midway, Artifacts, Record, Receipt, Final
  <2> QED BY <2>1, <2>2
<1>7. OneRecord'
  <2>1. f.kind = "record" => \A g \in cache : g.kind = "record" => g.trial # f.trial
    BY <1>2, <1>4 DEF Present, OfTrial
  <2> QED BY <1>2, <2>1 DEF PublicationInv, FileInv, OneRecord
<1>8. Stands(f)'
  <2>1. CASE f.kind = "receipt"
    BY <1>1, <1>2, <1>4, <2>1 DEF Stands, Left, Record, Receipt
  <2>2. CASE f.kind = "final"
    BY <1>1, <1>2, <1>4, <2>2 DEF Stands, Left, Record, Receipt, Final, Artifacts, At, Linking
  <2>3. CASE f.kind \notin {"receipt", "final"}
    BY <2>3 DEF Stands
  <2> QED BY <2>1, <2>2, <2>3
<1>9. FinalInv'
  <2> SUFFICES ASSUME NEW g \in cache' \ disk, g.kind = "final" PROVE Held(g)'
    BY <1>2 DEF FinalInv
  <2>1. CASE g = f
    BY <1>3, <1>4, <2>1 DEF Held, At, Trial
  <2>2. CASE g \in cache
    <3>1. Held(g) /\ g.by \in Actors
      BY <2>2 DEF PublicationInv, FinalInv, TypeOK, Files
    <3> QED BY <1>1, <1>2, <1>3, <3>1 DEF Held, At, Trial
  <2> QED BY <1>2, <2>1, <2>2
<1>10. IncompleteNeedsFault'
  <2> SUFFICES ASSUME NEW t \in Trials \ faulty, Present("record", t)', ~Present("final", t)'
               PROVE  \E b \in Actors : Trial(b)' = t /\ Midway(b)'
    BY <1>2 DEF IncompleteNeedsFault
  <2>1. CASE f.kind = "record" /\ Trial(a) = t
    BY <1>3, <1>4, <2>1 DEF Midway, At, Trial
  <2>2. CASE ~(f.kind = "record" /\ Trial(a) = t)
    <3>1. Present("record", t) /\ ~Present("final", t)
      BY <1>2, <1>4, <2>2 DEF Present, OfTrial
    <3>2. PICK b \in Actors : Trial(b) = t /\ Midway(b)
      BY <3>1 DEF PublicationInv, IncompleteNeedsFault
    <3> QED BY <1>3, <3>2 DEF Midway, At, Trial
  <2> QED BY <2>1, <2>2
<1> QED BY <1>2, <1>3, <1>5, <1>6, <1>7, <1>8, <1>9, <1>10, FileWriterInv

(* fsync_directory.                                                        *)
LEMMA FlushInv == ASSUME PublicationInv, NEW a \in Actors, Flush(a) PROVE PublicationInv'
<1> DEFINE kind == IF At(a, "unknown") THEN "receipt" ELSE act[a].pc
           next == After(act[a].pc)
<1>1. /\ act[a] \in Activity /\ Knows(a) /\ Left(a) /\ Trial(a) \in Trials
      /\ act[a].pc \in Linking \cup {"unknown"} /\ act[a].linked = TRUE
  BY OfActor DEF Flush, Knows, Linking, Activity
<1>2. /\ UNCHANGED <<work, attempt, submission, job, cache, faulty, boots>>
      /\ disk' = disk \cup {f \in cache : f.kind = kind}
      /\ Goto(a, next)
  BY DEF Flush, rows
<1>3. /\ act[a].pc = "manifest" => next = "record"
      /\ act[a].pc = "record" => next = "receipt"
      /\ act[a].pc = "receipt" => next = "final"
      /\ act[a].pc = "final" => next = "row"
      /\ act[a].pc = "unknown" => next = "unknownRow"
  BY DEF After
<1>4. next \in Pcs
  BY <1>1, <1>3 DEF Linking, Pcs
<1> HIDE DEF next
<1>5. /\ act' \in [Actors -> Activity] /\ \A b \in Actors \ {a} : act'[b] = act[b]
      /\ act'[a].pc = next /\ act'[a].linked = FALSE
      /\ act'[a].trial = act[a].trial /\ act'[a].found = act[a].found
  BY <1>2, <1>4, GotoActs
<1>6. cache' \subseteq Files /\ disk \subseteq disk' /\ disk' \subseteq cache'
  BY <1>2 DEF PublicationInv, TypeOK
<1>7. /\ act[a].pc = "record" => Record(Trial(a), a) \in disk'
      /\ act[a].pc = "receipt" => Receipt(Trial(a), a, act[a].found) \in disk'
  BY <1>1, <1>2 DEF Left, Midway, At, Record, Receipt
<1>8. Left(a)'
  BY <1>1, <1>3, <1>5, <1>6, <1>7 DEF Left, At, Trial, Linking, Midway, Artifacts, Record, Receipt
<1>9. Knows(a)'
  <2>1. next = "row" /\ act[a].found = "succeeded" => Backed(Trial(a))
    BY <1>1, <1>3 DEF Left, Backed, Knows, At, Linking
  <2> QED BY <1>1, <1>2, <1>3, <1>5, <1>6, <2>1 DEF Knows, At, Trial, Early, Linking, Backed
<1>10. OneRecord'
  BY <1>2 DEF PublicationInv, FileInv, OneRecord
<1>11. FinalInv'
  <2> SUFFICES ASSUME NEW f \in cache \ disk, f.kind = "final", act[a].pc # "final" PROVE Held(f)'
    BY <1>2, <1>6 DEF FinalInv, At
  <2>1. Held(f) /\ f.by \in Actors
    BY DEF PublicationInv, FinalInv, TypeOK, Files
  <2> QED BY <1>2, <1>5, <2>1 DEF Held, At, Trial
<1>12. IncompleteNeedsFault'
  <2> SUFFICES ASSUME NEW t \in Trials \ faulty, Present("record", t), ~Present("final", t)
               PROVE  \E b \in Actors : Trial(b)' = t /\ Midway(b)'
    BY <1>2 DEF IncompleteNeedsFault, Present, OfTrial
  <2>1. PICK b \in Actors : Trial(b) = t /\ Midway(b)
    BY DEF PublicationInv, IncompleteNeedsFault
  <2>2. CASE b # a
    BY <1>5, <2>1, <2>2 DEF Midway, At, Trial
  <2>3. CASE b = a
    <3>1. act[a].pc # "final"
      BY <1>1, <2>1, <2>3 DEF Left, At, Final, Present, OfTrial
    <3> QED BY <1>3, <1>5, <2>1, <2>3, <3>1 DEF Midway, At, Trial
  <2> QED BY <2>2, <2>3
<1> QED BY <1>2, <1>5, <1>6, <1>8, <1>9, <1>10, <1>11, <1>12, FileWriterInv

-----------------------------------------------------------------------------
(* A power loss takes names from the cache that were not on the disk, and  *)
(* every process but the resumes to come.                                  *)
LEMMA PowerLossInv == ASSUME PublicationInv, PowerLoss PROVE PublicationInv'
<1>1. /\ UNCHANGED <<work, attempt, submission, job>>
      /\ cache' \subseteq cache /\ disk \subseteq cache' /\ disk' = cache'
      /\ faulty' = faulty \cup UNION {Broken(a) : a \in Actors}
      /\ boots' \in 0 .. MaxBoots
  <2>1. PICK lost \in SUBSET (cache \ disk) : cache' = cache \ lost
    BY DEF PowerLoss
  <2>2. boots' \in 0 .. MaxBoots
    <3>1. boots \in 0 .. MaxBoots /\ boots < MaxBoots /\ boots' = boots + 1
      BY DEF PowerLoss, PublicationInv, TypeOK
    <3> QED BY <3>1, PublicationConstants
  <2> QED BY <2>1, <2>2 DEF PowerLoss, rows, PublicationInv, TypeOK
<1>2. ASSUME NEW a \in Actors
      PROVE  /\ act'[a] \in Activity
             /\ \/ a \in Resumes /\ At(a, "idle") /\ act'[a] = act[a]
                \/ act'[a].pc = "done" /\ act'[a].linked = FALSE
  <2>1. act[a] \in Activity
    BY OfActor
  <2>2. act'[a] = IF a \in Resumes /\ At(a, "idle") THEN act[a]
                  ELSE [act[a] EXCEPT !.pc = "done", !.linked = FALSE]
    BY DEF PowerLoss
  <2> QED BY <2>1, <2>2 DEF Activity, Pcs
<1>3. \A a \in Actors : Broken(a) \subseteq faulty' /\ (Midway(a) => Trial(a) \in faulty')
  BY <1>1 DEF Broken
<1>4. faulty' \subseteq Trials
  <2>1. \A a \in Actors : Midway(a) => Trial(a) \in Trials
    BY OfActor DEF Midway, At
  <2> QED BY <1>1, <2>1 DEF Broken, PublicationInv, TypeOK
<1>5. TypeOK'
  <2>1. act' = [a \in Actors |-> act'[a]]
    BY DEF PowerLoss
  <2>2. act' \in [Actors -> Activity]
    BY <1>2, <2>1
  <2> QED BY <1>1, <1>4, <2>2 DEF PublicationInv, TypeOK
<1>6. ActorInv'
  <2> SUFFICES ASSUME NEW a \in Actors PROVE Knows(a)' /\ Left(a)'
    BY DEF ActorInv
  <2>1. CASE act'[a].pc = "done" /\ act'[a].linked = FALSE
    BY <2>1, DoneKnows
  <2>2. CASE a \in Resumes /\ At(a, "idle") /\ act'[a] = act[a]
    <3>1. a \notin Trials /\ Knows(a) /\ act[a].pc = "idle"
      BY <2>2, OfActor, PublicationConstants DEF At
    <3> QED BY <2>2, <3>1 DEF Knows, Left, At, Early, Linking, Midway
  <2> QED BY <1>2, <2>1, <2>2
<1>7. FileInv'
  <2>1. disk \subseteq disk' /\ OneRecord'
    BY <1>1 DEF PublicationInv, FileInv, OneRecord
  <2>2. ASSUME NEW f \in cache' PROVE Stands(f)'
    BY <1>1, <2>1, FilesStand DEF PublicationInv, FileInv
  <2> QED BY <2>1, <2>2 DEF FileInv
<1>8. FinalInv'
  BY <1>1 DEF FinalInv
<1>9. RowInv'
  BY <1>1, RowsKeep DEF PublicationInv
<1>10. IncompleteNeedsFault'
  <2> SUFFICES ASSUME NEW t \in Trials, Present("record", t)', ~Present("final", t)'
               PROVE  t \in faulty'
    BY DEF IncompleteNeedsFault
  <2>1. CASE Present("final", t)
    <3>1. PICK f \in cache : f.kind = "final" /\ f.trial = t
      BY <2>1 DEF Present, OfTrial
    <3>2. f \notin cache' /\ f.by \in Actors
      BY <3>1 DEF Present, OfTrial, PublicationInv, TypeOK, Files
    <3>3. Held(f)
      BY <1>1, <3>1, <3>2 DEF PublicationInv, FinalInv
    <3> QED BY <1>1, <1>3, <3>1, <3>2, <3>3 DEF Held, Midway, At
  <2>2. CASE ~Present("final", t)
    <3>1. Present("record", t)
      BY <1>1 DEF Present, OfTrial
    <3>2. t \in faulty \/ \E a \in Actors : Trial(a) = t /\ Midway(a)
      BY <2>2, <3>1 DEF PublicationInv, IncompleteNeedsFault
    <3> QED BY <1>1, <1>3, <3>2
  <2> QED BY <2>1, <2>2
<1> QED BY <1>5, <1>6, <1>7, <1>8, <1>9, <1>10 DEF PublicationInv

(* The invariant at the beginning: no submission, no job, no file.         *)
LEMMA PublicationInit == Init => PublicationInv
<1> SUFFICES ASSUME Init PROVE PublicationInv
  OBVIOUS
<1>1. TypeOK
  BY PublicationConstants DEF Init, TypeOK, RowStates, Activity, Idle, Pcs
<1>2. ActorInv
  BY DEF Init, ActorInv, Knows, Left, Idle, At, Trial, Early, Linking, Midway, Actors
<1>3. FileInv /\ FinalInv
  BY DEF Init, FileInv, OneRecord, FinalInv
<1>4. RowInv
  BY DEF Init, RowInv
<1>5. IncompleteNeedsFault
  BY DEF Init, IncompleteNeedsFault, Present, OfTrial
<1> QED BY <1>1, <1>2, <1>3, <1>4, <1>5 DEF PublicationInv

(* Every step keeps it.                                                    *)
LEMMA PublicationStep == PublicationInv /\ [Next]_vars => PublicationInv'
<1> SUFFICES ASSUME PublicationInv, [Next]_vars PROVE PublicationInv'
  OBVIOUS
<1>1. ASSUME NEW a \in Actors, Backend(a) PROVE PublicationInv'
  <2>1. CASE Collect(a) \/ UnknownReceipt(a) \/ UnknownRow(a)
    BY <2>1, CollectInv, UnknownReceiptInv, UnknownRowInv
  <2>2. CASE PublishArtifacts(a) \/ ManifestExists(a) \/ Link(a) \/ Flush(a)
    BY <2>2, PublishArtifactsInv, ManifestExistsInv, LinkInv, FlushInv
  <2>3. CASE Duplicate(a) \/ Fail(a) \/ Raised(a)
    BY <2>3, DuplicateInv, FailInv, RaisedInv
  <2>4. CASE WriteRow(a) \/ Settle(a) \/ Kill(a)
    BY <2>4, WriteRowInv, SettleInv, KillInv
  <2> QED BY <1>1, <2>1, <2>2, <2>3, <2>4 DEF Backend
<1>2. ASSUME NEW t \in Trials, Execute(t) \/ Submit(t) \/ JobEnds(t) \/ Read(t) \/ Expire(t)
      PROVE  PublicationInv'
  BY <1>2, ExecuteInv, SubmitInv, JobEndsInv, ReadInv, ExpireInv
<1>3. CASE UNCHANGED vars
  <2> USE <1>3 DEF vars
  <2>1. TypeOK' /\ FileInv' /\ FinalInv'
    BY DEF PublicationInv, TypeOK, FileInv, OneRecord, Stands, FinalInv, Held, At, Trial
  <2>2. ActorInv'
    BY DEF PublicationInv, ActorInv, Knows, Left, Backed, Midway, At, Trial
  <2>3. RowInv' /\ IncompleteNeedsFault'
    BY DEF PublicationInv, RowInv, Backed, IncompleteNeedsFault, Present, OfTrial, Midway, At, Trial
  <2> QED BY <2>1, <2>2, <2>3 DEF PublicationInv
<1> QED BY <1>1, <1>2, <1>3, ReconcileInv, PowerLossInv DEF Next

(* PublicationInv is an invariant.                                         *)
LEMMA PublicationInvariant == Spec => []PublicationInv
BY PublicationInit, PublicationStep, PTL DEF Spec

-----------------------------------------------------------------------------
(* Rows, files and the activities of the publishers have their types: no   *)
(* row is given what a worker raised, and nothing is on the disk that is   *)
(* not in the cache.                                                       *)
THEOREM PublicationTypes == Spec => []TypeOK
<1>1. PublicationInv => TypeOK
  BY DEF PublicationInv
<1> QED BY <1>1, PublicationInvariant, PTL

(* A file under the name of another one of its publisher.                  *)
LEMMA Renamed ==
    ASSUME NEW f \in Files, NEW k \in Kinds, NEW x
    PROVE  /\ [f EXCEPT !.kind = k]
                = [kind |-> k, trial |-> f.trial, by |-> f.by, status |-> f.status]
           /\ [f EXCEPT !.kind = k, !.by = x]
                = [kind |-> k, trial |-> f.trial, by |-> x, status |-> f.status]
           /\ [f EXCEPT !.kind = k, !.status = x]
                = [kind |-> k, trial |-> f.trial, by |-> f.by, status |-> x]
<1>1. PICK g : g = [f EXCEPT !.kind = k]
  OBVIOUS
<1>2. g = [kind |-> k, trial |-> f.trial, by |-> f.by, status |-> f.status] /\ g \in Files
  BY <1>1 DEF Files
<1>3. /\ [f EXCEPT !.kind = k, !.by = x] = [g EXCEPT !.by = x]
      /\ [f EXCEPT !.kind = k, !.status = x] = [g EXCEPT !.status = x]
  BY <1>1
<1>4. [g EXCEPT !.by = x] = [kind |-> g.kind, trial |-> g.trial, by |-> x, status |-> g.status]
  BY <1>2 DEF Files
<1>5. [g EXCEPT !.status = x] = [kind |-> g.kind, trial |-> g.trial, by |-> g.by, status |-> x]
  BY <1>2 DEF Files
<1> QED BY <1>1, <1>2, <1>3, <1>4, <1>5

(* However many processes publish a trial, and whatever error, kill or     *)
(* power loss meets them, a finalization stands on record, receipt and     *)
(* artifacts of its own publisher that are on the disk.                    *)
THEOREM FinalizationsStand == Spec => []FinalizedHasEvidence
<1>1. PublicationInv => FinalizedHasEvidence
  <2> SUFFICES ASSUME PublicationInv, NEW f \in cache, f.kind = "final"
               PROVE  /\ [f EXCEPT !.kind = "record"] \in disk
                      /\ [f EXCEPT !.kind = "artifacts", !.by = f.trial] \in disk
                      /\ \E o \in Outcomes : [f EXCEPT !.kind = "receipt", !.status = o] \in disk
    BY DEF FinalizedHasEvidence
  <2>1. Stands(f) /\ f \in Files
    BY DEF PublicationInv, FileInv, TypeOK
  <2>2. /\ [f EXCEPT !.kind = "record"] = Record(f.trial, f.by)
        /\ [f EXCEPT !.kind = "artifacts", !.by = f.trial] = Artifacts(f.trial)
        /\ \A o \in Outcomes : [f EXCEPT !.kind = "receipt", !.status = o] = Receipt(f.trial, f.by, o)
    <3>1. f.status = "unknown" /\ {"record", "artifacts", "receipt"} \subseteq Kinds
      BY <2>1 DEF Stands, Kinds
    <3>2. [f EXCEPT !.kind = "record"] = Record(f.trial, f.by)
      BY <2>1, <3>1, Renamed DEF Record
    <3>3. [f EXCEPT !.kind = "artifacts", !.by = f.trial] = Artifacts(f.trial)
      <4>1. PICK x : x = f.trial
        OBVIOUS
      <4>2. [f EXCEPT !.kind = "artifacts", !.by = x]
              = [kind |-> "artifacts", trial |-> f.trial, by |-> x, status |-> f.status]
        BY <2>1, <3>1, Renamed
      <4> QED BY <3>1, <4>1, <4>2 DEF Artifacts
    <3>4. ASSUME NEW o \in Outcomes
          PROVE  [f EXCEPT !.kind = "receipt", !.status = o] = Receipt(f.trial, f.by, o)
      BY <2>1, <3>1, Renamed DEF Receipt
    <3> QED BY <3>2, <3>3, <3>4
  <2> QED BY <2>1, <2>2 DEF Stands
<1> QED BY <1>1, PublicationInvariant, PTL

(* Publishers that race leave one terminal receipt at most, the one that   *)
(* reconcile insists on, and it has the outcome of the job.                *)
THEOREM TerminalReceiptsAreUnique == Spec => []OneTerminalReceipt
<1>1. PublicationInv => OneTerminalReceipt
  <2> SUFFICES ASSUME PublicationInv, NEW t \in Trials
               PROVE  /\ Cardinality(Terminal(t)) <= 1
                      /\ \A f \in Terminal(t) : f.status = job[t]
    BY DEF OneTerminalReceipt
  <2>1. ASSUME NEW f \in Terminal(t)
        PROVE  f.status = job[t] /\ Record(t, f.by) \in cache /\ f = Receipt(t, f.by, job[t])
    <3>1. f \in cache /\ f.kind = "receipt" /\ f.trial = t /\ f.status \in Outcomes
      BY DEF Terminal, OfTrial
    <3>2. Stands(f) /\ f \in Files
      BY <3>1 DEF PublicationInv, FileInv, TypeOK
    <3> QED BY <3>1, <3>2 DEF Stands, Files, Receipt, PublicationInv, TypeOK
  <2>2. ASSUME NEW f \in Terminal(t), NEW g \in Terminal(t) PROVE f = g
    <3>1. Record(t, f.by) = Record(t, g.by)
      BY <2>1 DEF PublicationInv, FileInv, OneRecord, Record
    <3>2. f.by = g.by
      BY <3>1 DEF Record
    <3> QED BY <2>1, <3>2
  <2>3. Cardinality(Terminal(t)) <= 1
    <3>1. CASE Terminal(t) = {}
      BY <3>1, FS_EmptySet
    <3>2. ASSUME NEW f \in Terminal(t) PROVE Cardinality(Terminal(t)) = 1
      <4>1. Terminal(t) = {f}
        BY <2>2
      <4> QED BY <4>1, FS_Singleton
    <3> QED BY <3>1, <3>2
  <2> QED BY <2>1, <2>3
<1> QED BY <1>1, PublicationInvariant, PTL

(* A row that says succeeded, whoever wrote it, tells of a job that        *)
(* succeeded and of a record and a receipt by one publisher on the disk.   *)
THEOREM SuccessIsBacked == Spec => []SuccessHasEvidence
<1>1. PublicationInv => SuccessHasEvidence
  <2> SUFFICES ASSUME PublicationInv, NEW t \in Trials, "succeeded" \in {attempt[t], work[t]}
               PROVE  /\ job[t] = "succeeded"
                      /\ \E f \in disk :
                            /\ f.kind = "record" /\ f.trial = t
                            /\ [f EXCEPT !.kind = "receipt", !.status = "succeeded"] \in disk
    BY DEF SuccessHasEvidence
  <2>1. Backed(t)
    BY DEF PublicationInv, RowInv
  <2>2. PICK b \in Actors : Record(t, b) \in disk /\ Receipt(t, b, "succeeded") \in disk
    BY <2>1 DEF Backed
  <2>3. /\ Record(t, b).kind = "record" /\ Record(t, b).trial = t
        /\ [Record(t, b) EXCEPT !.kind = "receipt", !.status = "succeeded"] = Receipt(t, b, "succeeded")
    <3>1. Record(t, b) \in Files
      BY <2>2 DEF PublicationInv, TypeOK
    <3> QED BY <3>1, Renamed DEF Record, Receipt, Kinds
  <2> QED BY <2>1, <2>2, <2>3 DEF Backed
<1> QED BY <1>1, PublicationInvariant, PTL

(* A publication that reconcile refuses for ever was broken off between    *)
(* record and finalization: races alone never leave one.                   *)
THEOREM IncompleteIsFaulty == Spec => []IncompleteNeedsFault
<1>1. PublicationInv => IncompleteNeedsFault
  BY DEF PublicationInv
<1> QED BY <1>1, PublicationInvariant, PTL
=============================================================================
