------------------------- MODULE LifecycleRunProofs -------------------------
(***************************************************************************)
(* Proofs about a lifecycle run: that every file system that a kill may    *)
(* leave can be loaded, that evidence is released within its budget, that  *)
(* checkpoints are accepted in order, and that what was accepted stands.   *)
(***************************************************************************)
EXTENDS LifecycleRun, FiniteSetTheorems, SequenceTheorems, TLAPS

Optional == Contents \cup {Nothing}

(* The files of a run.  The inbox and the files of the attempts' sessions  *)
(* are of no concern to what is proved here.                               *)
FilesOK(f) ==
    /\ f \in [exists : BOOLEAN, state : States, tx : Seq(RequestActions), committed : SUBSET Nat,
              inbox : {f.inbox}, moves : Seq(Nat), asks : Seq(Nat), work : [Steps -> Optional],
              archive : [Steps -> Optional], kept : {f.kept}, req : {f.req}, res : {f.res},
              aside : {f.aside}]
    /\ f.committed \subseteq DOMAIN f.tx

(* The state holds all transactions, or all but the last.                  *)
History(f) ==
    /\ Len(f.tx) \in {Len(f.state.actions), Len(f.state.actions) + 1}
    /\ \A i \in DOMAIN f.state.actions : f.tx[i] = f.state.actions[i]

(* A transaction that the state lacks is of the active checkpoint, and     *)
(* fits the state.                                                         *)
Pending(f) ==
    Len(f.tx) # Len(f.state.actions) =>
        LET a == f.tx[Len(f.tx)]
        IN /\ a.cp = f.state.active
           /\ RollsForward(f.state, a)
           /\ a.outcome = "released" => a.before > 0

Accounted(s) ==
    \A cp \in Steps : s.cps[cp].budget + Cardinality(ReleasedAt(s.actions, cp)) = RequestBudget

Prerequired(txs) ==
    \A cp \in Steps :
        LET r == ReleasedAt(txs, cp)
        IN /\ \A i, j \in r : txs[i].req = txs[j].req => i = j
           /\ \A i \in r : Prerequisites[txs[i].req] \subseteq {txs[j].req : j \in {k \in r : k < i}}

(* The ledgers were written in order, and not ahead of the state.          *)
Upto(n) == [i \in 1 .. n |-> i]
Ledgers(f) ==
    /\ f.moves = Upto(Len(f.moves)) /\ Len(f.moves) <= f.state.transitions
    /\ f.asks = Upto(Len(f.asks)) /\ Len(f.asks) <= Len(f.state.actions)

Blank(f) == f.state = NewState /\ f.tx = <<>> /\ f.moves = <<>> /\ f.asks = <<>>

FilesInv(f) ==
    /\ FilesOK(f) /\ History(f) /\ Pending(f) /\ Accounted(f.state) /\ Prerequired(f.tx)
    /\ Ledgers(f) /\ Ordered(f.state) /\ Archives(f)
    /\ ~f.exists => Blank(f)

Labels == {"idle", "release", "recover", "again", "preserve", "prepare", "open", "execute", "result",
           "submit", "close", "fail", "keep"}
Opens == {"open", "execute", "result", "submit", "close", "fail", "keep"}
HostRecords ==
    [pc : Labels, ctx : [cp : 0 .. Checkpoints, attempts : Seq(Attempts), view : Views],
     session : Sessions \cup {<<0, 0>>}, result : {"none", "failed", "completed"}]

HostOK ==
    /\ host \in [Hosts -> HostRecords]
    /\ \A h \in Hosts : /\ host[h].pc \notin {"idle", "release"} => host[h].ctx.cp # 0
                        /\ host[h].pc \in Opens => host[h].session \in Sessions

TallyOK == tally \in [started : 0 .. MaxRuns, disturbed : 0 .. MaxDisturbances, kills : 0 .. MaxKills]

(* As long as nothing was disturbed, one host at most is in a call, and    *)
(* its context is of the checkpoint that is active.                        *)
SoleHost ==
    tally.disturbed = 0 =>
        /\ \A g, h \in Hosts : ~At(g, "idle") /\ ~At(h, "idle") => g = h
        /\ \A h \in Hosts :
              host[h].pc \notin {"idle", "release"} => host[h].ctx.cp = fs.state.active
        /\ PriorUnchanged(fs)

LifecycleInv == FilesInv(fs) /\ HostOK /\ TallyOK /\ SoleHost

-----------------------------------------------------------------------------
(* Sequences of writes.                                                    *)

(* g is a file system that writes under the lock make of f: the workspace  *)
(* and what was accepted stand, and what is accepted is in the workspace.  *)
Grew(f, g) ==
    /\ FilesInv(g)
    /\ g.work = f.work
    /\ \A cp \in Submitted(f.state) :
          /\ cp \in Submitted(g.state)
          /\ g.state.cps[cp] = f.state.cps[cp]
          /\ g.archive[cp] = f.archive[cp]
    /\ \A cp \in Submitted(g.state) \ Submitted(f.state) : g.state.cps[cp].sub = g.work[cp]

Writes(f, steps) == \E S : steps \in Seq(S) /\ \A g \in S : Grew(f, g)
Path(f, steps) == Writes(f, steps) /\ steps # <<>>

(* Throughout the writes the same checkpoint a is active.                  *)
Steady(a, steps) == \E S : steps \in Seq(S) /\ \A g \in S : g.state.active = a

(* A file system is made of itself by no write.                            *)
LEMMA GrewItself == ASSUME NEW f, FilesInv(f) PROVE Grew(f, f)
BY DEF Grew

(* Writes after writes are writes.                                         *)
LEMMA GrewTransitive ==
    ASSUME NEW f, NEW g, NEW k, Grew(f, g), Grew(g, k) PROVE Grew(f, k)
BY DEF Grew

(* The last element of a sequence is the one at its length.                *)
LEMMA LastOf ==
    ASSUME NEW S, NEW steps \in Seq(S), steps # <<>>
    PROVE  Len(steps) \in Nat \ {0} /\ Last(steps) = steps[Len(steps)] /\ Last(steps) \in S
BY DEF Last

(* A path's last file system is made by its writes, as is every one of it. *)
LEMMA PathElements ==
    ASSUME NEW f, NEW steps, Path(f, steps)
    PROVE  /\ Grew(f, Last(steps))
           /\ \A i \in 1 .. Len(steps) - 1 : Grew(f, steps[i])
<1>1. PICK S : steps \in Seq(S) /\ \A g \in S : Grew(f, g)
  BY DEF Path, Writes
<1>2. steps # <<>>
  BY DEF Path
<1>3. Last(steps) \in S /\ Len(steps) \in Nat
  BY <1>1, <1>2, LastOf
<1>4. \A i \in 1 .. Len(steps) - 1 : steps[i] \in S
  BY <1>1, <1>3
<1>. QED BY <1>1, <1>3, <1>4

(* So it is at each of them, and in sequences of them.                     *)
LEMMA SteadyElements ==
    ASSUME NEW a, NEW steps, Steady(a, steps), steps # <<>>
    PROVE  /\ Last(steps).state.active = a
           /\ \A i \in 1 .. Len(steps) - 1 : steps[i].state.active = a
<1>1. PICK S : steps \in Seq(S) /\ \A g \in S : g.state.active = a
  BY DEF Steady
<1>2. Last(steps) \in S /\ Len(steps) \in Nat
  BY <1>1, LastOf
<1>3. \A i \in 1 .. Len(steps) - 1 : steps[i] \in S
  BY <1>1, <1>2
<1>. QED BY <1>1, <1>2, <1>3

(* One sequence of such file systems after another ...                     *)
LEMMA SteadyThen ==
    ASSUME NEW a, NEW steps, NEW more, Steady(a, steps), Steady(a, more)
    PROVE  Steady(a, steps \o more)
<1>1. PICK S : steps \in Seq(S) /\ \A g \in S : g.state.active = a
  BY DEF Steady
<1>2. PICK T : more \in Seq(T) /\ \A g \in T : g.state.active = a
  BY DEF Steady
<1>3. steps \in Seq(S \cup T) /\ more \in Seq(S \cup T)
  BY <1>1, <1>2
<1>4. steps \o more \in Seq(S \cup T)
  BY <1>3
<1>. QED BY <1>1, <1>2, <1>4 DEF Steady

(* ... one more file system at the end ...                                 *)
LEMMA SteadyAppend ==
    ASSUME NEW a, NEW steps, NEW g, Steady(a, steps), g.state.active = a
    PROVE  Steady(a, Append(steps, g))
<1>1. PICK S : steps \in Seq(S) /\ \A k \in S : k.state.active = a
  BY DEF Steady
<1>2. steps \in Seq(S \cup {g})
  BY <1>1
<1>3. Append(steps, g) \in Seq(S \cup {g})
  BY <1>2
<1>. QED BY <1>1, <1>3 DEF Steady

(* ... and a single write.                                                 *)
LEMMA SteadyOne ==
    ASSUME NEW a, NEW g, g.state.active = a
    PROVE  Steady(a, <<g>>)
<1>1. PICK S : S = {g}
  OBVIOUS
<1>2. PICK steps : steps = <<g>>
  OBVIOUS
<1>3. steps \in Seq(S) /\ \A k \in S : k.state.active = a
  BY <1>1, <1>2
<1>. QED BY <1>2, <1>3 DEF Steady

(* A path of one write.                                                    *)
LEMMA PathOne ==
    ASSUME NEW f, NEW g, Grew(f, g)
    PROVE  Path(f, <<g>>) /\ Last(<<g>>) = g
<1>1. PICK S : S = {g}
  OBVIOUS
<1>2. PICK steps : steps = <<g>>
  OBVIOUS
<1>3. steps \in Seq(S) /\ steps # <<>>
  BY <1>1, <1>2
<1>4. \A k \in S : Grew(f, k)
  BY <1>1
<1>5. Path(f, steps)
  BY <1>3, <1>4 DEF Path, Writes
<1>6. Last(<<g>>) = g
  BY DEF Last
<1>. QED BY <1>2, <1>5, <1>6

(* A path goes on with the writes made of its last file system.            *)
LEMMA PathThen ==
    ASSUME NEW f, NEW steps, NEW more, Path(f, steps), Writes(Last(steps), more)
    PROVE  /\ Path(f, steps \o more)
           /\ more = <<>> => Last(steps \o more) = Last(steps)
           /\ more # <<>> => Last(steps \o more) = Last(more)
<1>1. PICK S : steps \in Seq(S) /\ \A g \in S : Grew(f, g)
  BY DEF Path, Writes
<1>2. PICK T : more \in Seq(T) /\ \A g \in T : Grew(Last(steps), g)
  BY DEF Writes
<1>3. steps # <<>> /\ Grew(f, Last(steps))
  BY PathElements DEF Path
<1>4. \A g \in S \cup T : Grew(f, g)
  BY <1>1, <1>2, <1>3, GrewTransitive
<1>5. steps \in Seq(S \cup T) /\ more \in Seq(S \cup T)
  BY <1>1, <1>2
<1>6. steps \o more \in Seq(S \cup T) /\ steps \o more # <<>>
  BY <1>3, <1>5
<1>7. Path(f, steps \o more)
  BY <1>4, <1>6 DEF Path, Writes
<1>8. ASSUME more = <<>> PROVE Last(steps \o more) = Last(steps)
  BY <1>5, <1>8
<1>9. ASSUME more # <<>> PROVE Last(steps \o more) = Last(more)
  <2>1. Last(steps \o more) = (steps \o more)[Len(steps \o more)]
    BY <1>6, LastOf
  <2>2. Last(more) = more[Len(more)] /\ Len(more) \in Nat \ {0}
    BY <1>5, <1>9, LastOf
  <2>3. Len(steps \o more) = Len(steps) + Len(more) /\ Len(steps) \in Nat
    BY <1>5
  <2>4. (steps \o more)[Len(steps) + Len(more)] = more[Len(more)]
    BY <1>5, <2>2, <2>3
  <2>. QED BY <2>1, <2>2, <2>3, <2>4
<1>. QED BY <1>7, <1>8, <1>9

(* A path goes on with a path.                                             *)
LEMMA PathPath ==
    ASSUME NEW f, NEW steps, NEW more, Path(f, steps), Path(Last(steps), more)
    PROVE  Path(f, steps \o more) /\ Last(steps \o more) = Last(more)
<1>1. Writes(Last(steps), more) /\ more # <<>>
  BY DEF Path
<1>. QED BY <1>1, PathThen

(* A path goes on with a write.                                            *)
LEMMA PathAppend ==
    ASSUME NEW f, NEW steps, NEW g, Path(f, steps), Grew(Last(steps), g)
    PROVE  Path(f, Append(steps, g)) /\ Last(Append(steps, g)) = g
<1>1. Path(Last(steps), <<g>>) /\ Last(<<g>>) = g
  BY PathOne
<1>2. Append(steps, g) = steps \o <<g>>
  <2>1. PICK S : steps \in Seq(S)
    BY DEF Path, Writes
  <2>2. steps \in Seq(S \cup {g})
    BY <2>1
  <2>. QED BY <2>2, AppendIsConcat
<1>. QED BY <1>1, <1>2, PathPath

(* A path may begin before its first write.                                *)
LEMMA PathBefore ==
    ASSUME NEW f, NEW g, NEW steps, Grew(f, g), Path(g, steps)
    PROVE  Path(f, steps)
<1>1. PICK S : steps \in Seq(S) /\ \A k \in S : Grew(g, k)
  BY DEF Path, Writes
<1>2. \A k \in S : Grew(f, k)
  BY <1>1, GrewTransitive
<1>. QED BY <1>1, <1>2 DEF Path, Writes

-----------------------------------------------------------------------------
(* Ledgers and histories.                                                  *)

(* What the first n numbers are, as a sequence.                            *)
LEMMA UptoProperties ==
    ASSUME NEW n \in Nat
    PROVE  Upto(n) \in Seq(Nat) /\ Len(Upto(n)) = n /\ ToSet(Upto(n)) = 1 .. n
<1>1. Upto(n) \in [1 .. n -> Nat]
  BY DEF Upto
<1>2. Upto(n) \in Seq(Nat) /\ Len(Upto(n)) = n
  BY <1>1
<1>3. ToSet(Upto(n)) = 1 .. n
  BY DEF ToSet, Upto
<1>. QED BY <1>2, <1>3

(* How many numbers there are from one to another.                         *)
LEMMA CountBetween ==
    ASSUME NEW a \in Int, NEW b \in Int, a <= b + 1
    PROVE  IsFiniteSet(a .. b) /\ Cardinality(a .. b) = b - a + 1
<1>1. IsFiniteSet(a .. b) /\ Cardinality(a .. b) = IF a > b THEN 0 ELSE b - a + 1
  BY FS_Interval
<1>. QED BY <1>1

(* What a ledger of the first m entries lacks is the entries after them.   *)
LEMMA MissingUpto ==
    ASSUME NEW m \in Nat, NEW n \in Nat, m <= n
    PROVE  Missing(Upto(m), n) = [k \in 1 .. (n - m) |-> m + k]
<1>. DEFINE gap == (1 .. n) \ ToSet(Upto(m))
<1>1. gap = (m + 1) .. n
  BY UptoProperties
<1>2. Cardinality(gap) = n - m
  <2>1. m + 1 \in Int /\ n \in Int /\ m + 1 <= n + 1 /\ n - (m + 1) + 1 = n - m
    OBVIOUS
  <2>2. Cardinality((m + 1) .. n) = n - (m + 1) + 1
    BY <2>1, CountBetween
  <2>. QED BY <1>1, <2>1, <2>2
<1>3. ASSUME NEW k \in 1 .. (n - m)
      PROVE  (CHOOSE i \in gap : Cardinality({j \in gap : j < i}) = k - 1) = m + k
  <2>1. ASSUME NEW i \in gap PROVE Cardinality({j \in gap : j < i}) = i - 1 - m
    <3>1. {j \in gap : j < i} = (m + 1) .. (i - 1)
      BY <1>1
    <3>2. Cardinality((m + 1) .. (i - 1)) = i - 1 - m
      <4>1. /\ m + 1 \in Int /\ i - 1 \in Int /\ m + 1 <= (i - 1) + 1
            /\ (i - 1) - (m + 1) + 1 = i - 1 - m
        BY <1>1
      <4>2. Cardinality((m + 1) .. (i - 1)) = (i - 1) - (m + 1) + 1
        BY <4>1, CountBetween
      <4>. QED BY <4>1, <4>2
    <3>. QED BY <3>1, <3>2
  <2>2. m + k \in gap
    BY <1>1
  <2>3. \A i \in gap : Cardinality({j \in gap : j < i}) = k - 1 <=> i = m + k
    BY <1>1, <2>1
  <2>. QED BY <2>2, <2>3
<1>4. Missing(Upto(m), n) =
        [k \in 1 .. Cardinality(gap) |-> CHOOSE i \in gap : Cardinality({j \in gap : j < i}) = k - 1]
  BY DEF Missing
<1>. HIDE DEF gap
<1>. QED BY <1>2, <1>3, <1>4

(* A sequence that begins and ends as two others is their concatenation.   *)
LEMMA Joined ==
    ASSUME NEW S, NEW s \in Seq(S), NEW t \in Seq(S), NEW u \in Seq(S), Len(u) = Len(s) + Len(t),
           \A i \in 1 .. Len(s) : u[i] = s[i], \A j \in 1 .. Len(t) : u[Len(s) + j] = t[j]
    PROVE  s \o t = u
<1>1. s \o t \in Seq(S) /\ Len(s \o t) = Len(u) /\ Len(s) \in Nat /\ Len(t) \in Nat
  OBVIOUS
<1>2. ASSUME NEW i \in 1 .. Len(u) PROVE (s \o t)[i] = u[i]
  <2>1. CASE i <= Len(s)
    BY <1>1, <2>1
  <2>2. CASE i > Len(s)
    <3>1. (s \o t)[i] = t[i - Len(s)]
      BY <1>1, <2>2
    <3>2. i - Len(s) \in 1 .. Len(t) /\ Len(s) + (i - Len(s)) = i
      BY <1>1, <2>2
    <3>. QED BY <3>1, <3>2
  <2>3. i <= Len(s) \/ i > Len(s)
    BY <1>1
  <2>. QED BY <2>1, <2>2, <2>3
<1>. QED BY <1>1, <1>2, SeqEqual

(* The entries that follow, appended.                                      *)
LEMMA UptoThen ==
    ASSUME NEW m \in Nat, NEW n \in Nat, m <= n, NEW k \in 1 .. (n - m)
    PROVE  Upto(m) \o SubSeq(Missing(Upto(m), n), 1, k) = Upto(m + k)
<1>1. k \in Nat /\ m + k \in Nat /\ n - m \in Nat
  OBVIOUS
<1>2. PICK rest : rest = [j \in 1 .. (n - m) |-> m + j]
  OBVIOUS
<1>3. PICK taken : taken = SubSeq(rest, 1, k)
  OBVIOUS
<1>4. rest \in Seq(Nat) /\ Len(rest) = n - m
  BY <1>1, <1>2
<1>5. taken \in Seq(Nat) /\ Len(taken) = k /\ \A j \in 1 .. k : taken[j] = m + j
  BY <1>1, <1>2, <1>3, <1>4
<1>6. PICK s \in Seq(Nat) : s = Upto(m) /\ Len(s) = m
  BY UptoProperties
<1>7. PICK u \in Seq(Nat) : u = Upto(m + k) /\ Len(u) = m + k
  BY <1>1, UptoProperties
<1>8. /\ \A i \in 1 .. Len(s) : u[i] = s[i]
      /\ \A j \in 1 .. Len(taken) : u[Len(s) + j] = taken[j]
  <2>1. (\A i \in 1 .. m : s[i] = i) /\ (\A i \in 1 .. m + k : u[i] = i)
    BY <1>6, <1>7 DEF Upto
  <2>2. \A i \in 1 .. Len(s) : u[i] = s[i]
    BY <1>1, <1>6, <2>1
  <2>3. ASSUME NEW j \in 1 .. Len(taken) PROVE u[Len(s) + j] = taken[j]
    <3>1. m + j \in 1 .. m + k /\ j \in 1 .. k
      BY <1>1, <1>5
    <3>. QED BY <1>5, <1>6, <2>1, <3>1
  <2>. QED BY <2>2, <2>3
<1>9. s \o taken = u
  <2>1. Len(u) = Len(s) + Len(taken) /\ taken \in Seq(Nat)
    BY <1>5, <1>6, <1>7
  <2>. QED BY <1>8, <2>1, Joined
<1>. QED BY <1>2, <1>3, <1>6, <1>7, <1>9, MissingUpto

-----------------------------------------------------------------------------
(* Single writes.                                                          *)

(* A write to neither the state, the transactions, the workspace nor the   *)
(* archive.                                                                *)
LEMMA AsideWrite ==
    ASSUME NEW f, NEW g, FilesInv(f), FilesOK(g), Ledgers(g), g.exists = f.exists,
           g.state = f.state, g.tx = f.tx, g.archive = f.archive, g.work = f.work,
           ~g.exists => g.moves = <<>> /\ g.asks = <<>>
    PROVE  Grew(f, g)
<1>1. History(g) /\ Pending(g) /\ Accounted(g.state) /\ Prerequired(g.tx) /\ Ordered(g.state)
  BY DEF FilesInv, History, Pending
<1>2. Archives(g)
  BY DEF FilesInv, Archives
<1>3. ~g.exists => Blank(g)
  BY DEF FilesInv, Blank
<1>4. FilesInv(g)
  BY <1>1, <1>2, <1>3 DEF FilesInv
<1>. QED BY <1>4 DEF Grew

(* The fields of a run's files have their types.                           *)
LEMMA FilesFields ==
    ASSUME NEW f, FilesInv(f)
    PROVE  /\ f.exists \in BOOLEAN /\ f.state \in States /\ f.tx \in Seq(RequestActions)
           /\ f.moves \in Seq(Nat) /\ f.asks \in Seq(Nat) /\ f.work \in [Steps -> Optional]
           /\ f.archive \in [Steps -> Optional] /\ f.committed \subseteq DOMAIN f.tx
           /\ f.state.active \in 0 .. Checkpoints /\ f.state.cps \in [Steps -> CheckpointRuns]
           /\ f.state.actions \in Seq(RequestActions) /\ f.state.transitions \in Nat
           /\ Len(f.tx) \in Nat /\ Len(f.state.actions) \in Nat
           /\ Len(f.moves) \in Nat /\ Len(f.asks) \in Nat
<1>1. /\ f.exists \in BOOLEAN /\ f.state \in States /\ f.tx \in Seq(RequestActions)
      /\ f.moves \in Seq(Nat) /\ f.asks \in Seq(Nat) /\ f.work \in [Steps -> Optional]
      /\ f.archive \in [Steps -> Optional] /\ f.committed \subseteq DOMAIN f.tx
  BY DEF FilesInv, FilesOK
<1>2. /\ f.state.active \in 0 .. Checkpoints /\ f.state.cps \in [Steps -> CheckpointRuns]
      /\ f.state.actions \in Seq(RequestActions) /\ f.state.transitions \in Nat
  BY <1>1 DEF States
<1>. QED BY <1>1, <1>2

(* The transition ledger grows to what the state has seen.                 *)
LEMMA MovesWrite ==
    ASSUME NEW f, FilesInv(f), f.exists, NEW n \in Nat, n <= f.state.transitions
    PROVE  Grew(f, [f EXCEPT !.moves = Upto(n)])
<1>1. PICK g : g = [f EXCEPT !.moves = Upto(n)]
  OBVIOUS
<1>2. FilesOK(f) /\ Ledgers(f)
  BY DEF FilesInv
<1>3. Upto(n) \in Seq(Nat) /\ Len(Upto(n)) = n
  BY UptoProperties
<1>4. /\ g.exists = f.exists /\ g.state = f.state /\ g.tx = f.tx /\ g.archive = f.archive
      /\ g.work = f.work /\ g.asks = f.asks /\ g.moves = Upto(n)
  BY <1>1, <1>2 DEF FilesOK
<1>5. FilesOK(g)
  BY <1>1, <1>2, <1>3 DEF FilesOK
<1>6. Ledgers(g)
  BY <1>2, <1>3, <1>4 DEF Ledgers
<1>7. Grew(f, g)
  BY <1>4, <1>5, <1>6, AsideWrite
<1>. QED BY <1>1, <1>7

(* The request ledger grows to the actions of the state.                   *)
LEMMA AsksWrite ==
    ASSUME NEW f, FilesInv(f), f.exists, NEW n \in Nat, n <= Len(f.state.actions)
    PROVE  Grew(f, [f EXCEPT !.asks = Upto(n)])
<1>1. PICK g : g = [f EXCEPT !.asks = Upto(n)]
  OBVIOUS
<1>2. FilesOK(f) /\ Ledgers(f)
  BY DEF FilesInv
<1>3. Upto(n) \in Seq(Nat) /\ Len(Upto(n)) = n
  BY UptoProperties
<1>4. /\ g.exists = f.exists /\ g.state = f.state /\ g.tx = f.tx /\ g.archive = f.archive
      /\ g.work = f.work /\ g.moves = f.moves /\ g.asks = Upto(n)
  BY <1>1, <1>2 DEF FilesOK
<1>5. FilesOK(g)
  BY <1>1, <1>2, <1>3 DEF FilesOK
<1>6. Ledgers(g)
  BY <1>2, <1>3, <1>4 DEF Ledgers
<1>7. Grew(f, g)
  BY <1>4, <1>5, <1>6, AsideWrite
<1>. QED BY <1>1, <1>7

(* The projection into the inbox, and the markers of transactions.         *)
LEMMA ProjectWrite ==
    ASSUME NEW f, FilesInv(f)
    PROVE  /\ Grew(f, Project(f))
           /\ Project(f).state = f.state /\ Project(f).tx = f.tx /\ Project(f).exists = f.exists
           /\ Project(f).archive = f.archive /\ Project(f).moves = f.moves /\ Project(f).asks = f.asks
<1>1. PICK v : Project(f) = [f EXCEPT !.inbox = v]
  BY DEF Project
<1>2. PICK g : g = [f EXCEPT !.inbox = v]
  OBVIOUS
<1>3. FilesOK(f) /\ Ledgers(f) /\ (~f.exists => Blank(f))
  BY DEF FilesInv
<1>4. /\ g.exists = f.exists /\ g.state = f.state /\ g.tx = f.tx /\ g.archive = f.archive
      /\ g.work = f.work /\ g.moves = f.moves /\ g.asks = f.asks
  BY <1>2, <1>3 DEF FilesOK
<1>5. FilesOK(g)
  BY <1>2, <1>3 DEF FilesOK
<1>6. Ledgers(g) /\ (~g.exists => g.moves = <<>> /\ g.asks = <<>>)
  BY <1>3, <1>4 DEF Ledgers, Blank
<1>7. Grew(f, g)
  BY <1>4, <1>5, <1>6, AsideWrite
<1>. QED BY <1>1, <1>2, <1>4, <1>7

(* The markers of the transactions.                                        *)
LEMMA CommitWrite ==
    ASSUME NEW f, FilesInv(f)
    PROVE  /\ Grew(f, Commit(f))
           /\ Commit(f).state = f.state /\ Commit(f).tx = f.tx /\ Commit(f).exists = f.exists
           /\ Commit(f).archive = f.archive
<1>1. PICK g : g = Commit(f)
  OBVIOUS
<1>2. FilesOK(f) /\ Ledgers(f) /\ (~f.exists => Blank(f))
  BY DEF FilesInv
<1>3. /\ g.exists = f.exists /\ g.state = f.state /\ g.tx = f.tx /\ g.archive = f.archive
      /\ g.work = f.work /\ g.moves = f.moves /\ g.asks = f.asks /\ g.committed = DOMAIN f.tx
  BY <1>1, <1>2 DEF FilesOK, Commit
<1>4. DOMAIN f.tx \in SUBSET Nat
  <2>1. f.tx \in Seq(RequestActions)
    BY FilesFields
  <2>. QED BY <2>1
<1>5. FilesOK(g)
  BY <1>1, <1>2, <1>3, <1>4 DEF FilesOK, Commit
<1>6. Ledgers(g) /\ (~g.exists => g.moves = <<>> /\ g.asks = <<>>)
  BY <1>2, <1>3 DEF Ledgers, Blank
<1>7. Grew(f, g)
  BY <1>3, <1>5, <1>6, AsideWrite
<1>. QED BY <1>1, <1>3, <1>7

-----------------------------------------------------------------------------
(* Paths of writes.                                                        *)

(* The files with both ledgers brought up to the state.                    *)
MovesDone(f) == [f EXCEPT !.moves = Upto(f.state.transitions)]
AsksDone(f) == [f EXCEPT !.asks = Upto(Len(f.state.actions))]

(* Writes given by a function of their number.                             *)
LEMMA WritesOf ==
    ASSUME NEW f, NEW n \in Nat, NEW steps, steps = [k \in 1 .. n |-> steps[k]],
           \A k \in 1 .. n : Grew(f, steps[k])
    PROVE  /\ Writes(f, steps)
           /\ n = 0 => steps = <<>>
           /\ n # 0 => steps # <<>> /\ Last(steps) = steps[n]
<1>1. PICK S : S = {steps[k] : k \in 1 .. n}
  OBVIOUS
<1>2. steps \in Seq(S) /\ Len(steps) = n
  BY <1>1
<1>3. \A g \in S : Grew(f, g)
  BY <1>1
<1>4. n = 0 => steps = <<>>
  BY <1>2
<1>5. n # 0 => steps # <<>> /\ Last(steps) = steps[n]
  BY <1>2 DEF Last
<1>. QED BY <1>2, <1>3, <1>4, <1>5 DEF Writes

(* _sync_transition_ledger writes what the state has seen.                 *)
LEMMA SyncMovesWrites ==
    ASSUME NEW f, FilesInv(f), f.exists
    PROVE  /\ Writes(f, SyncMoves(f))
           /\ SyncMoves(f) = <<>> => f = MovesDone(f)
           /\ SyncMoves(f) # <<>> => Last(SyncMoves(f)) = MovesDone(f)
           /\ Steady(f.state.active, SyncMoves(f))
<1>1. PICK m \in Nat, n \in Nat : m = Len(f.moves) /\ n = f.state.transitions
  BY FilesFields
<1>2. m <= n /\ f.moves = Upto(m)
  BY <1>1 DEF FilesInv, Ledgers
<1>3. PICK steps : steps = SyncMoves(f)
  OBVIOUS
<1>4. PICK r : r = Missing(Upto(m), n)
  OBVIOUS
<1>5. Len(r) = n - m /\ n - m \in Nat
  <2>1. n - m \in Nat
    BY <1>2
  <2>2. r = [k \in 1 .. (n - m) |-> m + k]
    BY <1>2, <1>4, MissingUpto
  <2>3. r \in Seq(Nat) /\ Len(r) = n - m
    BY <2>1, <2>2
  <2>. QED BY <2>1, <2>3
<1>6. \A k \in 1 .. (n - m) : f.moves \o SubSeq(r, 1, k) = Upto(m + k)
  BY <1>2, <1>4, UptoThen
<1>7. steps = [k \in 1 .. (n - m) |-> [f EXCEPT !.moves = Upto(m + k)]]
  <2>1. steps = [k \in 1 .. Len(r) |-> [f EXCEPT !.moves = f.moves \o SubSeq(r, 1, k)]]
    BY <1>1, <1>2, <1>3, <1>4 DEF SyncMoves
  <2>. QED BY <1>5, <1>6, <2>1
<1>8. ASSUME NEW k \in 1 .. (n - m) PROVE Grew(f, steps[k])
  <2>1. m + k \in Nat /\ m + k <= f.state.transitions
    BY <1>1, <1>5
  <2>2. Grew(f, [f EXCEPT !.moves = Upto(m + k)])
    BY <2>1, MovesWrite
  <2>. QED BY <1>7, <2>2
<1>9. steps = [k \in 1 .. (n - m) |-> steps[k]]
  BY <1>7
<1>10. /\ Writes(f, steps)
       /\ n - m = 0 => steps = <<>>
       /\ n - m # 0 => steps # <<>> /\ Last(steps) = steps[n - m]
  BY <1>5, <1>8, <1>9, WritesOf
<1>13. Steady(f.state.active, steps)
  <2>1. FilesOK(f)
    BY DEF FilesInv
  <2>2. PICK S : S = {steps[k] : k \in 1 .. (n - m)}
    OBVIOUS
  <2>3. steps \in Seq(S)
    BY <1>5, <1>9, <2>2
  <2>4. \A k \in 1 .. (n - m) : steps[k].state = f.state
    BY <1>7, <2>1 DEF FilesOK
  <2>. QED BY <2>2, <2>3, <2>4 DEF Steady
<1>11. CASE n - m = 0
  <2>1. f.moves = Upto(f.state.transitions)
    BY <1>1, <1>2, <1>11
  <2>2. FilesOK(f)
    BY DEF FilesInv
  <2>3. f = MovesDone(f)
    BY <2>1, <2>2 DEF FilesOK, MovesDone
  <2>. QED BY <1>3, <1>10, <1>11, <1>13, <2>3
<1>12. CASE n - m # 0
  <2>1. n - m \in 1 .. (n - m) /\ m + (n - m) = n
    BY <1>5, <1>12
  <2>2. steps[n - m] = [f EXCEPT !.moves = Upto(n)]
    BY <1>7, <2>1
  <2>3. Last(steps) = MovesDone(f)
    BY <1>1, <1>10, <1>12, <2>2 DEF MovesDone
  <2>. QED BY <1>3, <1>10, <1>12, <1>13, <2>3
<1>. QED BY <1>11, <1>12

(* _sync_evidence_request_ledger writes the actions of the state.          *)
LEMMA SyncAsksWrites ==
    ASSUME NEW f, FilesInv(f), f.exists
    PROVE  /\ Writes(f, SyncAsks(f))
           /\ SyncAsks(f) = <<>> => f = AsksDone(f)
           /\ SyncAsks(f) # <<>> => Last(SyncAsks(f)) = AsksDone(f)
           /\ Steady(f.state.active, SyncAsks(f))
<1>1. PICK m \in Nat, n \in Nat : m = Len(f.asks) /\ n = Len(f.state.actions)
  BY FilesFields
<1>2. m <= n /\ f.asks = Upto(m)
  BY <1>1 DEF FilesInv, Ledgers
<1>3. PICK steps : steps = SyncAsks(f)
  OBVIOUS
<1>4. PICK r : r = Missing(Upto(m), n)
  OBVIOUS
<1>5. Len(r) = n - m /\ n - m \in Nat
  <2>1. n - m \in Nat
    BY <1>2
  <2>2. r = [k \in 1 .. (n - m) |-> m + k]
    BY <1>2, <1>4, MissingUpto
  <2>3. r \in Seq(Nat) /\ Len(r) = n - m
    BY <2>1, <2>2
  <2>. QED BY <2>1, <2>3
<1>6. \A k \in 1 .. (n - m) : f.asks \o SubSeq(r, 1, k) = Upto(m + k)
  BY <1>2, <1>4, UptoThen
<1>7. steps = [k \in 1 .. (n - m) |-> [f EXCEPT !.asks = Upto(m + k)]]
  <2>1. steps = [k \in 1 .. Len(r) |-> [f EXCEPT !.asks = f.asks \o SubSeq(r, 1, k)]]
    BY <1>1, <1>2, <1>3, <1>4 DEF SyncAsks
  <2>. QED BY <1>5, <1>6, <2>1
<1>8. ASSUME NEW k \in 1 .. (n - m) PROVE Grew(f, steps[k])
  <2>1. m + k \in Nat /\ m + k <= Len(f.state.actions)
    BY <1>1, <1>5
  <2>2. Grew(f, [f EXCEPT !.asks = Upto(m + k)])
    BY <2>1, AsksWrite
  <2>. QED BY <1>7, <2>2
<1>9. steps = [k \in 1 .. (n - m) |-> steps[k]]
  BY <1>7
<1>10. /\ Writes(f, steps)
       /\ n - m = 0 => steps = <<>>
       /\ n - m # 0 => steps # <<>> /\ Last(steps) = steps[n - m]
  BY <1>5, <1>8, <1>9, WritesOf
<1>13. Steady(f.state.active, steps)
  <2>1. FilesOK(f)
    BY DEF FilesInv
  <2>2. PICK S : S = {steps[k] : k \in 1 .. (n - m)}
    OBVIOUS
  <2>3. steps \in Seq(S)
    BY <1>5, <1>9, <2>2
  <2>4. \A k \in 1 .. (n - m) : steps[k].state = f.state
    BY <1>7, <2>1 DEF FilesOK
  <2>. QED BY <2>2, <2>3, <2>4 DEF Steady
<1>11. CASE n - m = 0
  <2>1. f.asks = Upto(Len(f.state.actions))
    BY <1>1, <1>2, <1>11
  <2>2. FilesOK(f)
    BY DEF FilesInv
  <2>3. f = AsksDone(f)
    BY <2>1, <2>2 DEF FilesOK, AsksDone
  <2>. QED BY <1>3, <1>10, <1>11, <1>13, <2>3
<1>12. CASE n - m # 0
  <2>1. n - m \in 1 .. (n - m) /\ m + (n - m) = n
    BY <1>5, <1>12
  <2>2. steps[n - m] = [f EXCEPT !.asks = Upto(n)]
    BY <1>7, <2>1
  <2>3. Last(steps) = AsksDone(f)
    BY <1>1, <1>10, <1>12, <2>2 DEF AsksDone
  <2>. QED BY <1>3, <1>10, <1>12, <1>13, <2>3
<1>. QED BY <1>11, <1>12

(* A path with its transition ledger written.                              *)
LEMMA PathMoves ==
    ASSUME NEW f, NEW steps, Path(f, steps), Last(steps).exists
    PROVE  Path(f, WithMoves(steps)) /\ Last(WithMoves(steps)) = MovesDone(Last(steps))
<1>1. PICK g : g = Last(steps)
  OBVIOUS
<1>2. FilesInv(g) /\ g.exists
  BY <1>1, PathElements DEF Grew
<1>3. /\ Writes(g, SyncMoves(g))
      /\ SyncMoves(g) = <<>> => g = MovesDone(g)
      /\ SyncMoves(g) # <<>> => Last(SyncMoves(g)) = MovesDone(g)
  BY <1>2, SyncMovesWrites
<1>4. WithMoves(steps) = steps \o SyncMoves(g)
  BY <1>1 DEF WithMoves
<1>5. /\ Path(f, steps \o SyncMoves(g))
      /\ SyncMoves(g) = <<>> => Last(steps \o SyncMoves(g)) = g
      /\ SyncMoves(g) # <<>> => Last(steps \o SyncMoves(g)) = Last(SyncMoves(g))
  BY <1>1, <1>3, PathThen
<1>. QED BY <1>1, <1>3, <1>4, <1>5

(* A path with its request ledger written.                                 *)
LEMMA PathAsks ==
    ASSUME NEW f, NEW steps, Path(f, steps), Last(steps).exists
    PROVE  Path(f, WithAsks(steps)) /\ Last(WithAsks(steps)) = AsksDone(Last(steps))
<1>1. PICK g : g = Last(steps)
  OBVIOUS
<1>2. FilesInv(g) /\ g.exists
  BY <1>1, PathElements DEF Grew
<1>3. /\ Writes(g, SyncAsks(g))
      /\ SyncAsks(g) = <<>> => g = AsksDone(g)
      /\ SyncAsks(g) # <<>> => Last(SyncAsks(g)) = AsksDone(g)
  BY <1>2, SyncAsksWrites
<1>4. WithAsks(steps) = steps \o SyncAsks(g)
  BY <1>1 DEF WithAsks
<1>5. /\ Path(f, steps \o SyncAsks(g))
      /\ SyncAsks(g) = <<>> => Last(steps \o SyncAsks(g)) = g
      /\ SyncAsks(g) # <<>> => Last(steps \o SyncAsks(g)) = Last(SyncAsks(g))
  BY <1>1, <1>3, PathThen
<1>. QED BY <1>1, <1>3, <1>4, <1>5

(* g is f but for its ledgers, its inbox and its markers.                  *)
Alike(f, g) ==
    g.exists = f.exists /\ g.state = f.state /\ g.tx = f.tx /\ g.archive = f.archive /\ g.work = f.work

(* A path with both ledgers written.                                       *)
LEMMA PathSync ==
    ASSUME NEW f, NEW steps, Path(f, steps), Last(steps).exists
    PROVE  Path(f, Sync(steps)) /\ Alike(Last(steps), Last(Sync(steps)))
<1>1. PICK g : g = Last(steps)
  OBVIOUS
<1>2. FilesOK(g)
  BY <1>1, PathElements DEF Grew, FilesInv
<1>3. PICK mid : mid = WithMoves(steps)
  OBVIOUS
<1>4. Path(f, mid) /\ Last(mid) = MovesDone(g)
  BY <1>1, <1>3, PathMoves
<1>5. Alike(g, Last(mid))
  BY <1>2, <1>4 DEF Alike, MovesDone, FilesOK
<1>6. FilesOK(Last(mid)) /\ Last(mid).exists
  BY <1>1, <1>4, <1>5, PathElements DEF Grew, FilesInv, Alike
<1>7. Path(f, WithAsks(mid)) /\ Last(WithAsks(mid)) = AsksDone(Last(mid))
  BY <1>4, <1>6, PathAsks
<1>8. Alike(Last(mid), Last(WithAsks(mid)))
  BY <1>6, <1>7 DEF Alike, AsksDone, FilesOK
<1>9. Sync(steps) = WithAsks(mid)
  BY <1>3 DEF Sync
<1>. QED BY <1>1, <1>5, <1>7, <1>8, <1>9 DEF Alike

(* Both ledgers are written with the same checkpoint active.               *)
LEMMA SteadySync ==
    ASSUME NEW f, NEW steps, Path(f, steps), Last(steps).exists, NEW a, Steady(a, steps)
    PROVE  Steady(a, WithMoves(steps)) /\ Steady(a, Sync(steps))
<1>1. PICK g : g = Last(steps)
  OBVIOUS
<1>2. FilesInv(g) /\ g.exists /\ g.state.active = a
  BY <1>1, PathElements, SteadyElements DEF Path, Grew
<1>3. PICK mid : mid = WithMoves(steps)
  OBVIOUS
<1>4. Path(f, mid) /\ Last(mid) = MovesDone(g)
  BY <1>1, <1>3, PathMoves
<1>5. Steady(a, SyncMoves(g))
  BY <1>2, SyncMovesWrites
<1>6. Steady(a, mid)
  BY <1>1, <1>3, <1>5, SteadyThen DEF WithMoves
<1>7. PICK k : k = Last(mid)
  OBVIOUS
<1>8. FilesOK(g)
  BY <1>2 DEF FilesInv
<1>9. FilesInv(k) /\ k.exists /\ k.state.active = a
  <2>1. k.exists
    BY <1>2, <1>4, <1>7, <1>8 DEF MovesDone, FilesOK
  <2>. QED BY <1>4, <1>6, <1>7, <2>1, PathElements, SteadyElements DEF Path, Grew
<1>10. Steady(a, SyncAsks(k))
  BY <1>9, SyncAsksWrites
<1>11. Steady(a, WithAsks(mid))
  BY <1>6, <1>7, <1>10, SteadyThen DEF WithAsks
<1>. QED BY <1>3, <1>6, <1>11 DEF Sync

-----------------------------------------------------------------------------
(* An evidence request.                                                    *)

(* A transaction releases at its place in the history, or nowhere.         *)
LEMMA ReleasedAtAppend ==
    ASSUME NEW txs \in Seq(RequestActions), NEW a \in RequestActions, NEW cp
    PROVE  /\ IsFiniteSet(ReleasedAt(txs, cp)) /\ Cardinality(ReleasedAt(txs, cp)) \in Nat
           /\ ReleasedAt(txs, cp) \subseteq 1 .. Len(txs)
           /\ IF a.cp = cp /\ a.outcome = "released"
              THEN /\ ReleasedAt(Append(txs, a), cp) = ReleasedAt(txs, cp) \cup {Len(txs) + 1}
                   /\ Cardinality(ReleasedAt(Append(txs, a), cp)) = Cardinality(ReleasedAt(txs, cp)) + 1
              ELSE ReleasedAt(Append(txs, a), cp) = ReleasedAt(txs, cp)
<1>1. PICK more : more = Append(txs, a)
  OBVIOUS
<1>2. /\ Len(txs) \in Nat /\ DOMAIN txs = 1 .. Len(txs) /\ DOMAIN more = 1 .. Len(txs) + 1
      /\ \A i \in 1 .. Len(txs) : more[i] = txs[i]
      /\ more[Len(txs) + 1] = a
  BY <1>1
<1>3. ReleasedAt(txs, cp) \subseteq 1 .. Len(txs)
  BY <1>2 DEF ReleasedAt
<1>4. IsFiniteSet(ReleasedAt(txs, cp))
  <2>1. IsFiniteSet(1 .. Len(txs))
    BY <1>2, FS_Interval
  <2>. QED BY <1>3, <2>1, FS_Subset
<1>5. Cardinality(ReleasedAt(txs, cp)) \in Nat
  BY <1>4, FS_CardinalityType
<1>6. ASSUME a.cp = cp, a.outcome = "released"
      PROVE  /\ ReleasedAt(more, cp) = ReleasedAt(txs, cp) \cup {Len(txs) + 1}
             /\ Cardinality(ReleasedAt(more, cp)) = Cardinality(ReleasedAt(txs, cp)) + 1
  <2>1. \A i \in DOMAIN more : i \in DOMAIN txs \/ i = Len(txs) + 1
    BY <1>2
  <2>2. ReleasedAt(more, cp) = ReleasedAt(txs, cp) \cup {Len(txs) + 1}
    BY <1>2, <1>6, <2>1 DEF ReleasedAt
  <2>3. Len(txs) + 1 \notin ReleasedAt(txs, cp)
    BY <1>2, <1>3
  <2>. QED BY <1>4, <2>2, <2>3, FS_AddElement
<1>7. ASSUME ~(a.cp = cp /\ a.outcome = "released")
      PROVE  ReleasedAt(more, cp) = ReleasedAt(txs, cp)
  <2>1. \A i \in DOMAIN more : i \in DOMAIN txs \/ i = Len(txs) + 1
    BY <1>2
  <2>. QED BY <1>2, <1>7, <2>1 DEF ReleasedAt
<1>. QED BY <1>1, <1>3, <1>4, <1>5, <1>6, <1>7

(* What one transaction takes from a budget.                               *)
Taken(a, cp) == IF a.cp = cp /\ a.outcome = "released" THEN 1 ELSE 0

(* A single transaction releases once or not at all.                       *)
LEMMA ReleasedAtOne ==
    ASSUME NEW a \in RequestActions, NEW cp
    PROVE  Cardinality(ReleasedAt(<<a>>, cp)) = Taken(a, cp)
<1>1. DOMAIN <<a>> = {1} /\ <<a>>[1] = a
  OBVIOUS
<1>2. CASE a.cp = cp /\ a.outcome = "released"
  <2>1. ReleasedAt(<<a>>, cp) = {1}
    BY <1>1, <1>2 DEF ReleasedAt
  <2>. QED BY <1>2, <2>1, FS_Singleton DEF Taken
<1>3. CASE ~(a.cp = cp /\ a.outcome = "released")
  <2>1. ReleasedAt(<<a>>, cp) = {}
    BY <1>1, <1>3 DEF ReleasedAt
  <2>. QED BY <1>3, <2>1, FS_EmptySet DEF Taken
<1>. QED BY <1>2, <1>3

(* A transaction applied to a state whose budget allows it.                *)
LEMMA AppliedOne ==
    ASSUME NEW s \in States, NEW a \in RequestActions, Accounted(s),
           a.outcome = "released" => s.cps[a.cp].budget > 0
    PROVE  /\ Applied(s, <<a>>) \in States /\ Accounted(Applied(s, <<a>>))
           /\ Applied(s, <<a>>).actions = Append(s.actions, a)
           /\ Applied(s, <<a>>).transitions = s.transitions + 1
           /\ Applied(s, <<a>>).active = s.active
           /\ \A cp \in Steps :
                 Applied(s, <<a>>).cps[cp] = [s.cps[cp] EXCEPT !.budget = @ - Taken(a, cp)]
<1>1. PICK t : t = Applied(s, <<a>>)
  OBVIOUS
<1>2. /\ s.active \in 0 .. Checkpoints /\ s.cps \in [Steps -> CheckpointRuns]
      /\ s.actions \in Seq(RequestActions) /\ s.transitions \in Nat
  BY DEF States
<1>3. PICK runs : runs = [cp \in Steps |-> [s.cps[cp] EXCEPT !.budget = @ - Taken(a, cp)]]
  OBVIOUS
<1>4. s.actions \o <<a>> = Append(s.actions, a) /\ Append(s.actions, a) \in Seq(RequestActions)
  BY <1>2, AppendIsConcat
<1>5. Len(<<a>>) = 1
  OBVIOUS
<1>6. [cp \in Steps |-> [s.cps[cp] EXCEPT !.budget = @ - Cardinality(ReleasedAt(<<a>>, cp))]] = runs
  <2>1. \A cp \in Steps : Cardinality(ReleasedAt(<<a>>, cp)) = Taken(a, cp)
    BY ReleasedAtOne
  <2>. QED BY <1>3, <2>1
<1>7. t = [s EXCEPT !.actions = Append(s.actions, a), !.cps = runs, !.transitions = s.transitions + 1]
  BY <1>1, <1>4, <1>5, <1>6 DEF Applied
<1>8. /\ t.active = s.active /\ t.actions = Append(s.actions, a) /\ t.cps = runs
      /\ t.transitions = s.transitions + 1
  BY <1>7 DEF States
<1>9. ASSUME NEW cp \in Steps
      PROVE  runs[cp] \in CheckpointRuns /\ runs[cp].budget = s.cps[cp].budget - Taken(a, cp)
  <2>1. PICK r \in CheckpointRuns : r = s.cps[cp]
    BY <1>2
  <2>2. PICK b \in 0 .. RequestBudget : b = r.budget
    BY DEF CheckpointRuns
  <2>3. RequestBudget \in Nat
    BY LifecycleConstants
  <2>4. b - Taken(a, cp) \in 0 .. RequestBudget
    <3>1. CASE a.cp = cp /\ a.outcome = "released"
      <4>1. b > 0 /\ Taken(a, cp) = 1
        BY <2>1, <2>2, <3>1 DEF Taken
      <4>. QED BY <2>3, <4>1
    <3>2. CASE ~(a.cp = cp /\ a.outcome = "released")
      <4>1. Taken(a, cp) = 0
        BY <3>2 DEF Taken
      <4>. QED BY <2>3, <4>1
    <3>. QED BY <3>1, <3>2
  <2>5. runs[cp] = [r EXCEPT !.budget = b - Taken(a, cp)]
    BY <1>3, <2>1, <2>2
  <2>6. runs[cp] \in CheckpointRuns /\ runs[cp].budget = b - Taken(a, cp)
    BY <2>4, <2>5 DEF CheckpointRuns
  <2>. QED BY <2>1, <2>2, <2>6
<1>10. t \in States
  <2>1. runs \in [Steps -> CheckpointRuns]
    BY <1>3, <1>9
  <2>2. PICK acts \in Seq(RequestActions) : acts = Append(s.actions, a)
    BY <1>4
  <2>3. PICK n \in Nat : n = s.transitions + 1
    BY <1>2
  <2>4. t = [s EXCEPT !.actions = acts, !.cps = runs, !.transitions = n]
    BY <1>7, <2>2, <2>3
  <2>. QED BY <2>1, <2>4 DEF States
<1>11. Accounted(t)
  <2>1. SUFFICES ASSUME NEW cp \in Steps
                 PROVE  t.cps[cp].budget + Cardinality(ReleasedAt(t.actions, cp)) = RequestBudget
    BY DEF Accounted
  <2>2. PICK n \in Nat : n = Cardinality(ReleasedAt(s.actions, cp))
    BY <1>2, ReleasedAtAppend
  <2>3. PICK b \in Int : b = s.cps[cp].budget
    BY <1>2 DEF CheckpointRuns
  <2>4. b + n = RequestBudget
    BY <2>2, <2>3 DEF Accounted
  <2>5. Cardinality(ReleasedAt(Append(s.actions, a), cp)) = n + Taken(a, cp)
    <3>1. CASE a.cp = cp /\ a.outcome = "released"
      BY <1>2, <2>2, <3>1, ReleasedAtAppend DEF Taken
    <3>2. CASE ~(a.cp = cp /\ a.outcome = "released")
      <4>1. ReleasedAt(Append(s.actions, a), cp) = ReleasedAt(s.actions, cp) /\ Taken(a, cp) = 0
        BY <1>2, <3>2, ReleasedAtAppend DEF Taken
      <4>. QED BY <2>2, <4>1
    <3>. QED BY <3>1, <3>2
  <2>6. t.cps[cp].budget = b - Taken(a, cp) /\ Taken(a, cp) \in Int
    BY <1>8, <1>9, <2>3 DEF Taken
  <2>7. PICK k \in Int : k = Taken(a, cp)
    BY <2>6
  <2>8. (b - k) + (n + k) = RequestBudget
    BY <2>4
  <2>. QED BY <1>8, <2>5, <2>6, <2>7, <2>8
<1>. QED BY <1>1, <1>3, <1>8, <1>10, <1>11

(* t is s but for its actions, transitions and budgets.                    *)
SameRuns(s, t) ==
    /\ t.active = s.active
    /\ \A cp \in Steps : /\ t.cps[cp].status = s.cps[cp].status
                         /\ t.cps[cp].sub = s.cps[cp].sub
                         /\ t.cps[cp].attempts = s.cps[cp].attempts

(* Such a state has the same checkpoints accepted, in the same order.      *)
LEMMA SameRunsSame ==
    ASSUME NEW s, NEW t, SameRuns(s, t)
    PROVE  Submitted(t) = Submitted(s) /\ (Ordered(s) => Ordered(t))
<1>1. Submitted(t) = Submitted(s)
  BY DEF Submitted, SameRuns
<1>2. ASSUME Ordered(s) PROVE Ordered(t)
  <2>1. PICK n : n = Cardinality(Submitted(s))
    OBVIOUS
  <2>2. /\ Submitted(s) = 1 .. n /\ s.active \in {0, n + 1}
        /\ \A cp \in Steps : /\ \A i, j \in ActiveIn(s.cps[cp].attempts) : i = j
                             /\ HasActive(s.cps[cp].attempts) => s.active = cp
    BY <1>2, <2>1 DEF Ordered
  <2>3. /\ Submitted(t) = 1 .. n /\ t.active \in {0, n + 1}
        /\ \A cp \in Steps : /\ \A i, j \in ActiveIn(t.cps[cp].attempts) : i = j
                             /\ HasActive(t.cps[cp].attempts) => t.active = cp
    BY <1>1, <2>2 DEF SameRuns
  <2>. QED BY <1>1, <2>1, <2>3 DEF Ordered
<1>. QED BY <1>1, <1>2

(* The active checkpoint is one that was not accepted.                     *)
LEMMA ActiveUnsubmitted ==
    ASSUME NEW s \in States, Ordered(s)
    PROVE  s.active \notin Submitted(s) /\ (s.active # 0 => s.active \in Steps)
<1>1. PICK n : n = Cardinality(Submitted(s))
  OBVIOUS
<1>2. Submitted(s) = 1 .. n /\ s.active \in {0, n + 1}
  BY <1>1 DEF Ordered
<1>3. s.active \in 0 .. Checkpoints /\ Checkpoints \in Nat
  BY LifecycleConstants DEF States
<1>4. s.active # 0 => s.active \in Steps
  BY <1>3 DEF Steps
<1>5. Submitted(s) \subseteq Steps
  BY DEF Submitted
<1>6. IsFiniteSet(Submitted(s))
  <2>1. IsFiniteSet(Steps)
    BY <1>3, FS_Interval DEF Steps
  <2>. QED BY <1>5, <2>1, FS_Subset
<1>7. n \in Nat
  BY <1>1, <1>6, FS_CardinalityType
<1>. QED BY <1>2, <1>4, <1>7

(* What the state lacks is the last transaction.                           *)
LEMMA LackingOne ==
    ASSUME NEW f, f.tx \in Seq(RequestActions), f.state.actions \in Seq(RequestActions),
           Len(f.tx) = Len(f.state.actions) + 1
    PROVE  Lacking(f) = <<f.tx[Len(f.tx)]>> /\ f.tx[Len(f.tx)] \in RequestActions
<1>1. PICK n \in Nat : n = Len(f.state.actions)
  OBVIOUS
<1>2. PICK r : r = SubSeq(f.tx, n + 1, n + 1)
  OBVIOUS
<1>3. f.tx[n + 1] \in RequestActions
  BY <1>1
<1>4. r \in Seq(RequestActions) /\ Len(r) = 1 /\ r[1] = f.tx[n + 1]
  BY <1>1, <1>2, <1>3
<1>5. r = <<f.tx[n + 1]>>
  BY <1>4
<1>. QED BY <1>1, <1>2, <1>3, <1>5 DEF Lacking

(* The state lacks nothing when it has as many actions.                    *)
LEMMA LackingNone ==
    ASSUME NEW f, f.tx \in Seq(RequestActions), f.state.actions \in Seq(RequestActions)
    PROVE  /\ Len(f.tx) = Len(f.state.actions) => Lacking(f) = <<>>
           /\ Lacking(f) = <<>> => Len(f.tx) # Len(f.state.actions) + 1
<1>1. ASSUME Len(f.tx) = Len(f.state.actions) PROVE Lacking(f) = <<>>
  <2>1. PICK n \in Nat : n = Len(f.tx)
    OBVIOUS
  <2>2. SubSeq(f.tx, n + 1, n) = <<>>
    BY <2>1, SubSeqEmpty
  <2>. QED BY <1>1, <2>1, <2>2 DEF Lacking
<1>2. ASSUME Len(f.tx) = Len(f.state.actions) + 1 PROVE Lacking(f) # <<>>
  <2>1. PICK a : Lacking(f) = <<a>>
    BY <1>2, LackingOne
  <2>2. <<a>> # <<>>
    OBVIOUS
  <2>. QED BY <2>1, <2>2
<1>. QED BY <1>1, <1>2

(* The state takes in a transaction that it lacks.                         *)
LEMMA RollForwardWrite ==
    ASSUME NEW f, FilesInv(f), Len(f.tx) # Len(f.state.actions)
    PROVE  /\ Grew(f, RollForward(f))
           /\ f.exists /\ RollForward(f).exists /\ RollForward(f).tx = f.tx
           /\ RollForward(f).archive = f.archive
           /\ Len(RollForward(f).state.actions) = Len(f.tx)
           /\ SameRuns(f.state, RollForward(f).state)
<1>1. PICK s \in States : s = f.state
  BY FilesFields
<1>2. PICK n \in Nat : n = Len(s.actions)
  BY <1>1, FilesFields
<1>3. Len(f.tx) = n + 1 /\ f.tx \in Seq(RequestActions) /\ s.actions \in Seq(RequestActions)
  <2>1. f.tx \in Seq(RequestActions) /\ s.actions \in Seq(RequestActions)
    BY <1>1, FilesFields
  <2>2. History(f)
    BY DEF FilesInv
  <2>. QED BY <1>1, <1>2, <2>1, <2>2 DEF History
<1>4. PICK a \in RequestActions : a = f.tx[n + 1] /\ Lacking(f) = <<a>>
  BY <1>1, <1>2, <1>3, LackingOne
<1>5. a.cp = s.active /\ RollsForward(s, a) /\ (a.outcome = "released" => a.before > 0)
  BY <1>1, <1>2, <1>3, <1>4 DEF FilesInv, Pending
<1>6. a.outcome = "released" => s.cps[a.cp].budget > 0
  BY <1>5 DEF RollsForward
<1>7. Accounted(s) /\ Ordered(s)
  BY <1>1 DEF FilesInv
<1>8. PICK t \in States : t = Applied(s, <<a>>)
  BY <1>6, <1>7, AppliedOne
<1>9. /\ Accounted(t) /\ t.actions = Append(s.actions, a) /\ t.transitions = s.transitions + 1
      /\ t.active = s.active
      /\ \A cp \in Steps : t.cps[cp] = [s.cps[cp] EXCEPT !.budget = @ - Taken(a, cp)]
  BY <1>6, <1>7, <1>8, AppliedOne
<1>10. SameRuns(s, t)
  <2>1. ASSUME NEW cp \in Steps
        PROVE  /\ t.cps[cp].status = s.cps[cp].status /\ t.cps[cp].sub = s.cps[cp].sub
               /\ t.cps[cp].attempts = s.cps[cp].attempts
    <3>1. PICK r \in CheckpointRuns : r = s.cps[cp]
      BY DEF States
    <3>2. PICK b : b = r.budget - Taken(a, cp)
      OBVIOUS
    <3>3. t.cps[cp] = [r EXCEPT !.budget = b]
      BY <1>9, <3>1, <3>2
    <3>. QED BY <3>1, <3>3 DEF CheckpointRuns
  <2>. QED BY <1>9, <2>1 DEF SameRuns
<1>11. Submitted(t) = Submitted(s) /\ Ordered(t)
  BY <1>7, <1>10, SameRunsSame
<1>12. ASSUME NEW cp \in Submitted(s) PROVE t.cps[cp] = s.cps[cp]
  <2>1. cp \in Steps /\ cp # s.active
    BY <1>7, ActiveUnsubmitted DEF Submitted
  <2>2. PICK r \in CheckpointRuns : r = s.cps[cp]
    BY <2>1 DEF States
  <2>3. Taken(a, cp) = 0
    BY <1>5, <2>1 DEF Taken
  <2>4. t.cps[cp] = [r EXCEPT !.budget = @ - 0]
    BY <1>9, <2>1, <2>2, <2>3
  <2>5. PICK b : b = r.budget - 0
    OBVIOUS
  <2>6. b = r.budget
    BY <2>5 DEF CheckpointRuns
  <2>7. t.cps[cp] = [r EXCEPT !.budget = b]
    BY <2>4, <2>5
  <2>. QED BY <2>2, <2>6, <2>7 DEF CheckpointRuns
<1>13. f.exists
  <2>1. NewState.actions = <<>>
    BY DEF NewState
  <2>2. Blank(f) => Len(f.tx) = Len(f.state.actions)
    BY <2>1 DEF Blank
  <2>. QED BY <2>2 DEF FilesInv
<1>14. PICK g : g = [f EXCEPT !.state = t]
  OBVIOUS
<1>15. RollForward(f) = g
  BY <1>1, <1>4, <1>8, <1>14 DEF RollForward
<1>16. FilesOK(f) /\ Ledgers(f) /\ History(f) /\ Prerequired(f.tx) /\ Archives(f)
  BY DEF FilesInv
<1>17. /\ g.exists = f.exists /\ g.state = t /\ g.tx = f.tx /\ g.archive = f.archive /\ g.work = f.work
       /\ g.moves = f.moves /\ g.asks = f.asks /\ FilesOK(g)
  BY <1>14, <1>16 DEF FilesOK
<1>18. Len(t.actions) = n + 1
  BY <1>2, <1>3, <1>9
<1>19. History(g)
  <2>1. \A i \in 1 .. n : f.tx[i] = s.actions[i]
    BY <1>1, <1>2, <1>3, <1>16 DEF History
  <2>2. \A i \in DOMAIN t.actions : g.tx[i] = t.actions[i]
    BY <1>2, <1>3, <1>4, <1>9, <1>17, <2>1
  <2>. QED BY <1>3, <1>17, <1>18, <2>2 DEF History
<1>20. Pending(g)
  BY <1>3, <1>17, <1>18 DEF Pending
<1>21. Ledgers(g)
  <2>1. s.transitions \in Nat /\ Len(f.moves) \in Nat /\ Len(f.asks) \in Nat
    BY <1>1, FilesFields
  <2>. QED BY <1>1, <1>2, <1>9, <1>16, <1>17, <1>18, <2>1 DEF Ledgers
<1>22. Archives(g)
  BY <1>1, <1>11, <1>12, <1>16, <1>17 DEF Archives
<1>23. FilesInv(g)
  BY <1>9, <1>11, <1>13, <1>16, <1>17, <1>19, <1>20, <1>21, <1>22 DEF FilesInv
<1>24. Grew(f, g)
  BY <1>1, <1>11, <1>12, <1>17, <1>23 DEF Grew
<1>. QED BY <1>1, <1>3, <1>10, <1>13, <1>15, <1>17, <1>18, <1>24

(* A sequence that begins as another and has one more element.             *)
LEMMA Extended ==
    ASSUME NEW S, NEW s \in Seq(S), NEW e \in S, NEW t \in Seq(S), Len(t) = Len(s) + 1,
           \A i \in 1 .. Len(s) : t[i] = s[i], t[Len(s) + 1] = e
    PROVE  Append(s, e) = t
<1>1. PICK u \in Seq(S) : u = Append(s, e)
  OBVIOUS
<1>2. /\ Len(s) \in Nat /\ Len(u) = Len(s) + 1 /\ u[Len(s) + 1] = e
      /\ \A i \in 1 .. Len(s) : u[i] = s[i]
  BY <1>1
<1>3. \A i \in 1 .. Len(u) : i \in 1 .. Len(s) \/ i = Len(s) + 1
  BY <1>2
<1>4. \A i \in 1 .. Len(u) : u[i] = t[i]
  BY <1>2, <1>3
<1>5. u = t
  BY <1>2, <1>4, SeqEqual
<1>. QED BY <1>1, <1>5

(* Paths of two and of three writes.                                       *)
LEMMA PathTwo ==
    ASSUME NEW f, NEW g, NEW k, Grew(f, g), Grew(g, k)
    PROVE  Path(f, <<g, k>>) /\ Last(<<g, k>>) = k
<1>1. Path(f, <<g>>) /\ Last(<<g>>) = g
  BY PathOne
<1>2. Append(<<g>>, k) = <<g, k>>
  <2>1. PICK one, two : one = <<g>> /\ two = <<g, k>>
    OBVIOUS
  <2>2. /\ one \in Seq({g, k}) /\ Len(one) = 1 /\ one[1] = g
        /\ two \in Seq({g, k}) /\ Len(two) = 2 /\ two[1] = g /\ two[2] = k
    BY <2>1
  <2>3. Len(two) = Len(one) + 1 /\ (\A i \in 1 .. Len(one) : two[i] = one[i]) /\ two[Len(one) + 1] = k
    BY <2>2
  <2>4. PICK S : S = {g, k}
    OBVIOUS
  <2>5. one \in Seq(S) /\ two \in Seq(S) /\ k \in S
    BY <2>2, <2>4
  <2>6. Append(one, k) = two
    BY <2>3, <2>5, Extended
  <2>. QED BY <2>1, <2>6
<1>3. Path(f, Append(<<g>>, k)) /\ Last(Append(<<g>>, k)) = k
  BY <1>1, PathAppend
<1>. QED BY <1>2, <1>3

(* Three writes.                                                           *)
LEMMA PathThree ==
    ASSUME NEW f, NEW g, NEW k, NEW l, Grew(f, g), Grew(g, k), Grew(k, l)
    PROVE  Path(f, <<g, k, l>>) /\ Last(<<g, k, l>>) = l
<1>1. Path(f, <<g, k>>) /\ Last(<<g, k>>) = k
  BY PathTwo
<1>2. Append(<<g, k>>, l) = <<g, k, l>>
  <2>1. PICK two, three : two = <<g, k>> /\ three = <<g, k, l>>
    OBVIOUS
  <2>2. /\ two \in Seq({g, k, l}) /\ Len(two) = 2 /\ two[1] = g /\ two[2] = k
        /\ three \in Seq({g, k, l}) /\ Len(three) = 3
        /\ three[1] = g /\ three[2] = k /\ three[3] = l
    BY <2>1
  <2>3. Len(three) = Len(two) + 1 /\ (\A i \in 1 .. Len(two) : three[i] = two[i]) /\ three[Len(two) + 1] = l
    <3>1. 1 .. 2 = {1, 2}
      OBVIOUS
    <3>. QED BY <2>2, <3>1
  <2>4. PICK S : S = {g, k, l}
    OBVIOUS
  <2>5. two \in Seq(S) /\ three \in Seq(S) /\ l \in S
    BY <2>2, <2>4
  <2>6. Append(two, l) = three
    BY <2>3, <2>5, Extended
  <2>. QED BY <2>1, <2>6
<1>3. Path(f, Append(<<g, k>>, l)) /\ Last(Append(<<g, k>>, l)) = l
  BY <1>1, PathAppend
<1>. QED BY <1>2, <1>3

(* What a load makes of f.                                                 *)
Settled(f, g) ==
    /\ FilesInv(g)
    /\ g.exists /\ g.tx = f.tx /\ g.archive = f.archive /\ g.work = f.work
    /\ Len(g.tx) = Len(g.state.actions)
    /\ SameRuns(f.state, g.state)

(* _load_state rolls forward and completes the ledgers, whatever write was *)
(* the last before it.                                                     *)
LEMMA LoadPath ==
    ASSUME NEW f, FilesInv(f), f.exists
    PROVE  Path(f, Load(f)) /\ Settled(f, Last(Load(f))) /\ Steady(f.state.active, Load(f))
<1>1. /\ f.tx \in Seq(RequestActions) /\ f.state.actions \in Seq(RequestActions)
      /\ Len(f.tx) \in {Len(f.state.actions), Len(f.state.actions) + 1}
  BY FilesFields DEF FilesInv, History
<1>2. Grew(f, f)
  BY GrewItself
<1>3. CASE InPlace(f)
  <2>1. Load(f) = <<f>>
    BY <1>3 DEF Load
  <2>2. Path(f, <<f>>) /\ Last(<<f>>) = f
    BY <1>2, PathOne
  <2>3. Len(f.tx) = Len(f.state.actions)
    <3>1. Lacking(f) = <<>>
      BY <1>3 DEF InPlace
    <3>. QED BY <1>1, <3>1, LackingNone
  <2>4. Settled(f, f)
    BY <2>3 DEF Settled, SameRuns
  <2>5. Steady(f.state.active, <<f>>)
    BY SteadyOne
  <2>. QED BY <2>1, <2>2, <2>4, <2>5
<1>4. CASE ~InPlace(f)
  <2>1. PICK p : p = Project(f)
    OBVIOUS
  <2>2. /\ Grew(f, p) /\ FilesInv(p) /\ p.state = f.state /\ p.tx = f.tx /\ p.exists = f.exists
        /\ p.archive = f.archive
    BY <2>1, ProjectWrite DEF Grew
  <2>3. PICK r : r = IF Lacking(f) = <<>> THEN <<f, p>> ELSE Sync(<<f, p, RollForward(p)>>)
    OBVIOUS
  <2>4. Load(f) = Sync(Append(r, Commit(Last(r))))
    BY <1>4, <2>1, <2>3 DEF Load
  <2>5. /\ Path(f, r) /\ Last(r).exists /\ Last(r).tx = f.tx /\ Last(r).archive = f.archive
        /\ Len(Last(r).state.actions) = Len(f.tx) /\ SameRuns(f.state, Last(r).state)
        /\ Steady(f.state.active, r)
    <3>1. CASE Lacking(f) = <<>>
      <4>1. Len(f.tx) = Len(f.state.actions)
        BY <1>1, <3>1, LackingNone
      <4>2. Path(f, r) /\ Last(r) = p
        BY <1>2, <2>2, <2>3, <3>1, PathTwo
      <4>3. PICK S : S = {f, p}
        OBVIOUS
      <4>4. Steady(f.state.active, r)
        <5>1. r \in Seq(S) /\ \A g \in S : g.state.active = f.state.active
          BY <2>2, <2>3, <3>1, <4>3
        <5>. QED BY <5>1 DEF Steady
      <4>. QED BY <2>2, <4>1, <4>2, <4>4 DEF SameRuns
    <3>2. CASE Lacking(f) # <<>>
      <4>1. Len(p.tx) # Len(p.state.actions)
        BY <1>1, <2>2, <3>2, LackingNone
      <4>2. PICK q : q = RollForward(p)
        OBVIOUS
      <4>3. /\ Grew(p, q) /\ q.exists /\ q.tx = p.tx /\ q.archive = p.archive
            /\ Len(q.state.actions) = Len(p.tx) /\ SameRuns(p.state, q.state)
        BY <2>2, <4>1, <4>2, RollForwardWrite
      <4>4. PICK steps : steps = <<f, p, q>>
        OBVIOUS
      <4>5. Path(f, steps) /\ Last(steps) = q
        BY <1>2, <2>2, <4>3, <4>4, PathThree
      <4>6. Path(f, Sync(steps)) /\ Alike(q, Last(Sync(steps)))
        BY <4>3, <4>5, PathSync
      <4>7. r = Sync(steps)
        BY <2>3, <3>2, <4>2, <4>4
      <4>8. Path(f, r) /\ Alike(q, Last(r))
        BY <4>6, <4>7
      <4>9. steps \in Seq({f, p, q})
        BY <4>4
      <4>10. Steady(f.state.active, steps)
        BY <2>2, <4>3, <4>9 DEF Steady, SameRuns
      <4>11. Steady(f.state.active, r)
        BY <4>3, <4>5, <4>7, <4>10, SteadySync
      <4>. QED BY <2>2, <4>3, <4>8, <4>11 DEF Alike
    <3>. QED BY <3>1, <3>2
  <2>6. PICK e : e = Last(r)
    OBVIOUS
  <2>7. FilesInv(e)
    BY <2>5, <2>6, PathElements DEF Grew
  <2>8. PICK c : c = Commit(e)
    OBVIOUS
  <2>9. /\ Grew(e, c) /\ c.state = e.state /\ c.tx = e.tx /\ c.exists = e.exists
        /\ c.archive = e.archive
    BY <2>7, <2>8, CommitWrite
  <2>10. PICK steps : steps = Append(r, c)
    OBVIOUS
  <2>11. Path(f, steps) /\ Last(steps) = c
    BY <2>5, <2>6, <2>9, <2>10, PathAppend
  <2>12. c.exists
    BY <2>5, <2>6, <2>9
  <2>13. Path(f, Sync(steps)) /\ Alike(c, Last(Sync(steps)))
    BY <2>11, <2>12, PathSync
  <2>14. Load(f) = Sync(steps)
    BY <2>4, <2>6, <2>8, <2>10
  <2>15. PICK g : g = Last(Load(f))
    OBVIOUS
  <2>16. Path(f, Load(f)) /\ Alike(c, g)
    BY <2>13, <2>14, <2>15
  <2>17. FilesInv(g) /\ g.work = f.work
    BY <2>15, <2>16, PathElements DEF Grew
  <2>18. /\ g.exists /\ g.tx = f.tx /\ g.archive = f.archive /\ g.state = e.state
         /\ Len(e.state.actions) = Len(f.tx) /\ SameRuns(f.state, e.state)
    BY <2>5, <2>6, <2>9, <2>12, <2>16 DEF Alike
  <2>19. Settled(f, g)
    BY <2>17, <2>18 DEF Settled
  <2>20. c.state.active = f.state.active
    BY <2>5, <2>6, <2>9 DEF SameRuns
  <2>21. Steady(f.state.active, steps)
    BY <2>5, <2>10, <2>20, SteadyAppend
  <2>22. Steady(f.state.active, Load(f))
    BY <2>11, <2>12, <2>14, <2>21, SteadySync
  <2>. QED BY <2>15, <2>16, <2>19, <2>22
<1>. QED BY <1>3, <1>4

(* The first active attempt is an attempt.                                 *)
LEMMA FirstActiveIs ==
    ASSUME NEW attempts \in Seq(Attempts), HasActive(attempts),
           \A i, j \in ActiveIn(attempts) : i = j
    PROVE  \E i \in ActiveIn(attempts) : FirstActive(attempts) = attempts[i]
<1>1. PICK i : i \in ActiveIn(attempts) /\ i <= i
  BY DEF HasActive, ActiveIn
<1>2. PICK A : A = ActiveIn(attempts)
  OBVIOUS
<1>3. A = {i}
  BY <1>1, <1>2
<1>4. (CHOOSE k \in A : \A j \in A : k <= j) \in A \/ \A k \in A : ~(\A j \in A : k <= j)
  OBVIOUS
<1>5. FirstActive(attempts) = attempts[CHOOSE k \in A : \A j \in A : k <= j]
  BY <1>2 DEF FirstActive
<1>. QED BY <1>1, <1>2, <1>3, <1>4, <1>5

(* A release that is new and has its prerequisites keeps the history one   *)
(* in which every release is new and has its prerequisites.                *)
LEMMA PrerequiredAppend ==
    ASSUME NEW txs \in Seq(RequestActions), NEW a \in RequestActions, Prerequired(txs),
           a.outcome = "released" => /\ a.req \notin ReleasedIn(txs, a.cp)
                                     /\ Prerequisites[a.req] \subseteq ReleasedIn(txs, a.cp)
    PROVE  Prerequired(Append(txs, a))
<1>1. PICK more : more = Append(txs, a)
  OBVIOUS
<1>2. PICK n \in Nat : n = Len(txs)
  OBVIOUS
<1>3. (\A i \in 1 .. n : more[i] = txs[i]) /\ more[n + 1] = a
  BY <1>1, <1>2
<1>. DEFINE Kept(r) == /\ \A i, j \in r : more[i].req = more[j].req => i = j
                       /\ \A i \in r : Prerequisites[more[i].req]
                                          \subseteq {more[j].req : j \in {k \in r : k < i}}
<1>. SUFFICES Prerequired(more)
  BY <1>1
<1>. SUFFICES ASSUME NEW cp \in Steps PROVE Kept(ReleasedAt(more, cp))
  BY DEF Prerequired
<1>4. PICK r : r = ReleasedAt(more, cp)
  OBVIOUS
<1>5. PICK old : old = ReleasedAt(txs, cp)
  OBVIOUS
<1>6. /\ \A i, j \in old : txs[i].req = txs[j].req => i = j
      /\ \A i \in old : Prerequisites[txs[i].req] \subseteq {txs[j].req : j \in {k \in old : k < i}}
  BY <1>5 DEF Prerequired
<1>7. old \subseteq 1 .. n
  BY <1>2, <1>5, ReleasedAtAppend
<1>8. CASE ~(a.cp = cp /\ a.outcome = "released")
  <2>1. r = old
    BY <1>1, <1>4, <1>5, <1>8, ReleasedAtAppend
  <2>2. \A i \in old : more[i] = txs[i]
    BY <1>3, <1>7
  <2>3. ASSUME NEW i \in r
        PROVE  Prerequisites[more[i].req] \subseteq {more[j].req : j \in {k \in r : k < i}}
    <3>1. {more[j].req : j \in {k \in r : k < i}} = {txs[j].req : j \in {k \in old : k < i}}
      BY <2>1, <2>2
    <3>. QED BY <1>6, <2>1, <2>2, <3>1
  <2>4. \A i, j \in r : more[i].req = more[j].req => i = j
    BY <1>6, <2>1, <2>2
  <2>5. Kept(r)
    BY <2>3, <2>4
  <2>. QED BY <1>4, <2>5
<1>9. CASE a.cp = cp /\ a.outcome = "released"
  <2>1. r = old \cup {n + 1}
    BY <1>1, <1>2, <1>4, <1>5, <1>9, ReleasedAtAppend
  <2>2. \A i \in old : more[i] = txs[i] /\ i < n + 1 /\ i # n + 1
    BY <1>3, <1>7
  <2>3. ReleasedIn(txs, cp) = {txs[i].req : i \in old}
    BY <1>5 DEF ReleasedIn
  <2>4. \A i \in old : txs[i].req # a.req
    BY <1>9, <2>3
  <2>5. \A i, j \in r : more[i].req = more[j].req => i = j
    BY <1>3, <1>6, <2>1, <2>2, <2>4
  <2>6. ASSUME NEW i \in old
        PROVE  Prerequisites[more[i].req] \subseteq {more[j].req : j \in {k \in r : k < i}}
    <3>1. {k \in r : k < i} = {k \in old : k < i}
      <4>1. ~(n + 1 < i)
        BY <1>7
      <4>. QED BY <2>1, <4>1
    <3>2. {more[j].req : j \in {k \in old : k < i}} = {txs[j].req : j \in {k \in old : k < i}}
      BY <2>2
    <3>. QED BY <1>6, <2>2, <3>1, <3>2
  <2>7. Prerequisites[more[n + 1].req] \subseteq {more[j].req : j \in {k \in r : k < n + 1}}
    <3>1. {k \in r : k < n + 1} = old
      <4>1. ~(n + 1 < n + 1)
        OBVIOUS
      <4>. QED BY <2>1, <2>2, <4>1
    <3>2. {more[j].req : j \in old} = {txs[j].req : j \in old}
      BY <2>2
    <3>. QED BY <1>3, <1>9, <2>3, <3>1, <3>2
  <2>8. Kept(r)
    BY <2>1, <2>5, <2>6, <2>7
  <2>. QED BY <1>4, <2>8
<1>. QED BY <1>8, <1>9

(* With nothing lacking, the state's actions are the transactions.         *)
LEMMA NothingLacking ==
    ASSUME NEW f, FilesInv(f), Len(f.tx) = Len(f.state.actions)
    PROVE  f.tx = f.state.actions
<1>1. f.tx \in Seq(RequestActions) /\ f.state.actions \in Seq(RequestActions)
  BY FilesFields
<1>2. \A i \in 1 .. Len(f.tx) : f.tx[i] = f.state.actions[i]
  BY <1>1 DEF FilesInv, History
<1>. QED BY <1>1, <1>2, SeqEqual

(* What a host may ask of the active checkpoint is a request action that   *)
(* rolls forward.                                                          *)
LEMMA ActionFits ==
    ASSUME NEW s \in States, Ordered(s), s.active # 0, HasActive(s.cps[s.active].attempts),
           NEW r \in Requests, NEW session \in Sessions,
           FirstActive(s.cps[s.active].attempts).session = session
    PROVE  /\ Action(s, r, session) \in RequestActions
           /\ Action(s, r, session).cp = s.active
           /\ RollsForward(s, Action(s, r, session))
           /\ Action(s, r, session).outcome = "released" =>
                 /\ Action(s, r, session).before > 0
                 /\ Action(s, r, session).req \notin ReleasedIn(s.actions, s.active)
                 /\ Prerequisites[Action(s, r, session).req] \subseteq ReleasedIn(s.actions, s.active)
<1>1. s.active \in Steps
  BY ActiveUnsubmitted
<1>2. PICK cp \in Steps : cp = s.active
  BY <1>1
<1>3. PICK run \in CheckpointRuns : run = s.cps[cp]
  BY DEF States
<1>4. PICK b \in 0 .. RequestBudget : b = run.budget
  BY DEF CheckpointRuns
<1>5. PICK seen : seen = ReleasedIn(s.actions, cp)
  OBVIOUS
<1>6. seen \in Views
  <2>1. s.actions \in Seq(RequestActions)
    BY DEF States
  <2>2. \A i \in DOMAIN s.actions : s.actions[i].req \in Requests
    <3>1. \A i \in DOMAIN s.actions : s.actions[i] \in RequestActions
      BY <2>1
    <3>2. \A a \in RequestActions : a.req \in Requests
      BY DEF RequestActions
    <3>. QED BY <3>1, <3>2
  <2>. QED BY <1>5, <2>2 DEF ReleasedIn, ReleasedAt, Views
<1>7. PICK o : o = Outcome(s, r)
  OBVIOUS
<1>8. o = IF r \in seen THEN "already_released"
          ELSE IF Prerequisites[r] \subseteq seen /\ b > 0 THEN "released" ELSE "rejected"
  BY <1>2, <1>3, <1>4, <1>5, <1>7 DEF Outcome
<1>9. o \in Outcomes
  BY <1>8 DEF Outcomes
<1>10. PICK a : a = Action(s, r, session)
  OBVIOUS
<1>11. a = [cp |-> cp, req |-> r, outcome |-> o, session |-> session, before |-> b, view |-> seen]
  BY <1>2, <1>3, <1>4, <1>5, <1>7, <1>10 DEF Action
<1>12. a \in RequestActions
  BY <1>6, <1>9, <1>11 DEF RequestActions
<1>13. /\ a.cp = cp /\ a.req = r /\ a.outcome = o /\ a.session = session /\ a.before = b
       /\ a.view = seen
  BY <1>11
<1>14. RollsForward(s, a)
  <2>1. \A i, j \in ActiveIn(run.attempts) : i = j
    BY <1>3 DEF Ordered
  <2>2. PICK i \in ActiveIn(run.attempts) : FirstActive(run.attempts) = run.attempts[i]
    <3>1. HasActive(run.attempts) /\ run.attempts \in Seq(Attempts)
      BY <1>2, <1>3 DEF CheckpointRuns
    <3>. QED BY <2>1, <3>1, FirstActiveIs
  <2>3. i \in DOMAIN run.attempts /\ run.attempts[i].session = session
    BY <1>2, <1>3, <2>2 DEF ActiveIn
  <2>. QED BY <1>3, <1>4, <1>5, <1>13, <2>3 DEF RollsForward
<1>15. o = "released" => b > 0 /\ r \notin seen /\ Prerequisites[r] \subseteq seen
  BY <1>8
<1>. QED BY <1>2, <1>5, <1>10, <1>12, <1>13, <1>14, <1>15

(* A canonical transaction is written ahead of the state.                  *)
LEMMA BeginWrite ==
    ASSUME NEW f, FilesInv(f), f.exists, Len(f.tx) = Len(f.state.actions),
           NEW a \in RequestActions, a.cp = f.state.active, RollsForward(f.state, a),
           a.outcome = "released" => /\ a.before > 0
                                     /\ a.req \notin ReleasedIn(f.state.actions, f.state.active)
                                     /\ Prerequisites[a.req]
                                           \subseteq ReleasedIn(f.state.actions, f.state.active),
           NEW g, g = [f EXCEPT !.tx = Append(@, a)]
    PROVE  /\ Grew(f, g) /\ g.exists /\ g.state = f.state /\ g.archive = f.archive
           /\ Len(g.tx) = Len(g.state.actions) + 1 /\ g.tx[Len(g.tx)] = a
<1>1. PICK s \in States : s = f.state
  BY FilesFields
<1>2. PICK n \in Nat : n = Len(s.actions)
  BY <1>1, FilesFields
<1>3. f.tx = s.actions /\ s.actions \in Seq(RequestActions)
  BY <1>1, NothingLacking, FilesFields
<1>4. PICK more \in Seq(RequestActions) : more = Append(s.actions, a)
  <2>1. Append(s.actions, a) \in Seq(RequestActions)
    BY <1>3, AppendProperties
  <2>. QED BY <2>1
<1>5. /\ Len(more) = n + 1 /\ more[n + 1] = a /\ DOMAIN more = 1 .. n + 1
      /\ \A i \in 1 .. n : more[i] = s.actions[i]
      /\ DOMAIN s.actions = 1 .. n
  <2>1. DOMAIN s.actions = 1 .. n
    BY <1>2, <1>3
  <2>2. Len(more) = n + 1 /\ more[n + 1] = a /\ \A i \in 1 .. n : more[i] = s.actions[i]
    BY <1>2, <1>3, <1>4, AppendProperties
  <2>3. DOMAIN more = 1 .. n + 1
    BY <1>4, <2>2
  <2>. QED BY <2>1, <2>2, <2>3
<1>6. g = [f EXCEPT !.tx = more]
  BY <1>3, <1>4
<1>7. /\ FilesOK(f) /\ Ledgers(f) /\ Prerequired(f.tx) /\ Archives(f) /\ Accounted(f.state)
      /\ Ordered(f.state)
  BY DEF FilesInv
<1>8. /\ g.exists = f.exists /\ g.state = s /\ g.tx = more /\ g.archive = f.archive /\ g.work = f.work
      /\ g.moves = f.moves /\ g.asks = f.asks /\ g.committed = f.committed
  BY <1>1, <1>6, <1>7 DEF FilesOK
<1>9. g.committed \subseteq DOMAIN g.tx
  BY <1>3, <1>5, <1>7, <1>8 DEF FilesOK
<1>10. FilesOK(g)
  BY <1>6, <1>7, <1>8, <1>9 DEF FilesOK
<1>11. History(g)
  BY <1>2, <1>5, <1>8 DEF History
<1>12. Pending(g)
  BY <1>1, <1>2, <1>5, <1>8 DEF Pending
<1>13. Prerequired(g.tx)
  BY <1>1, <1>3, <1>4, <1>7, <1>8, PrerequiredAppend
<1>14. Ledgers(g) /\ Archives(g)
  BY <1>1, <1>7, <1>8 DEF Ledgers, Archives
<1>15. FilesInv(g)
  BY <1>1, <1>7, <1>8, <1>10, <1>11, <1>12, <1>13, <1>14 DEF FilesInv
<1>16. Grew(f, g)
  BY <1>1, <1>8, <1>15 DEF Grew
<1>. QED BY <1>1, <1>2, <1>5, <1>8, <1>16

(* _record_evidence_request_action, from the transaction to its marker.    *)
LEMMA RecordPath ==
    ASSUME NEW f, FilesInv(f), f.exists, Len(f.tx) = Len(f.state.actions),
           NEW a \in RequestActions, a.cp = f.state.active, RollsForward(f.state, a),
           a.outcome = "released" => /\ a.before > 0
                                     /\ a.req \notin ReleasedIn(f.state.actions, f.state.active)
                                     /\ Prerequisites[a.req]
                                           \subseteq ReleasedIn(f.state.actions, f.state.active)
    PROVE  Path(f, Record(f, a)) /\ SameRuns(f.state, Last(Record(f, a)).state)
<1>1. PICK g : g = [f EXCEPT !.tx = Append(@, a)]
  OBVIOUS
<1>2. /\ Grew(f, g) /\ g.exists /\ g.state = f.state
      /\ Len(g.tx) = Len(g.state.actions) + 1 /\ g.tx[Len(g.tx)] = a
  BY <1>1, BeginWrite
<1>3. PICK p : p = Project(g)
  OBVIOUS
<1>4. Grew(g, p) /\ FilesInv(p) /\ p.state = g.state /\ p.tx = g.tx /\ p.exists = g.exists
  BY <1>2, <1>3, ProjectWrite DEF Grew
<1>5. PICK q : q = RollForward(p)
  OBVIOUS
<1>6. Len(p.tx) # Len(p.state.actions) /\ Len(p.tx) = Len(p.state.actions) + 1
  <2>1. Len(p.state.actions) \in Nat
    BY <1>4, FilesFields
  <2>. QED BY <1>2, <1>4, <2>1
<1>7. Grew(p, q) /\ q.exists /\ SameRuns(p.state, q.state)
  BY <1>4, <1>5, <1>6, RollForwardWrite
<1>8. Lacking(p) = <<a>>
  <2>1. p.tx \in Seq(RequestActions) /\ p.state.actions \in Seq(RequestActions)
    BY <1>4, FilesFields
  <2>. QED BY <1>2, <1>4, <1>6, <2>1, LackingOne
<1>9. [p EXCEPT !.state = Applied(@, <<a>>)] = q
  BY <1>5, <1>8 DEF RollForward
<1>10. PICK steps : steps = <<g, p, q>>
  OBVIOUS
<1>11. Path(f, steps) /\ Last(steps) = q
  BY <1>2, <1>4, <1>7, <1>10, PathThree
<1>12. PICK saved : saved = Sync(steps)
  OBVIOUS
<1>13. Path(f, saved) /\ Alike(q, Last(saved))
  BY <1>7, <1>11, <1>12, PathSync
<1>14. PICK e : e = Last(saved)
  OBVIOUS
<1>15. FilesInv(e)
  BY <1>13, <1>14, PathElements DEF Grew
<1>16. PICK c : c = Commit(e)
  OBVIOUS
<1>17. Grew(e, c) /\ c.state = e.state
  BY <1>15, <1>16, CommitWrite
<1>18. Record(f, a) = Append(saved, c)
  BY <1>1, <1>3, <1>9, <1>10, <1>12, <1>14, <1>16 DEF Record
<1>19. Path(f, Append(saved, c)) /\ Last(Append(saved, c)) = c
  BY <1>13, <1>14, <1>17, PathAppend
<1>20. SameRuns(f.state, c.state)
  BY <1>2, <1>4, <1>7, <1>13, <1>14, <1>17 DEF Alike
<1>. QED BY <1>18, <1>19, <1>20

-----------------------------------------------------------------------------
(* Writes of the state.                                                    *)

(* A state that keeps the history and the budgets is written.              *)
LEMMA StateWrite ==
    ASSUME NEW f, FilesInv(f), f.exists, Len(f.tx) = Len(f.state.actions),
           NEW t \in States, t.actions = f.state.actions, t.transitions >= f.state.transitions,
           \A cp \in Steps : t.cps[cp].budget = f.state.cps[cp].budget,
           Ordered(t),
           \A cp \in Submitted(f.state) : t.cps[cp] = f.state.cps[cp] /\ cp \in Submitted(t),
           \A cp \in Submitted(t) \ Submitted(f.state) :
              t.cps[cp].sub = f.work[cp] /\ f.archive[cp] = f.work[cp],
           NEW g, g = [f EXCEPT !.state = t]
    PROVE  Grew(f, g) /\ g.state = t /\ g.exists
<1>1. PICK s \in States : s = f.state
  BY FilesFields
<1>2. FilesOK(f) /\ Ledgers(f) /\ Prerequired(f.tx) /\ Archives(f) /\ Accounted(s) /\ History(f)
  BY <1>1 DEF FilesInv
<1>3. /\ g.exists = f.exists /\ g.state = t /\ g.tx = f.tx /\ g.archive = f.archive /\ g.work = f.work
      /\ g.moves = f.moves /\ g.asks = f.asks
  BY <1>2 DEF FilesOK
<1>4. FilesOK(g)
  BY <1>2 DEF FilesOK
<1>5. History(g) /\ Pending(g)
  BY <1>1, <1>2, <1>3 DEF History, Pending
<1>6. Accounted(t)
  BY <1>1, <1>2 DEF Accounted
<1>7. Ledgers(g)
  <2>1. s.transitions \in Nat /\ t.transitions \in Nat /\ Len(f.moves) \in Nat
    BY <1>1, FilesFields DEF States
  <2>. QED BY <1>1, <1>2, <1>3, <2>1 DEF Ledgers
<1>8. Archives(g)
  BY <1>2, <1>3 DEF Archives
<1>9. FilesInv(g)
  BY <1>2, <1>3, <1>4, <1>5, <1>6, <1>7, <1>8 DEF FilesInv
<1>10. Grew(f, g)
  BY <1>3, <1>9 DEF Grew
<1>. QED BY <1>3, <1>10

(* _write_state and the transition ledger after it.                        *)
LEMMA SavePath ==
    ASSUME NEW f, NEW t, Grew(f, [f EXCEPT !.state = t]), [f EXCEPT !.state = t].exists,
           [f EXCEPT !.state = t].state = t
    PROVE  Path(f, Save(f, t)) /\ Last(Save(f, t)).state = t /\ Steady(t.active, Save(f, t))
<1>1. PICK g : g = [f EXCEPT !.state = t]
  OBVIOUS
<1>2. Path(f, <<g>>) /\ Last(<<g>>) = g
  BY <1>1, PathOne
<1>3. Path(f, WithMoves(<<g>>)) /\ Last(WithMoves(<<g>>)) = MovesDone(g)
  BY <1>1, <1>2, PathMoves
<1>4. FilesOK(g)
  BY <1>1 DEF Grew, FilesInv
<1>5. MovesDone(g).state = t
  BY <1>1, <1>4 DEF MovesDone, FilesOK
<1>6. Steady(t.active, <<g>>)
  BY <1>1, SteadyOne
<1>7. Steady(t.active, WithMoves(<<g>>))
  BY <1>1, <1>2, <1>6, SteadySync
<1>. QED BY <1>1, <1>3, <1>5, <1>7 DEF Save

(* How many checkpoints an ordered state has accepted.                     *)
LEMMA OrderedHas ==
    ASSUME NEW s \in States, Ordered(s)
    PROVE  \E n \in Nat :
              /\ n = Cardinality(Submitted(s)) /\ n <= Checkpoints
              /\ Submitted(s) = 1 .. n /\ s.active \in {0, n + 1}
<1>1. PICK n : n = Cardinality(Submitted(s))
  OBVIOUS
<1>2. Submitted(s) = 1 .. n /\ s.active \in {0, n + 1}
  BY <1>1 DEF Ordered
<1>3. Checkpoints \in Nat
  BY LifecycleConstants
<1>4. Submitted(s) \subseteq Steps
  BY DEF Submitted
<1>5. IsFiniteSet(Steps) /\ Cardinality(Steps) = Checkpoints
  <2>1. 1 \in Int /\ Checkpoints \in Int /\ 1 <= Checkpoints + 1 /\ Checkpoints - 1 + 1 = Checkpoints
    BY <1>3
  <2>. QED BY <2>1, CountBetween DEF Steps
<1>6. IsFiniteSet(Submitted(s)) /\ Cardinality(Submitted(s)) <= Checkpoints
  BY <1>4, <1>5, FS_Subset
<1>7. n \in Nat
  BY <1>1, <1>6, FS_CardinalityType
<1>. QED BY <1>1, <1>2, <1>6, <1>7

(* An ordered state, by how many checkpoints it has accepted.              *)
LEMMA OrderedBy ==
    ASSUME NEW t, NEW n \in Nat, Submitted(t) = 1 .. n, t.active \in {0, n + 1},
           \A cp \in Steps : /\ \A i, j \in ActiveIn(t.cps[cp].attempts) : i = j
                             /\ HasActive(t.cps[cp].attempts) => t.active = cp
    PROVE  Ordered(t)
<1>1. n \in Int /\ 1 \in Int /\ 1 <= n + 1 /\ n - 1 + 1 = n
  OBVIOUS
<1>2. Cardinality(1 .. n) = n
  BY <1>1, CountBetween
<1>. QED BY <1>2 DEF Ordered

(* A state that differs in the run of one checkpoint, not yet accepted.    *)
LEMMA OneRun ==
    ASSUME NEW s \in States, NEW cp \in Steps, cp \notin Submitted(s), NEW t,
           t.cps[cp].budget = s.cps[cp].budget,
           \A c \in Steps \ {cp} : t.cps[c] = s.cps[c]
    PROVE  /\ \A c \in Steps : t.cps[c].budget = s.cps[c].budget
           /\ \A c \in Submitted(s) : t.cps[c] = s.cps[c] /\ c \in Submitted(t)
           /\ t.cps[cp].status = "submitted" => Submitted(t) = Submitted(s) \cup {cp}
           /\ t.cps[cp].status # "submitted" => Submitted(t) = Submitted(s)
BY DEF Submitted

(* Attempts of which none is left active.                                  *)
LEMMA MarkedNone ==
    ASSUME NEW attempts \in Seq(Attempts), NEW status \in {"submitted", "interrupted", "failed"}
    PROVE  /\ Marked(attempts, status) \in Seq(Attempts)
           /\ Len(Marked(attempts, status)) = Len(attempts)
           /\ ActiveIn(Marked(attempts, status)) = {}
<1>1. PICK m : m = Marked(attempts, status)
  OBVIOUS
<1>2. DOMAIN attempts = 1 .. Len(attempts) /\ Len(attempts) \in Nat
  OBVIOUS
<1>3. ASSUME NEW i \in 1 .. Len(attempts) PROVE m[i] \in Attempts /\ m[i].status # "active"
  <2>1. PICK a \in Attempts : a = attempts[i]
    BY <1>2
  <2>2. m[i] = IF a.status = "active" THEN [a EXCEPT !.status = status] ELSE a
    BY <1>1, <1>2, <2>1 DEF Marked
  <2>3. CASE a.status = "active"
    <3>1. m[i] = [a EXCEPT !.status = status]
      BY <2>2, <2>3
    <3>. QED BY <3>1 DEF Attempts
  <2>4. CASE a.status # "active"
    BY <2>2, <2>4
  <2>. QED BY <2>3, <2>4
<1>4. m = [i \in 1 .. Len(attempts) |-> m[i]]
  BY <1>1, <1>2 DEF Marked
<1>5. m \in [1 .. Len(attempts) -> Attempts]
  BY <1>3, <1>4
<1>6. m \in Seq(Attempts) /\ Len(m) = Len(attempts)
  BY <1>2, <1>5
<1>7. ActiveIn(m) = {}
  BY <1>3, <1>4 DEF ActiveIn
<1>. QED BY <1>1, <1>6, <1>7

(* reduce_release releases the checkpoint after the accepted ones.         *)
LEMMA ReleaseState ==
    ASSUME NEW s \in States, Ordered(s), ~IsComplete(s), s.active = 0
    PROVE  /\ Release(s) \in States /\ Release(s).actions = s.actions
           /\ Release(s).transitions >= s.transitions /\ Ordered(Release(s))
           /\ \A c \in Steps : Release(s).cps[c].budget = s.cps[c].budget
           /\ \A c \in Submitted(s) : Release(s).cps[c] = s.cps[c] /\ c \in Submitted(Release(s))
           /\ Submitted(Release(s)) = Submitted(s) /\ Release(s).active \in Steps
<1>1. PICK n \in Nat : /\ n = Cardinality(Submitted(s)) /\ n <= Checkpoints
                       /\ Submitted(s) = 1 .. n
  BY OrderedHas
<1>2. Checkpoints \in Nat
  BY LifecycleConstants
<1>3. n # Checkpoints
  BY <1>1 DEF IsComplete, Steps
<1>4. PICK cp \in Steps : cp = n + 1
  BY <1>1, <1>2, <1>3 DEF Steps
<1>5. cp \notin Submitted(s)
  <2>1. n + 1 \notin 1 .. n
    OBVIOUS
  <2>. QED BY <1>1, <1>4, <2>1
<1>6. PICK old \in CheckpointRuns : old = s.cps[cp]
  BY DEF States
<1>7. PICK run : run = [old EXCEPT !.status = "active"]
  OBVIOUS
<1>8. /\ run \in CheckpointRuns /\ run.budget = old.budget /\ run.status # "submitted"
      /\ run.attempts = old.attempts
  BY <1>7 DEF CheckpointRuns
<1>9. PICK t : t = Release(s)
  OBVIOUS
<1>10. PICK runs : runs = [s.cps EXCEPT ![cp] = run]
  OBVIOUS
<1>11. s.transitions \in Nat /\ s.cps \in [Steps -> CheckpointRuns] /\ cp \in 0 .. Checkpoints
  BY <1>2 DEF States, Steps
<1>12. t = [s EXCEPT !.active = cp, !.cps = runs, !.transitions = s.transitions + 1]
  <2>1. t = [s EXCEPT !.active = cp, !.cps[cp].status = "active", !.transitions = @ + 1]
    BY <1>1, <1>4, <1>9 DEF Release
  <2>2. runs = [s.cps EXCEPT ![cp].status = "active"]
    BY <1>6, <1>7, <1>10, <1>11
  <2>. QED BY <2>1, <2>2 DEF States
<1>13. /\ t.active = cp /\ t.cps = runs /\ t.transitions = s.transitions + 1
       /\ t.actions = s.actions
  BY <1>12 DEF States
<1>14. /\ t.cps \in [Steps -> CheckpointRuns] /\ t.cps[cp] = run
       /\ \A c \in Steps : t.cps[c].budget = s.cps[c].budget
       /\ \A c \in Steps \ {cp} : t.cps[c] = s.cps[c]
       /\ \A c \in Submitted(s) : t.cps[c] = s.cps[c] /\ c \in Submitted(t)
       /\ Submitted(t) = Submitted(s)
  <2>1. /\ t.cps \in [Steps -> CheckpointRuns] /\ t.cps[cp] = run
        /\ \A c \in Steps \ {cp} : t.cps[c] = s.cps[c]
    BY <1>8, <1>10, <1>11, <1>13
  <2>2. t.cps[cp].budget = s.cps[cp].budget /\ t.cps[cp].status # "submitted"
    BY <1>6, <1>8, <2>1
  <2>. QED BY <1>5, <2>1, <2>2, OneRun
<1>15. t \in States
  <2>1. PICK k \in Nat : k = s.transitions + 1
    BY <1>11
  <2>. QED BY <1>11, <1>12, <1>13, <1>14, <2>1 DEF States
<1>16. \A c \in Steps : ActiveIn(t.cps[c].attempts) = {}
  <2>1. \A c \in Steps : c # 0 /\ t.cps[c].attempts = s.cps[c].attempts
    BY <1>6, <1>8, <1>14 DEF Steps
  <2>. QED BY <2>1 DEF Ordered, HasActive
<1>17. Ordered(t)
  <2>1. \A c \in Steps : /\ \A i, j \in ActiveIn(t.cps[c].attempts) : i = j
                         /\ HasActive(t.cps[c].attempts) => t.active = c
    BY <1>16 DEF HasActive
  <2>2. Submitted(t) = 1 .. n /\ t.active \in {0, n + 1}
    BY <1>1, <1>4, <1>13, <1>14
  <2>. QED BY <2>1, <2>2, OrderedBy
<1>. QED BY <1>9, <1>11, <1>13, <1>14, <1>15, <1>17

(* The attempts of the active checkpoint are written.                      *)
WithAttempts(s, m) == [s EXCEPT !.cps[s.active].attempts = m]

(* With one active at most, such a state is as ordered as before.          *)
LEMMA AttemptsState ==
    ASSUME NEW s \in States, Ordered(s), s.active # 0, NEW m \in Seq(Attempts),
           \A i, j \in ActiveIn(m) : i = j
    PROVE  LET t == WithAttempts(s, m)
           IN /\ t \in States /\ t.actions = s.actions /\ t.transitions >= s.transitions
              /\ Ordered(t) /\ t.active = s.active
              /\ \A c \in Steps : t.cps[c].budget = s.cps[c].budget
              /\ \A c \in Submitted(s) : t.cps[c] = s.cps[c] /\ c \in Submitted(t)
              /\ Submitted(t) = Submitted(s)
<1>0. PICK t : t = WithAttempts(s, m)
  OBVIOUS
<1>1. PICK cp \in Steps : cp = s.active /\ cp \notin Submitted(s)
  BY ActiveUnsubmitted
<1>2. PICK old \in CheckpointRuns : old = s.cps[cp]
  BY DEF States
<1>3. PICK run : run = [old EXCEPT !.attempts = m]
  OBVIOUS
<1>4. /\ run \in CheckpointRuns /\ run.budget = old.budget /\ run.status = old.status
      /\ run.attempts = m
  BY <1>3 DEF CheckpointRuns
<1>5. PICK runs : runs = [s.cps EXCEPT ![cp] = run]
  OBVIOUS
<1>6. s.transitions \in Nat /\ s.cps \in [Steps -> CheckpointRuns]
  BY DEF States
<1>7. t = [s EXCEPT !.cps = runs]
  <2>1. runs = [s.cps EXCEPT ![cp].attempts = m]
    BY <1>2, <1>3, <1>5, <1>6
  <2>2. t = [s EXCEPT !.cps = [s.cps EXCEPT ![cp].attempts = m]]
    BY <1>0, <1>1 DEF WithAttempts
  <2>. QED BY <2>1, <2>2
<1>8. runs \in [Steps -> CheckpointRuns] /\ runs[cp] = run /\ \A c \in Steps \ {cp} : runs[c] = s.cps[c]
  BY <1>4, <1>5, <1>6
<1>9. /\ t \in States /\ t.active = s.active /\ t.cps = runs /\ t.transitions = s.transitions
      /\ t.actions = s.actions
  BY <1>7, <1>8 DEF States
<1>10. old.status # "submitted"
  BY <1>1, <1>2 DEF Submitted
<1>11. /\ \A c \in Steps : t.cps[c].budget = s.cps[c].budget
       /\ \A c \in Submitted(s) : t.cps[c] = s.cps[c] /\ c \in Submitted(t)
       /\ Submitted(t) = Submitted(s)
  <2>1. /\ t.cps[cp].budget = s.cps[cp].budget /\ t.cps[cp].status # "submitted"
        /\ \A c \in Steps \ {cp} : t.cps[c] = s.cps[c]
    BY <1>2, <1>4, <1>8, <1>9, <1>10
  <2>. QED BY <1>1, <2>1, OneRun
<1>12. \A c \in Steps : /\ \A i, j \in ActiveIn(t.cps[c].attempts) : i = j
                        /\ HasActive(t.cps[c].attempts) => t.active = c
  <2>1. ASSUME NEW c \in Steps, c # cp
        PROVE  /\ \A i, j \in ActiveIn(t.cps[c].attempts) : i = j
               /\ HasActive(t.cps[c].attempts) => t.active = c
    BY <1>8, <1>9, <2>1 DEF Ordered
  <2>2. \A i, j \in ActiveIn(t.cps[cp].attempts) : i = j
    BY <1>4, <1>8, <1>9
  <2>. QED BY <1>1, <1>9, <2>1, <2>2
<1>13. Ordered(t)
  <2>1. PICK n \in Nat : Submitted(s) = 1 .. n /\ s.active \in {0, n + 1}
    BY OrderedHas
  <2>2. Submitted(t) = 1 .. n /\ t.active \in {0, n + 1}
    BY <1>9, <1>11, <2>1
  <2>. QED BY <1>12, <2>2, OrderedBy
<1>. QED BY <1>0, <1>6, <1>9, <1>11, <1>13

(* reduce_submit accepts the submission of the active checkpoint.          *)
LEMMA AcceptedState ==
    ASSUME NEW s \in States, Ordered(s), s.active # 0, NEW content \in Contents
    PROVE  LET t == Accepted(s, content)
           IN /\ t \in States /\ t.actions = s.actions /\ t.transitions >= s.transitions
              /\ Ordered(t)
              /\ \A c \in Steps : t.cps[c].budget = s.cps[c].budget
              /\ \A c \in Submitted(s) : t.cps[c] = s.cps[c] /\ c \in Submitted(t)
              /\ Submitted(t) = Submitted(s) \cup {s.active}
              /\ t.cps[s.active].sub = content
<1>1. PICK cp \in Steps : cp = s.active /\ cp \notin Submitted(s)
  BY ActiveUnsubmitted
<1>2. PICK old \in CheckpointRuns : old = s.cps[cp]
  BY DEF States
<1>3. PICK m \in Seq(Attempts) : m = Marked(old.attempts, "submitted") /\ ActiveIn(m) = {}
  <2>1. old.attempts \in Seq(Attempts)
    BY DEF CheckpointRuns
  <2>. QED BY <2>1, MarkedNone
<1>4. PICK run : run = [old EXCEPT !.status = "submitted", !.sub = content, !.attempts = m]
  OBVIOUS
<1>5. /\ run \in CheckpointRuns /\ run.budget = old.budget /\ run.status = "submitted"
      /\ run.sub = content /\ run.attempts = m
  BY <1>4 DEF CheckpointRuns
<1>6. PICK runs : runs = [s.cps EXCEPT ![cp] = run]
  OBVIOUS
<1>7. s.transitions \in Nat /\ s.cps \in [Steps -> CheckpointRuns] /\ 0 \in 0 .. Checkpoints
  BY LifecycleConstants DEF States
<1>8. PICK k \in Nat : k = s.transitions + 1
  BY <1>7
<1>9. PICK t : t = Accepted(s, content)
  OBVIOUS
<1>10. t = [s EXCEPT !.active = 0, !.transitions = k, !.cps = runs]
  <2>1. t = [s EXCEPT !.active = 0, !.transitions = @ + 1,
                      !.cps[s.active] = AcceptedRun(@, content)]
    BY <1>9 DEF Accepted
  <2>2. AcceptedRun(s.cps[cp], content) = run
    BY <1>2, <1>3, <1>4 DEF AcceptedRun
  <2>. QED BY <1>1, <1>6, <1>8, <2>1, <2>2
<1>11. runs \in [Steps -> CheckpointRuns] /\ runs[cp] = run /\ \A c \in Steps \ {cp} : runs[c] = s.cps[c]
  BY <1>5, <1>6, <1>7
<1>12. t \in States /\ t.active = 0 /\ t.cps = runs /\ t.transitions = k /\ t.actions = s.actions
  BY <1>7, <1>10, <1>11 DEF States
<1>13. /\ \A c \in Steps : t.cps[c].budget = s.cps[c].budget
       /\ \A c \in Submitted(s) : t.cps[c] = s.cps[c] /\ c \in Submitted(t)
       /\ Submitted(t) = Submitted(s) \cup {cp}
  <2>1. /\ t.cps[cp].budget = s.cps[cp].budget /\ t.cps[cp].status = "submitted"
        /\ \A c \in Steps \ {cp} : t.cps[c] = s.cps[c]
    BY <1>2, <1>5, <1>11, <1>12
  <2>. QED BY <1>1, <2>1, OneRun
<1>14. \A c \in Steps : ActiveIn(t.cps[c].attempts) = {}
  <2>1. ASSUME NEW c \in Steps, c # cp PROVE ActiveIn(t.cps[c].attempts) = {}
    BY <1>1, <1>11, <1>12, <2>1 DEF Ordered, HasActive
  <2>2. ActiveIn(t.cps[cp].attempts) = {}
    BY <1>3, <1>5, <1>11, <1>12
  <2>. QED BY <2>1, <2>2
<1>15. Ordered(t)
  <2>1. PICK n \in Nat : Submitted(s) = 1 .. n /\ s.active \in {0, n + 1}
    BY OrderedHas
  <2>2. Submitted(t) = 1 .. (n + 1) /\ t.active \in {0, (n + 1) + 1} /\ n + 1 \in Nat
    BY <1>1, <1>12, <1>13, <2>1
  <2>3. \A c \in Steps : /\ \A i, j \in ActiveIn(t.cps[c].attempts) : i = j
                         /\ HasActive(t.cps[c].attempts) => t.active = c
    BY <1>14 DEF HasActive
  <2>. QED BY <2>2, <2>3, OrderedBy
<1>16. t.cps[s.active].sub = content /\ t.transitions >= s.transitions
  BY <1>1, <1>5, <1>7, <1>8, <1>11, <1>12
<1>. QED BY <1>1, <1>9, <1>12, <1>13, <1>15, <1>16

(* The submission of the active checkpoint is archived.                    *)
LEMMA ArchivedWrite ==
    ASSUME NEW f, FilesInv(f), f.exists, f.state.active # 0, NEW content \in Optional
    PROVE  LET g == Archived(f, content)
           IN /\ Grew(f, g) /\ g.exists /\ g.state = f.state /\ g.tx = f.tx
              /\ g.archive[f.state.active] = content
<1>1. PICK s \in States : s = f.state
  BY FilesFields
<1>2. PICK g : g = Archived(f, content)
  OBVIOUS
<1>3. /\ FilesOK(f) /\ Ledgers(f) /\ Prerequired(f.tx) /\ Archives(f) /\ Accounted(s) /\ History(f)
      /\ Pending(f) /\ Ordered(s)
  BY <1>1 DEF FilesInv
<1>4. PICK cp \in Steps : cp = s.active /\ cp \notin Submitted(s)
  BY <1>1, <1>3, ActiveUnsubmitted
<1>5. PICK archive : archive = [f.archive EXCEPT ![cp] = content]
  OBVIOUS
<1>6. f.archive \in [Steps -> Optional]
  BY FilesFields
<1>7. /\ archive \in [Steps -> Optional] /\ archive[cp] = content
      /\ \A c \in Steps \ {cp} : archive[c] = f.archive[c]
  BY <1>5, <1>6
<1>8. g = [f EXCEPT !.archive = archive]
  BY <1>1, <1>2, <1>4, <1>5 DEF Archived
<1>9. /\ g.exists = f.exists /\ g.state = s /\ g.tx = f.tx /\ g.archive = archive /\ g.work = f.work
      /\ g.moves = f.moves /\ g.asks = f.asks
  BY <1>1, <1>3, <1>8 DEF FilesOK
<1>10. FilesOK(g)
  BY <1>3, <1>7, <1>8 DEF FilesOK
<1>11. History(g) /\ Pending(g) /\ Ledgers(g)
  BY <1>1, <1>3, <1>9 DEF History, Pending, Ledgers
<1>12. \A c \in Submitted(s) : archive[c] = f.archive[c]
  BY <1>4, <1>7 DEF Submitted
<1>13. Archives(g)
  BY <1>1, <1>3, <1>9, <1>12 DEF Archives
<1>14. FilesInv(g)
  BY <1>3, <1>9, <1>10, <1>11, <1>13 DEF FilesInv
<1>15. Grew(f, g)
  BY <1>1, <1>9, <1>12, <1>14 DEF Grew
<1>. QED BY <1>1, <1>2, <1>4, <1>7, <1>9, <1>15

(* submit_checkpoint: the archive, the state, the ledger.                  *)
LEMMA AcceptPath ==
    ASSUME NEW f, FilesInv(f), f.exists, Len(f.tx) = Len(f.state.actions), f.state.active # 0,
           NEW content \in Contents, content = f.work[f.state.active]
    PROVE  Path(f, Accept(f, content))
<1>1. PICK g : g = Archived(f, content)
  OBVIOUS
<1>2. /\ Grew(f, g) /\ g.exists /\ g.state = f.state /\ g.tx = f.tx
      /\ g.archive[f.state.active] = content
  BY <1>1, ArchivedWrite DEF Optional
<1>3. FilesInv(g) /\ g.work = f.work
  BY <1>2 DEF Grew
<1>4. PICK s \in States : s = f.state /\ Ordered(s)
  BY FilesFields DEF FilesInv
<1>5. PICK t : t = Accepted(s, content)
  OBVIOUS
<1>6. /\ t \in States /\ t.actions = s.actions /\ t.transitions >= s.transitions
      /\ Ordered(t)
      /\ \A c \in Steps : t.cps[c].budget = s.cps[c].budget
      /\ \A c \in Submitted(s) : t.cps[c] = s.cps[c] /\ c \in Submitted(t)
      /\ Submitted(t) = Submitted(s) \cup {s.active}
      /\ t.cps[s.active].sub = content
  BY <1>4, <1>5, AcceptedState
<1>7. \A c \in Submitted(t) \ Submitted(s) : t.cps[c].sub = g.work[c] /\ g.archive[c] = g.work[c]
  BY <1>2, <1>3, <1>4, <1>6
<1>8. PICK k : k = [g EXCEPT !.state = t]
  OBVIOUS
<1>9. Grew(g, k) /\ k.state = t /\ k.exists
  BY <1>2, <1>3, <1>4, <1>6, <1>7, <1>8, StateWrite
<1>10. Path(g, Save(g, t))
  BY <1>8, <1>9, SavePath
<1>11. Path(f, <<g>>) /\ Last(<<g>>) = g
  BY <1>2, PathOne
<1>12. Path(f, <<g>> \o Save(g, t))
  BY <1>10, <1>11, PathPath
<1>. QED BY <1>1, <1>4, <1>5, <1>12 DEF Accept

(* release_checkpoint creates the state, or loads it.                      *)
LEMMA OpenedPath ==
    ASSUME NEW f, FilesInv(f)
    PROVE  Path(f, Opened(f)) /\ Settled(f, Last(Opened(f)))
<1>1. CASE f.exists
  BY <1>1, LoadPath DEF Opened
<1>2. CASE ~f.exists
  <2>1. PICK g : g = Created(f)
    OBVIOUS
  <2>2. /\ FilesOK(f) /\ Ledgers(f) /\ Prerequired(f.tx) /\ Archives(f) /\ Accounted(f.state)
        /\ History(f) /\ Pending(f) /\ Ordered(f.state) /\ Blank(f)
    BY <1>2 DEF FilesInv
  <2>3. /\ g.exists /\ g.state = f.state /\ g.tx = f.tx /\ g.archive = f.archive /\ g.work = f.work
        /\ g.moves = f.moves /\ g.asks = f.asks /\ FilesOK(g)
    BY <2>1, <2>2 DEF FilesOK, Created
  <2>4. History(g) /\ Pending(g) /\ Ledgers(g) /\ Archives(g)
    BY <2>2, <2>3 DEF History, Pending, Ledgers, Archives
  <2>5. FilesInv(g)
    BY <2>2, <2>3, <2>4 DEF FilesInv
  <2>6. Grew(f, g)
    BY <2>3, <2>5 DEF Grew
  <2>7. Len(g.tx) = Len(g.state.actions)
    BY <2>2, <2>3 DEF Blank, NewState
  <2>8. Settled(f, g)
    BY <2>3, <2>5, <2>7 DEF Settled, SameRuns
  <2>9. Path(f, <<f, g>>) /\ Last(<<f, g>>) = g
    BY <2>6, GrewItself, PathTwo
  <2>10. Opened(f) = <<f, g>>
    BY <1>2, <2>1 DEF Opened
  <2>. QED BY <2>8, <2>9, <2>10
<1>. QED BY <1>1, <1>2

(* release_checkpoint writes the release.                                  *)
LEMMA ReleasePath ==
    ASSUME NEW f, FilesInv(f), f.exists, Len(f.tx) = Len(f.state.actions),
           ~IsComplete(f.state), f.state.active = 0
    PROVE  /\ Path(f, Save(f, Release(f.state)))
           /\ Last(Save(f, Release(f.state))).state = Release(f.state)
           /\ Release(f.state) \in States /\ Release(f.state).active \in Steps
<1>1. PICK s \in States : s = f.state /\ Ordered(s)
  BY FilesFields DEF FilesInv
<1>2. PICK t : t = Release(s)
  OBVIOUS
<1>3. /\ t \in States /\ t.actions = s.actions /\ t.transitions >= s.transitions /\ Ordered(t)
      /\ \A c \in Steps : t.cps[c].budget = s.cps[c].budget
      /\ \A c \in Submitted(s) : t.cps[c] = s.cps[c] /\ c \in Submitted(t)
      /\ Submitted(t) = Submitted(s) /\ t.active \in Steps
  BY <1>1, <1>2, ReleaseState
<1>4. PICK k : k = [f EXCEPT !.state = t]
  OBVIOUS
<1>5. Grew(f, k) /\ k.state = t /\ k.exists
  BY <1>1, <1>3, <1>4, StateWrite
<1>6. Path(f, Save(f, t)) /\ Last(Save(f, t)).state = t
  BY <1>4, <1>5, SavePath
<1>. QED BY <1>1, <1>2, <1>3, <1>6

-----------------------------------------------------------------------------
(* What the invariant of the files says of them.                           *)

(* No transaction changes nothing.                                         *)
LEMMA AppliedNone ==
    ASSUME NEW s \in States
    PROVE  Applied(s, <<>>) = s
<1>1. s.cps \in [Steps -> CheckpointRuns] /\ s.actions \in Seq(RequestActions) /\ s.transitions \in Nat
  BY DEF States
<1>2. ASSUME NEW cp \in Steps
      PROVE  [s.cps[cp] EXCEPT !.budget = @ - Cardinality(ReleasedAt(<<>>, cp))] = s.cps[cp]
  <2>1. PICK r \in CheckpointRuns : r = s.cps[cp]
    BY <1>1
  <2>2. ReleasedAt(<<>>, cp) = {}
    BY DEF ReleasedAt
  <2>3. PICK b : b = r.budget - Cardinality(ReleasedAt(<<>>, cp))
    OBVIOUS
  <2>4. b = r.budget
    <3>1. Cardinality(ReleasedAt(<<>>, cp)) = 0
      BY <2>2, FS_EmptySet
    <3>2. r.budget \in Int
      BY DEF CheckpointRuns
    <3>. QED BY <2>3, <3>1, <3>2
  <2>5. [r EXCEPT !.budget = b] = r
    BY <2>4 DEF CheckpointRuns
  <2>. QED BY <2>1, <2>3, <2>5
<1>3. [cp \in Steps |-> [s.cps[cp] EXCEPT !.budget = @ - Cardinality(ReleasedAt(<<>>, cp))]] = s.cps
  BY <1>1, <1>2
<1>4. s.actions \o <<>> = s.actions
  BY <1>1, ConcatEmptySeq
<1>5. s.transitions + Len(<<>>) = s.transitions
  BY <1>1
<1>6. Applied(s, <<>>) = [s EXCEPT !.actions = s.actions, !.cps = s.cps, !.transitions = s.transitions]
  BY <1>3, <1>4, <1>5 DEF Applied
<1>. QED BY <1>6 DEF States

(* A ledger written in order fits.                                         *)
LEMMA UptoFits ==
    ASSUME NEW m \in Nat, NEW n \in Nat, m <= n
    PROVE  LedgerFits(Upto(m), n)
<1>1. IsInjective(Upto(m))
  BY DEF IsInjective, Upto
<1>2. ToSet(Upto(m)) \subseteq 1 .. n
  BY UptoProperties
<1>. QED BY <1>1, <1>2 DEF LedgerFits

(* Every file system that writes can make is one that _load_state accepts. *)
LEMMA FilesLoadable ==
    ASSUME NEW f, FilesInv(f), f.exists
    PROVE  Loadable(f)
<1>1. PICK s \in States : s = f.state
  BY FilesFields
<1>2. PICK n \in Nat : n = Len(s.actions)
  BY <1>1, FilesFields
<1>3. f.tx \in Seq(RequestActions) /\ s.actions \in Seq(RequestActions) /\ s.transitions \in Nat
  BY <1>1, FilesFields
<1>4. Len(f.tx) \in {n, n + 1} /\ \A i \in 1 .. n : f.tx[i] = s.actions[i]
  BY <1>1, <1>2, <1>3 DEF FilesInv, History
<1>5. Len(f.tx) >= Len(s.actions)
  BY <1>2, <1>4
<1>6. SubSeq(f.tx, 1, Len(s.actions)) = s.actions
  <2>1. \A i \in 1 .. n : f.tx[i] \in RequestActions
    BY <1>3, <1>4
  <2>2. PICK u : u = SubSeq(f.tx, 1, n)
    OBVIOUS
  <2>3. u \in Seq(RequestActions) /\ Len(u) = n /\ \A i \in 1 .. n : u[i] = f.tx[i]
    BY <1>3, <1>4, <2>1, <2>2
  <2>4. u = s.actions
    BY <1>2, <1>3, <1>4, <2>3, SeqEqual
  <2>. QED BY <1>2, <2>2, <2>4
<1>7. PICK m \in Nat : m = Len(f.moves) /\ m <= s.transitions /\ f.moves = Upto(m)
  BY <1>1, FilesFields DEF FilesInv, Ledgers
<1>8. PICK k \in Nat : k = Len(f.asks) /\ k <= n /\ f.asks = Upto(k)
  BY <1>1, <1>2, FilesFields DEF FilesInv, Ledgers
<1>9. PICK t : t = Applied(s, Lacking(f))
  OBVIOUS
<1>10. /\ \A i \in DOMAIN Lacking(f) :
             RollsForward(Applied(s, SubSeq(Lacking(f), 1, i - 1)), Lacking(f)[i])
       /\ t.transitions \in Nat /\ t.transitions >= s.transitions
       /\ Len(t.actions) \in Nat /\ Len(t.actions) >= n
  <2>1. CASE Len(f.tx) = n
    <3>1. Lacking(f) = <<>>
      BY <1>1, <1>2, <1>3, <2>1, LackingNone
    <3>2. t = s
      BY <1>9, <3>1, AppliedNone
    <3>3. DOMAIN Lacking(f) = {}
      BY <3>1
    <3>. QED BY <1>2, <1>3, <3>2, <3>3
  <2>2. CASE Len(f.tx) = n + 1
    <3>1. PICK a \in RequestActions : a = f.tx[n + 1] /\ Lacking(f) = <<a>>
      BY <1>1, <1>2, <1>3, <2>2, LackingOne
    <3>2. RollsForward(s, a) /\ (a.outcome = "released" => a.before > 0)
      BY <1>1, <1>2, <2>2, <3>1 DEF FilesInv, Pending
    <3>3. DOMAIN Lacking(f) = {1} /\ Lacking(f)[1] = a /\ SubSeq(Lacking(f), 1, 1 - 1) = <<>>
      BY <3>1, SubSeqEmpty
    <3>4. Applied(s, SubSeq(Lacking(f), 1, 1 - 1)) = s
      BY <3>3, AppliedNone
    <3>5. \A i \in DOMAIN Lacking(f) :
             RollsForward(Applied(s, SubSeq(Lacking(f), 1, i - 1)), Lacking(f)[i])
      BY <3>2, <3>3, <3>4
    <3>6. Accounted(s) /\ (a.outcome = "released" => s.cps[a.cp].budget > 0)
      BY <1>1, <3>2 DEF FilesInv, RollsForward
    <3>7. t.actions = Append(s.actions, a) /\ t.transitions = s.transitions + 1
      BY <1>9, <3>1, <3>6, AppliedOne
    <3>8. Len(t.actions) = n + 1
      BY <1>2, <1>3, <3>7
    <3>. QED BY <1>3, <3>5, <3>7, <3>8
  <2>. QED BY <1>4, <2>1, <2>2
<1>11. LedgerFits(f.moves, t.transitions)
  BY <1>3, <1>7, <1>10, UptoFits
<1>12. LedgerFits(f.asks, Len(t.actions))
  BY <1>8, <1>10, UptoFits
<1>. QED BY <1>1, <1>5, <1>6, <1>9, <1>10, <1>11, <1>12 DEF Loadable

(* The transactions keep within the budget, counted with the one that the  *)
(* state may lack.                                                         *)
LEMMA FilesWithinBudget ==
    ASSUME NEW f, FilesInv(f)
    PROVE  WithinBudget(f)
<1>1. PICK s \in States : s = f.state
  BY FilesFields
<1>2. f.tx \in Seq(RequestActions) /\ s.actions \in Seq(RequestActions) /\ Len(s.actions) \in Nat
  BY <1>1, FilesFields
<1>3. PICK t : t = Applied(s, Lacking(f))
  OBVIOUS
<1>4. t \in States /\ Accounted(t) /\ t.actions = f.tx
  <2>1. CASE Len(f.tx) = Len(s.actions)
    <3>1. Lacking(f) = <<>>
      BY <1>1, <1>2, <2>1, LackingNone
    <3>2. t = s
      BY <1>3, <3>1, AppliedNone
    <3>3. f.tx = s.actions
      BY <1>1, <2>1, NothingLacking
    <3>. QED BY <1>1, <3>2, <3>3 DEF FilesInv
  <2>2. CASE Len(f.tx) # Len(s.actions)
    <3>1. PICK g : g = RollForward(f)
      OBVIOUS
    <3>2. /\ FilesInv(g) /\ g.tx = f.tx /\ Len(g.state.actions) = Len(f.tx)
      BY <1>1, <2>2, <3>1, RollForwardWrite DEF Grew
    <3>3. g.state = t
      <4>1. FilesOK(f)
        BY DEF FilesInv
      <4>. QED BY <1>1, <1>3, <3>1, <4>1 DEF RollForward, FilesOK
    <3>4. g.tx = g.state.actions
      BY <3>2, NothingLacking
    <3>. QED BY <3>2, <3>3, <3>4, FilesFields DEF FilesInv
  <2>. QED BY <2>1, <2>2
<1>5. ASSUME NEW cp \in Steps
      PROVE  /\ Cardinality(ReleasedAt(f.tx, cp)) <= RequestBudget
             /\ Cardinality(ReleasedAt(f.tx, cp)) + t.cps[cp].budget = RequestBudget
  <2>1. PICK b \in 0 .. RequestBudget : b = t.cps[cp].budget
    BY <1>4 DEF States, CheckpointRuns
  <2>3. Cardinality(ReleasedAt(f.tx, cp)) \in Nat
    <3>1. ReleasedAt(f.tx, cp) \subseteq 1 .. Len(f.tx) /\ Len(f.tx) \in Nat
      BY <1>2 DEF ReleasedAt
    <3>2. IsFiniteSet(1 .. Len(f.tx))
      BY <3>1, FS_Interval
    <3>3. IsFiniteSet(ReleasedAt(f.tx, cp))
      BY <3>1, <3>2, FS_Subset
    <3>. QED BY <3>3, FS_CardinalityType
  <2>4. b + Cardinality(ReleasedAt(f.tx, cp)) = RequestBudget
    BY <1>4, <2>1 DEF Accounted
  <2>5. RequestBudget \in Nat
    BY LifecycleConstants
  <2>. QED BY <2>1, <2>3, <2>4, <2>5
<1>6. Prerequired(f.tx)
  BY DEF FilesInv
<1>. QED BY <1>1, <1>3, <1>5, <1>6 DEF WithinBudget, Prerequired

-----------------------------------------------------------------------------
(* Steps of the hosts.                                                     *)

(* What was accepted of f is in g as it was.                               *)
Stands(f, g) ==
    \A cp \in Submitted(f.state) :
        g.state.cps[cp] = f.state.cps[cp] /\ g.archive[cp] = f.archive[cp]

RecordFits(r) ==
    /\ r.pc \notin {"idle", "release"} => r.ctx.cp # 0
    /\ r.pc \in Opens => r.session \in Sessions

(* Writes under the lock keep the workspace as the accepted submissions    *)
(* have it.                                                                *)
LEMMA GrewKeeps ==
    ASSUME NEW f, NEW g, Grew(f, g)
    PROVE  FilesInv(g) /\ Stands(f, g) /\ (PriorUnchanged(f) => PriorUnchanged(g))
<1>1. FilesInv(g) /\ Stands(f, g)
  BY DEF Grew, Stands
<1>2. ASSUME PriorUnchanged(f), NEW cp \in Submitted(g.state)
      PROVE  g.archive[cp] = g.state.cps[cp].sub /\ g.work[cp] = g.state.cps[cp].sub
  <2>1. g.archive[cp] = g.state.cps[cp].sub
    BY <1>1 DEF FilesInv, Archives
  <2>2. CASE cp \in Submitted(f.state)
    BY <1>2, <2>1, <2>2 DEF Grew, PriorUnchanged
  <2>3. CASE cp \notin Submitted(f.state)
    BY <2>1, <2>3 DEF Grew
  <2>. QED BY <2>2, <2>3
<1>. QED BY <1>1, <1>2 DEF PriorUnchanged

(* A write outside the lock, to the files of a session or the workspace.   *)
LEMMA LooseWrite ==
    ASSUME NEW f, NEW g, FilesInv(f), FilesOK(g), g.exists = f.exists, g.state = f.state,
           g.tx = f.tx, g.archive = f.archive, g.moves = f.moves, g.asks = f.asks
    PROVE  FilesInv(g) /\ Stands(f, g) /\ (g.work = f.work /\ PriorUnchanged(f) => PriorUnchanged(g))
<1>1. /\ FilesOK(f) /\ Ledgers(f) /\ Prerequired(f.tx) /\ Archives(f) /\ Accounted(f.state)
      /\ History(f) /\ Pending(f) /\ Ordered(f.state) /\ (~f.exists => Blank(f))
  BY DEF FilesInv
<1>2. History(g) /\ Pending(g) /\ Ledgers(g) /\ Archives(g) /\ (~g.exists => Blank(g))
  BY <1>1 DEF History, Pending, Ledgers, Archives, Blank
<1>3. FilesInv(g)
  BY <1>1, <1>2 DEF FilesInv
<1>4. Stands(f, g)
  BY DEF Stands
<1>5. g.work = f.work /\ PriorUnchanged(f) => PriorUnchanged(g)
  BY DEF PriorUnchanged
<1>. QED BY <1>3, <1>4, <1>5

(* A host takes a step: what must hold of the files, and of its record.    *)
LEMMA HostSteps ==
    ASSUME LifecycleInv, NEW h \in Hosts, ~At(h, "idle"), NEW r \in HostRecords, RecordFits(r),
           host' = [host EXCEPT ![h] = r],
           TallyOK', tally'.disturbed = tally.disturbed,
           FilesInv(fs'), tally.disturbed = 0 => PriorUnchanged(fs'),
           tally.disturbed = 0 /\ r.pc \notin {"idle", "release"} => r.ctx.cp = fs'.state.active
    PROVE  LifecycleInv'
<1>1. host \in [Hosts -> HostRecords] /\ SoleHost
  BY DEF LifecycleInv, HostOK
<1>2. /\ host' \in [Hosts -> HostRecords] /\ host'[h] = r
      /\ \A g \in Hosts \ {h} : host'[g] = host[g]
  BY <1>1
<1>3. HostOK'
  <2>1. ASSUME NEW g \in Hosts
        PROVE  /\ host'[g].pc \notin {"idle", "release"} => host'[g].ctx.cp # 0
               /\ host'[g].pc \in Opens => host'[g].session \in Sessions
    <3>1. CASE g = h
      BY <1>2, <3>1 DEF RecordFits
    <3>2. CASE g # h
      BY <1>2, <3>2 DEF LifecycleInv, HostOK
    <3>. QED BY <3>1, <3>2
  <2>. QED BY <1>2, <2>1 DEF HostOK
<1>4. SoleHost'
  <2>1. SUFFICES ASSUME tally'.disturbed = 0
                 PROVE  /\ \A g, k \in Hosts : ~(host'[g].pc = "idle") /\ ~(host'[k].pc = "idle") => g = k
                        /\ \A g \in Hosts : host'[g].pc \notin {"idle", "release"} =>
                                                host'[g].ctx.cp = fs'.state.active
                        /\ PriorUnchanged(fs')
    BY DEF SoleHost, At, PriorUnchanged
  <2>2. tally.disturbed = 0
    BY <2>1
  <2>3. \A g, k \in Hosts : host[g].pc # "idle" /\ host[k].pc # "idle" => g = k
    BY <1>1, <2>2 DEF SoleHost, At
  <2>4. \A g \in Hosts \ {h} : host'[g].pc = "idle"
    BY <1>2, <2>3 DEF At
  <2>5. \A g \in Hosts : host'[g].pc \notin {"idle", "release"} => host'[g].ctx.cp = fs'.state.active
    BY <1>2, <2>2, <2>4
  <2>. QED BY <2>2, <2>4, <2>5
<1>. QED BY <1>3, <1>4 DEF LifecycleInv

(* The record of a host that goes on to pc.                                *)
LEMMA GotoRecord ==
    ASSUME HostOK, NEW h \in Hosts, NEW pc \in Labels, Goto(h, pc)
    PROVE  \E r \in HostRecords :
              /\ host' = [host EXCEPT ![h] = r] /\ r.pc = pc
              /\ pc # "idle" => r.ctx = host[h].ctx /\ r.session = host[h].session
<1>1. PICK old \in HostRecords : old = host[h]
  BY DEF HostOK
<1>2. CASE pc = "idle"
  <2>1. <<>> \in Seq(Attempts) /\ {} \in Views /\ 0 \in 0 .. Checkpoints
    BY LifecycleConstants DEF Views
  <2>2. NoContext \in [cp : 0 .. Checkpoints, attempts : Seq(Attempts), view : Views]
    BY <2>1 DEF NoContext
  <2>3. IdleHost \in HostRecords /\ IdleHost.pc = "idle"
    BY <2>2 DEF IdleHost, HostRecords, Labels
  <2>4. host' = [host EXCEPT ![h] = IdleHost]
    BY <1>2 DEF Goto
  <2>. QED BY <1>2, <2>3, <2>4
<1>3. CASE pc # "idle"
  <2>1. PICK r : r = [old EXCEPT !.pc = pc]
    OBVIOUS
  <2>2. r \in HostRecords /\ r.pc = pc /\ r.ctx = old.ctx /\ r.session = old.session
    BY <2>1 DEF HostRecords
  <2>3. host' = [host EXCEPT ![h] = r]
    BY <1>1, <1>3, <2>1 DEF Goto
  <2>. QED BY <1>1, <2>2, <2>3
<1>. QED BY <1>2, <1>3

(* A host goes on to pc after a step that keeps the files.                 *)
LEMMA GotoSteps ==
    ASSUME LifecycleInv, NEW h \in Hosts, ~At(h, "idle"), NEW pc \in Labels, Goto(h, pc),
           pc \notin {"idle", "release"} => host[h].pc # "release",
           pc \in Opens => host[h].pc \in Opens,
           tally' = tally, FilesInv(fs'), tally.disturbed = 0 /\ PriorUnchanged(fs) => PriorUnchanged(fs'),
           pc \notin {"idle", "release"} => fs'.state.active = fs.state.active
    PROVE  LifecycleInv'
<1>1. HostOK /\ SoleHost /\ TallyOK
  BY DEF LifecycleInv
<1>2. PICK r \in HostRecords :
         /\ host' = [host EXCEPT ![h] = r] /\ r.pc = pc
         /\ pc # "idle" => r.ctx = host[h].ctx /\ r.session = host[h].session
  BY <1>1, GotoRecord
<1>3. RecordFits(r)
  BY <1>1, <1>2 DEF RecordFits, HostOK, At, Opens
<1>4. TallyOK' /\ tally'.disturbed = tally.disturbed
  BY <1>1 DEF TallyOK
<1>5. tally.disturbed = 0 => PriorUnchanged(fs')
  BY <1>1 DEF SoleHost
<1>6. tally.disturbed = 0 /\ r.pc \notin {"idle", "release"} => r.ctx.cp = fs'.state.active
  BY <1>1, <1>2 DEF SoleHost, At
<1>. QED BY <1>2, <1>3, <1>4, <1>5, <1>6, HostSteps

(* A host is killed after writes that keep the files.                      *)
LEMMA KilledSteps ==
    ASSUME LifecycleInv, NEW h \in Hosts, ~At(h, "idle"), Killed(h),
           FilesInv(fs'), PriorUnchanged(fs) => PriorUnchanged(fs')
    PROVE  LifecycleInv'
<1>1. HostOK /\ SoleHost /\ TallyOK
  BY DEF LifecycleInv
<1>2. PICK r \in HostRecords : host' = [host EXCEPT ![h] = r] /\ r.pc = "idle"
  <2>1. Goto(h, "idle") /\ "idle" \in Labels
    BY DEF Killed, Labels
  <2>. QED BY <1>1, <2>1, GotoRecord
<1>3. RecordFits(r)
  BY <1>2 DEF RecordFits, Opens
<1>4. TallyOK' /\ tally'.disturbed = tally.disturbed
  <2>1. PICK k \in 0 .. MaxKills : k = tally.kills + 1
    BY <1>1, LifecycleConstants DEF TallyOK, Killed, OneKilled
  <2>2. tally' = [tally EXCEPT !.kills = k]
    BY <2>1 DEF Killed, OneKilled
  <2>. QED BY <1>1, <2>2 DEF TallyOK
<1>5. tally.disturbed = 0 => PriorUnchanged(fs')
  BY <1>1 DEF SoleHost
<1>. QED BY <1>2, <1>3, <1>4, <1>5, HostSteps

(* An operation under the lock breaks off.                                 *)
LEMMA BreaksOffSteps ==
    ASSUME LifecycleInv, NEW h \in Hosts, ~At(h, "idle"), NEW steps, Path(fs, steps),
           BreaksOff(h, steps)
    PROVE  LifecycleInv' /\ Stands(fs, fs')
<1>1. PICK i \in 1 .. Len(steps) - 1 : fs' = steps[i]
  BY DEF BreaksOff, Part
<1>2. Grew(fs, fs')
  BY <1>1, PathElements
<1>3. FilesInv(fs') /\ Stands(fs, fs') /\ (PriorUnchanged(fs) => PriorUnchanged(fs'))
  BY <1>2, GrewKeeps
<1>4. Killed(h)
  BY DEF BreaksOff
<1>. QED BY <1>3, <1>4, KilledSteps

(* An operation under the lock ends.                                       *)
LEMMA EndsSteps ==
    ASSUME NEW steps, Path(fs, steps), Ends(steps)
    PROVE  /\ FilesInv(fs') /\ Stands(fs, fs') /\ (PriorUnchanged(fs) => PriorUnchanged(fs'))
           /\ tally' = tally /\ fs' = Last(steps)
<1>1. fs' = Last(steps) /\ tally' = tally
  BY DEF Ends
<1>2. Grew(fs, fs')
  BY <1>1, PathElements
<1>. QED BY <1>1, <1>2, GrewKeeps

(* An operation under the lock ends, and its host goes on to pc.           *)
LEMMA EndsGoto ==
    ASSUME LifecycleInv, NEW h \in Hosts, ~At(h, "idle"), NEW steps, Path(fs, steps), Ends(steps),
           NEW pc \in Labels, Goto(h, pc),
           pc \notin {"idle", "release"} => host[h].pc # "release",
           pc \in Opens => host[h].pc \in Opens,
           pc \notin {"idle", "release"} => Last(steps).state.active = fs.state.active
    PROVE  LifecycleInv' /\ Stands(fs, fs')
<1>1. /\ FilesInv(fs') /\ Stands(fs, fs') /\ (PriorUnchanged(fs) => PriorUnchanged(fs'))
      /\ tally' = tally /\ fs' = Last(steps)
  BY EndsSteps
<1>. QED BY <1>1, GotoSteps

(* An operation under the lock is refused: the load stays, or its part.    *)
LEMMA RefusedSteps ==
    ASSUME LifecycleInv, NEW h \in Hosts, ~At(h, "idle"), fs.exists, NEW pc \in Labels, Refused(h, pc),
           pc \notin {"idle", "release"} => host[h].pc # "release",
           pc \in Opens => host[h].pc \in Opens
    PROVE  LifecycleInv' /\ Stands(fs, fs')
<1>1. FilesInv(fs)
  BY DEF LifecycleInv
<1>2. Path(fs, Load(fs)) /\ Settled(fs, Last(Load(fs)))
  BY <1>1, LoadPath
<1>3. Last(Load(fs)).state.active = fs.state.active
  BY <1>2 DEF Settled, SameRuns
<1>4. CASE BreaksOff(h, Load(fs))
  BY <1>2, <1>4, BreaksOffSteps
<1>5. CASE Ends(Load(fs)) /\ Goto(h, pc)
  BY <1>2, <1>3, <1>5, EndsGoto
<1>. QED BY <1>4, <1>5 DEF Refused

(* g is f but for the files of the attempts' sessions.                     *)
OfSessions(f, g) ==
    /\ FilesOK(g) /\ g.exists = f.exists /\ g.state = f.state /\ g.tx = f.tx /\ g.archive = f.archive
    /\ g.work = f.work /\ g.moves = f.moves /\ g.asks = f.asks

(* Such writes.                                                            *)
LEMMA SessionWrites ==
    ASSUME NEW f, FilesInv(f)
    PROVE  /\ OfSessions(f, f)
           /\ \A x, g : g = [f EXCEPT !.res = x] => OfSessions(f, g)
           /\ \A x, g : g = [f EXCEPT !.req = x] => OfSessions(f, g)
           /\ \A x, g : g = [f EXCEPT !.kept = x] => OfSessions(f, g)
           /\ \A x, y, g : g = [f EXCEPT !.req = x, !.aside = y] => OfSessions(f, g)
           /\ \A x, y, g : g = [f EXCEPT !.res = x, !.aside = y] => OfSessions(f, g)
<1>1. FilesOK(f)
  BY DEF FilesInv
<1>2. OfSessions(f, f)
  BY <1>1 DEF OfSessions
<1>3. ASSUME NEW x, NEW g, g = [f EXCEPT !.res = x] PROVE OfSessions(f, g)
  BY <1>1, <1>3 DEF OfSessions, FilesOK
<1>4. ASSUME NEW x, NEW g, g = [f EXCEPT !.req = x] PROVE OfSessions(f, g)
  BY <1>1, <1>4 DEF OfSessions, FilesOK
<1>5. ASSUME NEW x, NEW g, g = [f EXCEPT !.kept = x] PROVE OfSessions(f, g)
  BY <1>1, <1>5 DEF OfSessions, FilesOK
<1>6. ASSUME NEW x, NEW y, NEW g, g = [f EXCEPT !.req = x, !.aside = y] PROVE OfSessions(f, g)
  BY <1>1, <1>6 DEF OfSessions, FilesOK
<1>7. ASSUME NEW x, NEW y, NEW g, g = [f EXCEPT !.res = x, !.aside = y] PROVE OfSessions(f, g)
  BY <1>1, <1>7 DEF OfSessions, FilesOK
<1>. QED BY <1>2, <1>3, <1>4, <1>5, <1>6, <1>7

(* They keep what writes under the lock keep.                              *)
LEMMA SessionGrew ==
    ASSUME NEW f, NEW g, FilesInv(f), OfSessions(f, g)
    PROVE  Grew(f, g) /\ FilesInv(g) /\ g.state = f.state
<1>1. Ledgers(g) /\ (~g.exists => g.moves = <<>> /\ g.asks = <<>>)
  BY DEF OfSessions, FilesInv, Ledgers, Blank
<1>2. Grew(f, g)
  BY <1>1, AsideWrite DEF OfSessions
<1>. QED BY <1>2 DEF Grew, OfSessions

-----------------------------------------------------------------------------
(* Every step keeps the invariant, and what was accepted.                  *)

(* A host calls run_lifecycle.                                             *)
LEMMA StartSteps ==
    ASSUME LifecycleInv, NEW h \in Hosts, Start(h)
    PROVE  LifecycleInv' /\ Stands(fs, fs')
<1>1. FilesInv(fs) /\ HostOK /\ TallyOK /\ SoleHost
  BY DEF LifecycleInv
<1>2. /\ fs' = fs /\ Goto(h, "release") /\ tally.started < MaxRuns /\ "release" \in Labels
      /\ \/ /\ \A g \in Hosts \ {h} : At(g, "idle")
            /\ tally' = [tally EXCEPT !.started = @ + 1]
         \/ /\ tally.disturbed < MaxDisturbances
            /\ tally' = [tally EXCEPT !.started = @ + 1, !.disturbed = @ + 1]
  BY DEF Start, Labels
<1>3. PICK r \in HostRecords : host' = [host EXCEPT ![h] = r] /\ r.pc = "release"
  BY <1>1, <1>2, GotoRecord
<1>4. host \in [Hosts -> HostRecords]
  BY <1>1 DEF HostOK
<1>5. /\ host' \in [Hosts -> HostRecords] /\ host'[h] = r
      /\ \A g \in Hosts \ {h} : host'[g] = host[g]
  BY <1>3, <1>4
<1>6. HostOK'
  <2>1. ASSUME NEW g \in Hosts
        PROVE  /\ host'[g].pc \notin {"idle", "release"} => host'[g].ctx.cp # 0
               /\ host'[g].pc \in Opens => host'[g].session \in Sessions
    <3>1. CASE g = h
      BY <1>3, <1>5, <3>1 DEF Opens
    <3>2. CASE g # h
      BY <1>1, <1>5, <3>2 DEF HostOK
    <3>. QED BY <3>1, <3>2
  <2>. QED BY <1>5, <2>1 DEF HostOK
<1>8. /\ tally \in [started : 0 .. MaxRuns, disturbed : 0 .. MaxDisturbances, kills : 0 .. MaxKills]
      /\ MaxRuns \in Nat /\ MaxDisturbances \in Nat
  BY <1>1, LifecycleConstants DEF TallyOK
<1>10. PICK n \in 0 .. MaxRuns : n = tally.started + 1
  BY <1>2, <1>8
<1>11. TallyOK' /\ (tally'.disturbed = 0 => tally.disturbed = 0 /\ \A g \in Hosts \ {h} : At(g, "idle"))
  <2>1. CASE /\ \A g \in Hosts \ {h} : At(g, "idle")
             /\ tally' = [tally EXCEPT !.started = @ + 1]
    <3>1. tally' = [tally EXCEPT !.started = n]
      BY <1>10, <2>1
    <3>. QED BY <1>8, <2>1, <3>1 DEF TallyOK
  <2>2. CASE /\ tally.disturbed < MaxDisturbances
             /\ tally' = [tally EXCEPT !.started = @ + 1, !.disturbed = @ + 1]
    <3>1. PICK d \in 1 .. MaxDisturbances : d = tally.disturbed + 1
      BY <1>8, <2>2
    <3>2. tally' = [tally EXCEPT !.started = n, !.disturbed = d]
      BY <1>10, <2>2, <3>1
    <3>3. tally'.disturbed = d /\ d # 0 /\ d \in 0 .. MaxDisturbances
      BY <1>8, <3>1, <3>2
    <3>. QED BY <1>8, <3>2, <3>3 DEF TallyOK
  <2>. QED BY <1>2, <2>1, <2>2
<1>13. SoleHost'
  <2>1. SUFFICES ASSUME tally'.disturbed = 0
                 PROVE  /\ \A g, k \in Hosts : host'[g].pc # "idle" /\ host'[k].pc # "idle" => g = k
                        /\ \A g \in Hosts : host'[g].pc \notin {"idle", "release"} =>
                                                host'[g].ctx.cp = fs'.state.active
                        /\ PriorUnchanged(fs')
    BY DEF SoleHost, At, PriorUnchanged
  <2>2. tally.disturbed = 0 /\ \A g \in Hosts \ {h} : At(g, "idle")
    BY <1>11, <2>1
  <2>3. \A g \in Hosts \ {h} : host'[g].pc = "idle"
    BY <1>5, <2>2 DEF At
  <2>4. PriorUnchanged(fs')
    BY <1>1, <1>2, <2>2 DEF SoleHost
  <2>. QED BY <1>3, <1>5, <2>3, <2>4
<1>14. FilesInv(fs') /\ Stands(fs, fs')
  BY <1>1, <1>2 DEF Stands
<1>. QED BY <1>6, <1>11, <1>13, <1>14 DEF LifecycleInv

(* A write to a session's files, after which the host goes on to pc.       *)
LEMMA SessionSteps ==
    ASSUME LifecycleInv, NEW h \in Hosts, ~At(h, "idle"), OfSessions(fs, fs'),
           NEW pc \in Labels, Goto(h, pc), tally' = tally,
           pc \notin {"idle", "release"} => host[h].pc # "release",
           pc \in Opens => host[h].pc \in Opens
    PROVE  LifecycleInv' /\ Stands(fs, fs')
<1>1. FilesInv(fs)
  BY DEF LifecycleInv
<1>2. Grew(fs, fs') /\ fs'.state = fs.state
  BY <1>1, SessionGrew
<1>3. FilesInv(fs') /\ Stands(fs, fs') /\ (PriorUnchanged(fs) => PriorUnchanged(fs'))
  BY <1>2, GrewKeeps
<1>. QED BY <1>2, <1>3, GotoSteps

(* _recover_host_episode_attempt.                                          *)
LEMMA RecoverSteps ==
    ASSUME LifecycleInv, NEW h \in Hosts, Recover(h)
    PROVE  LifecycleInv' /\ Stands(fs, fs')
<1>1. At(h, "recover") /\ ~At(h, "idle") /\ tally' = tally
  BY DEF Recover, At
<1>2. \E pc \in {"again", "idle"} : Goto(h, pc)
  BY DEF Recover
<1>3. PICK pc \in Labels : pc \in {"again", "idle"} /\ Goto(h, pc)
  BY <1>2 DEF Labels
<1>4. OfSessions(fs, fs')
  <2>1. PICK x : x = Put(fs.res, Interrupted(host[h].ctx).session, <<"interrupted">>)
    OBVIOUS
  <2>2. fs' = fs \/ fs' = [fs EXCEPT !.res = x]
    BY <2>1 DEF Recover
  <2>. QED BY <2>2, SessionWrites DEF LifecycleInv
<1>5. host[h].pc # "release" /\ pc \notin Opens
  BY <1>1, <1>3 DEF At, Opens
<1>. QED BY <1>1, <1>3, <1>4, <1>5, SessionSteps

(* _persist_episode_result_or_close.                                       *)
LEMMA PersistResultSteps ==
    ASSUME LifecycleInv, NEW h \in Hosts, PersistResult(h)
    PROVE  LifecycleInv' /\ Stands(fs, fs')
<1>1. At(h, "result") /\ ~At(h, "idle") /\ tally' = tally
  BY DEF PersistResult, At
<1>2. \E pc \in {"submit", "close"} : Goto(h, pc)
  BY DEF PersistResult
<1>3. PICK pc \in Labels : Goto(h, pc)
  BY <1>2 DEF Labels
<1>4. OfSessions(fs, fs')
  <2>1. PICK result : result = <<IF host[h].result = "completed" THEN "completed" ELSE "failed", h>>
    OBVIOUS
  <2>2. PICK x : x = Put(fs.res, host[h].session, result)
    OBVIOUS
  <2>3. fs' = fs \/ fs' = [fs EXCEPT !.res = x]
    BY <2>1, <2>2 DEF PersistResult
  <2>. QED BY <2>3, SessionWrites DEF LifecycleInv
<1>5. host[h].pc # "release" /\ host[h].pc \in Opens
  BY <1>1 DEF At, Opens
<1>. QED BY <1>1, <1>3, <1>4, <1>5, SessionSteps

(* A host is killed between its operations.                                *)
LEMMA KillSteps ==
    ASSUME LifecycleInv, NEW h \in Hosts, Kill(h)
    PROVE  LifecycleInv' /\ Stands(fs, fs')
<1>1. ~At(h, "idle") /\ Killed(h) /\ fs' = fs
  BY DEF Kill
<1>2. FilesInv(fs') /\ (PriorUnchanged(fs) => PriorUnchanged(fs')) /\ Stands(fs, fs')
  BY <1>1 DEF LifecycleInv, Stands
<1>. QED BY <1>1, <1>2, KilledSteps

(* A host with an attempt goes on with the record r, the files as they     *)
(* were or with the same checkpoint active.                                *)
LEMMA OnwardSteps ==
    ASSUME LifecycleInv, NEW h \in Hosts, ~At(h, "idle"), NEW r \in HostRecords,
           host' = [host EXCEPT ![h] = r],
           host[h].pc \in Opens, r.pc \in Opens, r.ctx = host[h].ctx, r.session = host[h].session,
           tally' = tally, FilesInv(fs'), tally.disturbed = 0 => PriorUnchanged(fs'),
           fs'.state.active = fs.state.active
    PROVE  LifecycleInv'
<1>1. HostOK /\ SoleHost /\ TallyOK
  BY DEF LifecycleInv
<1>2. host[h].pc \notin {"idle", "release"}
  BY DEF Opens
<1>3. RecordFits(r)
  BY <1>1, <1>2 DEF RecordFits, HostOK
<1>4. TallyOK' /\ tally'.disturbed = tally.disturbed
  BY <1>1 DEF TallyOK
<1>5. tally.disturbed = 0 /\ r.pc \notin {"idle", "release"} => r.ctx.cp = fs'.state.active
  BY <1>1, <1>2 DEF SoleHost
<1>. QED BY <1>3, <1>4, <1>5, HostSteps

(* The agent returns.                                                      *)
LEMMA ReturnSteps ==
    ASSUME LifecycleInv, NEW h \in Hosts, NEW result \in {"completed", "failed"}, Return(h, result)
    PROVE  LifecycleInv' /\ Stands(fs, fs')
<1>1. /\ At(h, "execute") /\ fs' = fs /\ tally' = tally
      /\ host' = [host EXCEPT ![h].pc = "result", ![h].result = result]
  BY DEF Return
<1>2. PICK old \in HostRecords : old = host[h] /\ host \in [Hosts -> HostRecords]
  BY DEF LifecycleInv, HostOK
<1>3. PICK r : r = [old EXCEPT !.pc = "result", !.result = result]
  OBVIOUS
<1>4. /\ r \in HostRecords /\ r.pc = "result" /\ r.ctx = old.ctx /\ r.session = old.session
  BY <1>3 DEF HostRecords, Labels
<1>5. host' = [host EXCEPT ![h] = r]
  BY <1>1, <1>2, <1>3
<1>6. ~At(h, "idle") /\ host[h].pc \in Opens /\ r.pc \in Opens
  BY <1>1, <1>4 DEF At, Opens
<1>7. FilesInv(fs') /\ (tally.disturbed = 0 => PriorUnchanged(fs')) /\ Stands(fs, fs')
  BY <1>1 DEF LifecycleInv, SoleHost, Stands
<1>. QED BY <1>1, <1>2, <1>4, <1>5, <1>6, <1>7, OnwardSteps

(* _fail_episode_attempt_if_active reads.                                  *)
LEMMA CloseSteps ==
    ASSUME LifecycleInv, NEW h \in Hosts, Close(h)
    PROVE  LifecycleInv' /\ Stands(fs, fs')
<1>1. At(h, "close") /\ ~At(h, "idle") /\ fs.exists
  BY DEF Close, At, Loadable
<1>2. \E pc \in {"fail", "idle"} : Refused(h, pc)
  BY DEF Close
<1>3. PICK pc \in Labels : Refused(h, pc)
  BY <1>2 DEF Labels
<1>4. host[h].pc # "release" /\ host[h].pc \in Opens
  BY <1>1 DEF At, Opens
<1>. QED BY <1>1, <1>3, <1>4, RefusedSteps

(* A submission is written to the workspace, or removed from it.           *)
LEMMA WorkWrite ==
    ASSUME NEW f, FilesInv(f), NEW cp \in Steps, NEW content \in Optional,
           NEW g, g = [f EXCEPT !.work[cp] = content]
    PROVE  /\ FilesInv(g) /\ Stands(f, g) /\ g.state = f.state
           /\ PriorUnchanged(f) /\ cp = f.state.active => PriorUnchanged(g)
<1>1. FilesOK(f) /\ Ordered(f.state) /\ f.state \in States /\ f.work \in [Steps -> Optional]
  BY FilesFields DEF FilesInv
<1>2. PICK work : work = [f.work EXCEPT ![cp] = content]
  OBVIOUS
<1>3. work \in [Steps -> Optional] /\ \A c \in Steps \ {cp} : work[c] = f.work[c]
  BY <1>1, <1>2
<1>4. g = [f EXCEPT !.work = work]
  BY <1>2
<1>5. /\ FilesOK(g) /\ g.exists = f.exists /\ g.state = f.state /\ g.tx = f.tx
      /\ g.archive = f.archive /\ g.moves = f.moves /\ g.asks = f.asks /\ g.work = work
  BY <1>1, <1>3, <1>4 DEF FilesOK
<1>6. FilesInv(g) /\ Stands(f, g)
  BY <1>5, LooseWrite
<1>7. ASSUME PriorUnchanged(f), cp = f.state.active PROVE PriorUnchanged(g)
  <2>1. cp \notin Submitted(f.state)
    BY <1>1, <1>7, ActiveUnsubmitted
  <2>2. \A c \in Submitted(f.state) : c \in Steps \ {cp}
    BY <2>1 DEF Submitted
  <2>. QED BY <1>3, <1>5, <1>7, <2>2 DEF PriorUnchanged
<1>. QED BY <1>5, <1>6, <1>7

(* The agent writes a submission, of its checkpoint or of another.         *)
LEMMA WriteSteps ==
    ASSUME LifecycleInv, NEW h \in Hosts, NEW cp \in Steps, NEW content \in Contents,
           Write(h, cp, content)
    PROVE  LifecycleInv' /\ Stands(fs, fs')
<1>1. At(h, "execute") /\ host' = host /\ fs' = [fs EXCEPT !.work[cp] = content]
  BY DEF Write
<1>2. FilesInv(fs) /\ HostOK /\ SoleHost /\ TallyOK
  BY DEF LifecycleInv
<1>3. PICK r \in HostRecords : r = host[h] /\ host \in [Hosts -> HostRecords]
  BY <1>2 DEF HostOK
<1>4. /\ FilesInv(fs') /\ Stands(fs, fs') /\ fs'.state = fs.state
      /\ PriorUnchanged(fs) /\ cp = fs.state.active => PriorUnchanged(fs')
  BY <1>1, <1>2, WorkWrite DEF Optional
<1>5. CASE cp = host[h].ctx.cp /\ tally' = tally
  <2>1. tally.disturbed = 0 => PriorUnchanged(fs')
    BY <1>1, <1>2, <1>4, <1>5 DEF SoleHost, At
  <2>2. host' = [host EXCEPT ![h] = r] /\ r.pc \in Opens /\ ~At(h, "idle")
    BY <1>1, <1>3 DEF At, Opens
  <2>. QED BY <1>3, <1>4, <1>5, <2>1, <2>2, OnwardSteps
<1>6. CASE tally.disturbed < MaxDisturbances /\ tally' = [tally EXCEPT !.disturbed = @ + 1]
  <2>1. PICK d \in 1 .. MaxDisturbances : d = tally.disturbed + 1
    BY <1>2, <1>6, LifecycleConstants DEF TallyOK
  <2>2. tally' = [tally EXCEPT !.disturbed = d]
    BY <1>6, <2>1
  <2>3. TallyOK' /\ tally'.disturbed # 0
    BY <1>2, <2>1, <2>2, LifecycleConstants DEF TallyOK
  <2>4. HostOK'
    BY <1>1, <1>2 DEF HostOK
  <2>. QED BY <1>4, <2>3, <2>4 DEF LifecycleInv, SoleHost
<1>. QED BY <1>5, <1>6 DEF Write

(* _preserve_submission_candidate copies, and removes.                     *)
LEMMA PreservedWrite ==
    ASSUME LifecycleInv, NEW h \in Hosts, host[h].pc \notin {"idle", "release"},
           NEW cp, cp = host[h].ctx.cp, NEW session
    PROVE  /\ Ends(Preserved(session, cp)) =>
                 /\ FilesInv(fs') /\ Stands(fs, fs') /\ tally' = tally /\ fs'.state = fs.state
                 /\ tally.disturbed = 0 => PriorUnchanged(fs')
           /\ BreaksOff(h, Preserved(session, cp)) => LifecycleInv' /\ Stands(fs, fs')
<1>1. FilesInv(fs) /\ HostOK /\ SoleHost
  BY DEF LifecycleInv
<1>2. cp \in Steps
  <2>1. cp \in 0 .. Checkpoints /\ cp # 0 /\ Checkpoints \in Nat
    BY <1>1, LifecycleConstants DEF HostRecords, HostOK
  <2>. QED BY <2>1 DEF Steps
<1>3. PICK x : x = Put(fs.kept, session, fs.work[cp])
  OBVIOUS
<1>4. PICK copied : copied = [fs EXCEPT !.kept = x]
  OBVIOUS
<1>5. OfSessions(fs, copied)
  BY <1>1, <1>4, SessionWrites
<1>6. Grew(fs, copied) /\ FilesInv(copied) /\ copied.state = fs.state
  BY <1>1, <1>5, SessionGrew
<1>7. Stands(fs, copied) /\ (PriorUnchanged(fs) => PriorUnchanged(copied))
  BY <1>6, GrewKeeps
<1>8. PICK removed : removed = [copied EXCEPT !.work[cp] = Nothing]
  OBVIOUS
<1>9. /\ FilesInv(removed) /\ Stands(copied, removed) /\ removed.state = copied.state
      /\ PriorUnchanged(copied) /\ cp = copied.state.active => PriorUnchanged(removed)
  BY <1>2, <1>6, <1>8, WorkWrite DEF Optional
<1>10. Preserved(session, cp) = <<fs, copied, removed>>
  BY <1>3, <1>4, <1>8 DEF Preserved
<1>11. ASSUME Ends(Preserved(session, cp))
       PROVE  /\ FilesInv(fs') /\ Stands(fs, fs') /\ tally' = tally /\ fs'.state = fs.state
              /\ tally.disturbed = 0 => PriorUnchanged(fs')
  <2>1. Last(<<fs, copied, removed>>) = removed
    BY DEF Last
  <2>2. fs' = removed /\ tally' = tally
    BY <1>10, <1>11, <2>1 DEF Ends
  <2>3. Stands(fs, removed)
    BY <1>6, <1>7, <1>9 DEF Stands
  <2>4. tally.disturbed = 0 => PriorUnchanged(removed)
    BY <1>1, <1>6, <1>7, <1>9 DEF SoleHost
  <2>. QED BY <1>6, <1>9, <2>2, <2>3, <2>4
<1>12. ASSUME BreaksOff(h, Preserved(session, cp)) PROVE LifecycleInv' /\ Stands(fs, fs')
  <2>1. PICK i \in 1 .. 2 : fs' = <<fs, copied, removed>>[i]
    BY <1>10, <1>12 DEF BreaksOff, Part
  <2>2. fs' = fs \/ fs' = copied
    BY <2>1
  <2>3. FilesInv(fs') /\ Stands(fs, fs') /\ (PriorUnchanged(fs) => PriorUnchanged(fs'))
    BY <1>1, <1>6, <1>7, <2>2 DEF Stands
  <2>4. Killed(h) /\ ~At(h, "idle")
    BY <1>12 DEF BreaksOff, At
  <2>. QED BY <2>3, <2>4, KilledSteps
<1>. QED BY <1>11, <1>12

(* The candidate of an earlier attempt is preserved.                       *)
LEMMA PreservePriorSteps ==
    ASSUME LifecycleInv, NEW h \in Hosts, PreservePrior(h)
    PROVE  LifecycleInv' /\ Stands(fs, fs')
<1>1. At(h, "preserve") /\ ~At(h, "idle") /\ host[h].pc \notin {"idle", "release"}
  BY DEF PreservePrior, At
<1>2. PICK cp : cp = host[h].ctx.cp
  OBVIOUS
<1>3. CASE fs' = fs /\ tally' = tally /\ \E pc \in {"prepare", "idle"} : Goto(h, pc)
  <2>1. PICK pc \in Labels : pc \notin Opens /\ Goto(h, pc)
    BY <1>3 DEF Labels, Opens
  <2>2. OfSessions(fs, fs')
    BY <1>3, SessionWrites DEF LifecycleInv
  <2>. QED BY <1>1, <1>3, <2>1, <2>2, SessionSteps
<1>4. CASE \E session : Ends(Preserved(session, cp)) /\ Goto(h, "prepare")
  <2>1. /\ FilesInv(fs') /\ Stands(fs, fs') /\ tally' = tally /\ fs'.state = fs.state
        /\ tally.disturbed = 0 => PriorUnchanged(fs')
    BY <1>1, <1>2, <1>4, PreservedWrite
  <2>2. "prepare" \in Labels /\ "prepare" \notin Opens /\ Goto(h, "prepare")
    BY <1>4 DEF Labels, Opens
  <2>. QED BY <1>1, <2>1, <2>2, GotoSteps
<1>5. CASE \E session : BreaksOff(h, Preserved(session, cp))
  BY <1>1, <1>2, <1>5, PreservedWrite
<1>. QED BY <1>2, <1>3, <1>4, <1>5 DEF PreservePrior

(* The candidate of a failed attempt is preserved.                         *)
LEMMA KeepCandidateSteps ==
    ASSUME LifecycleInv, NEW h \in Hosts, KeepCandidate(h)
    PROVE  LifecycleInv' /\ Stands(fs, fs')
<1>1. /\ At(h, "keep") /\ ~At(h, "idle") /\ host[h].pc \notin {"idle", "release"}
      /\ "idle" \in Labels /\ "idle" \notin Opens
  BY DEF KeepCandidate, At, Labels, Opens
<1>2. PICK cp : cp = host[h].ctx.cp
  OBVIOUS
<1>3. CASE fs' = fs /\ tally' = tally /\ Goto(h, "idle")
  <2>1. OfSessions(fs, fs')
    BY <1>3, SessionWrites DEF LifecycleInv
  <2>. QED BY <1>1, <1>3, <2>1, SessionSteps
<1>4. CASE \E session : Ends(Preserved(session, cp)) /\ Goto(h, "idle")
  <2>1. /\ FilesInv(fs') /\ Stands(fs, fs') /\ tally' = tally /\ fs'.state = fs.state
        /\ tally.disturbed = 0 => PriorUnchanged(fs')
    BY <1>1, <1>2, <1>4, PreservedWrite
  <2>. QED BY <1>1, <1>4, <2>1, GotoSteps
<1>5. CASE \E session : BreaksOff(h, Preserved(session, cp))
  BY <1>1, <1>2, <1>5, PreservedWrite
<1>. QED BY <1>2, <1>3, <1>4, <1>5 DEF KeepCandidate

(* Writes to the sessions' files after others.                             *)
LEMMA SessionThen ==
    ASSUME NEW f, NEW g, NEW k, OfSessions(f, g), OfSessions(g, k)
    PROVE  OfSessions(f, k)
BY DEF OfSessions

(* A file under a reserved name is moved aside.                            *)
LEMMA MovedWrites ==
    ASSUME NEW f, FilesInv(f), NEW session, NEW view
    PROVE  OfSessions(f, MoveRequest(f, session, view)) /\ OfSessions(f, MoveResult(f, session))
<1>1. OfSessions(f, MoveRequest(f, session, view))
  <2>1. PICK x : x = Without(f.req, session)
    OBVIOUS
  <2>2. PICK y : y = f.aside \cup {<<session, "req">>}
    OBVIOUS
  <2>3. PICK g : g = MoveRequest(f, session, view)
    OBVIOUS
  <2>4. g = f \/ g = [f EXCEPT !.req = x, !.aside = y]
    BY <2>1, <2>2, <2>3 DEF MoveRequest
  <2>5. OfSessions(f, g)
    BY <2>4, SessionWrites
  <2>. QED BY <2>3, <2>5
<1>2. OfSessions(f, MoveResult(f, session))
  <2>1. PICK x : x = Without(f.res, session)
    OBVIOUS
  <2>2. PICK y : y = f.aside \cup {<<session, "res">>}
    OBVIOUS
  <2>3. PICK g : g = MoveResult(f, session)
    OBVIOUS
  <2>4. g = f \/ g = [f EXCEPT !.res = x, !.aside = y]
    BY <2>1, <2>2, <2>3 DEF MoveResult
  <2>5. OfSessions(f, g)
    BY <2>4, SessionWrites
  <2>. QED BY <2>3, <2>5
<1>. QED BY <1>1, <1>2

(* A path of four writes to the sessions' files.                           *)
LEMMA SessionPath ==
    ASSUME NEW f, FilesInv(f), NEW a, NEW b, NEW c, NEW d,
           OfSessions(f, a), OfSessions(f, b), OfSessions(f, c), OfSessions(f, d)
    PROVE  Path(f, <<a, b, c, d>>) /\ Last(<<a, b, c, d>>) = d
<1>1. PICK S : S = {a, b, c, d}
  OBVIOUS
<1>2. \A g \in S : Grew(f, g)
  BY <1>1, SessionGrew
<1>3. PICK steps : steps = <<a, b, c, d>>
  OBVIOUS
<1>4. steps \in Seq(S) /\ steps # <<>> /\ Len(steps) = 4 /\ steps[4] = d
  BY <1>1, <1>3
<1>5. Path(f, steps)
  BY <1>2, <1>4 DEF Path, Writes
<1>6. Last(steps) = d
  BY <1>4, LastOf
<1>. QED BY <1>3, <1>5, <1>6

(* The attempt is prepared and its request is published.                   *)
LEMMA PrepareSteps ==
    ASSUME LifecycleInv, NEW h \in Hosts, NEW leaves \in BOOLEAN, NEW raises \in BOOLEAN,
           Prepare(h, leaves, raises)
    PROVE  LifecycleInv' /\ Stands(fs, fs')
<1>1. FilesInv(fs) /\ HostOK /\ TallyOK /\ SoleHost
  BY DEF LifecycleInv
<1>2. At(h, "prepare") /\ ~At(h, "idle")
  BY DEF Prepare, At
<1>3. PICK c : c = host[h].ctx
  OBVIOUS
<1>4. PICK session : session = <<c.cp, Len(c.attempts) + 1>>
  OBVIOUS
<1>5. PICK x : x = Put(fs.res, session, <<"foreign">>)
  OBVIOUS
<1>6. PICK left : left = IF leaves THEN [fs EXCEPT !.res = x] ELSE fs
  OBVIOUS
<1>7. PICK requestMoved : requestMoved = MoveRequest(left, session, c.view)
  OBVIOUS
<1>8. PICK moved : moved = MoveResult(requestMoved, session)
  OBVIOUS
<1>9. PICK y : y = Put(moved.req, session, c.view)
  OBVIOUS
<1>10. PICK published : published = [moved EXCEPT !.req = y]
  OBVIOUS
<1>11. OfSessions(fs, left) /\ FilesInv(left)
  <2>1. OfSessions(fs, left)
    BY <1>1, <1>6, SessionWrites
  <2>. QED BY <1>1, <2>1, SessionGrew
<1>12. OfSessions(fs, requestMoved) /\ FilesInv(requestMoved)
  <2>1. OfSessions(left, requestMoved)
    BY <1>7, <1>11, MovedWrites
  <2>2. OfSessions(fs, requestMoved)
    BY <1>11, <2>1, SessionThen
  <2>. QED BY <1>1, <2>2, SessionGrew
<1>13. OfSessions(fs, moved) /\ FilesInv(moved)
  <2>1. OfSessions(requestMoved, moved)
    BY <1>8, <1>12, MovedWrites
  <2>2. OfSessions(fs, moved)
    BY <1>12, <2>1, SessionThen
  <2>. QED BY <1>1, <2>2, SessionGrew
<1>14. OfSessions(fs, published)
  <2>1. OfSessions(moved, published)
    BY <1>10, <1>13, SessionWrites
  <2>. QED BY <1>13, <2>1, SessionThen
<1>15. PICK steps : steps = <<left, requestMoved, moved, published>>
  OBVIOUS
<1>16. Path(fs, steps) /\ Last(steps) = published
  BY <1>1, <1>11, <1>12, <1>13, <1>14, <1>15, SessionPath
<1>17. PICK result : result \in {"none", "failed"} /\
           result = IF raises \/ requestMoved # left \/ moved # requestMoved THEN "failed" ELSE "none"
  OBVIOUS
<1>18. \/ fs' = left /\ Goto(h, "idle") /\ tally' = tally
       \/ fs' = requestMoved /\ Goto(h, "idle") /\ tally' = tally
       \/ /\ Ends(steps)
          /\ host' = [host EXCEPT ![h].pc = "open", ![h].session = session, ![h].result = result]
       \/ BreaksOff(h, steps)
  BY <1>3, <1>4, <1>5, <1>6, <1>7, <1>8, <1>9, <1>10, <1>15, <1>17 DEF Prepare
<1>19. CASE (fs' = left \/ fs' = requestMoved) /\ Goto(h, "idle") /\ tally' = tally
  <2>1. OfSessions(fs, fs') /\ "idle" \in Labels /\ "idle" \notin Opens
    BY <1>11, <1>12, <1>19 DEF Labels, Opens
  <2>. QED BY <1>2, <1>19, <2>1, SessionSteps
<1>20. CASE /\ Ends(steps)
            /\ host' = [host EXCEPT ![h].pc = "open", ![h].session = session, ![h].result = result]
  <2>1. /\ FilesInv(fs') /\ Stands(fs, fs') /\ (PriorUnchanged(fs) => PriorUnchanged(fs'))
        /\ tally' = tally /\ fs' = published
    BY <1>16, <1>20, EndsSteps
  <2>2. fs'.state = fs.state
    BY <1>14, <2>1 DEF OfSessions
  <2>3. PICK old \in HostRecords : old = host[h] /\ host \in [Hosts -> HostRecords]
    BY <1>1 DEF HostOK
  <2>4. c.cp \in Steps /\ c.attempts \in Seq(Attempts)
    <3>1. c.cp \in 0 .. Checkpoints /\ c.cp # 0 /\ Checkpoints \in Nat
      BY <1>1, <1>2, <1>3, <2>3, LifecycleConstants DEF HostRecords, HostOK, At
    <3>2. c.attempts \in Seq(Attempts)
      BY <1>3, <2>3 DEF HostRecords
    <3>. QED BY <3>1, <3>2 DEF Steps
  <2>5. session \in Sessions
    BY <1>4, <2>4 DEF Sessions
  <2>6. PICK r : r = [old EXCEPT !.pc = "open", !.session = session, !.result = result]
    OBVIOUS
  <2>7. r \in HostRecords /\ r.pc = "open" /\ r.session = session /\ r.ctx = c
    BY <1>3, <1>17, <2>3, <2>5, <2>6 DEF HostRecords, Labels
  <2>8. host' = [host EXCEPT ![h] = r]
    BY <1>20, <2>3, <2>6
  <2>9. RecordFits(r)
    BY <2>4, <2>5, <2>7 DEF RecordFits, Steps
  <2>10. TallyOK' /\ tally'.disturbed = tally.disturbed
    BY <1>1, <2>1 DEF TallyOK
  <2>11. /\ tally.disturbed = 0 => PriorUnchanged(fs')
         /\ tally.disturbed = 0 => r.ctx.cp = fs'.state.active
    BY <1>1, <1>2, <1>3, <2>1, <2>2, <2>7 DEF SoleHost, At
  <2>. QED BY <1>2, <2>1, <2>7, <2>8, <2>9, <2>10, <2>11, HostSteps
<1>21. CASE BreaksOff(h, steps)
  BY <1>2, <1>16, <1>21, BreaksOffSteps
<1>. QED BY <1>18, <1>19, <1>20, <1>21

(* A state with the same checkpoints accepted is written.                  *)
LEMMA SameAcceptedWrite ==
    ASSUME NEW g, FilesInv(g), g.exists, Len(g.tx) = Len(g.state.actions),
           NEW t \in States, t.actions = g.state.actions, t.transitions >= g.state.transitions,
           Ordered(t), \A c \in Steps : t.cps[c].budget = g.state.cps[c].budget,
           \A c \in Submitted(g.state) : t.cps[c] = g.state.cps[c] /\ c \in Submitted(t),
           Submitted(t) = Submitted(g.state), NEW k, k = [g EXCEPT !.state = t]
    PROVE  Grew(g, k) /\ k.state = t /\ k.exists
BY StateWrite

(* The state is loaded, and the active checkpoint's attempts are written.  *)
LEMMA AttemptsPath ==
    ASSUME NEW f, FilesInv(f), f.exists, NEW g, g = Loaded(f), g.state.active # 0,
           NEW m \in Seq(Attempts), \A i, j \in ActiveIn(m) : i = j,
           NEW t, t = WithAttempts(g.state, m)
    PROVE  \A k : k = [g EXCEPT !.state = t] =>
              /\ Path(f, Append(Load(f), k))
              /\ Last(Append(Load(f), k)).state.active = f.state.active
<1>1. Path(f, Load(f)) /\ Settled(f, g) /\ g = Last(Load(f))
  BY LoadPath DEF Loaded
<1>2. FilesInv(g) /\ g.exists /\ Len(g.tx) = Len(g.state.actions) /\ g.state.active = f.state.active
  BY <1>1 DEF Settled, SameRuns
<1>3. g.state \in States /\ Ordered(g.state)
  BY <1>2, FilesFields DEF FilesInv
<1>4. /\ t \in States /\ t.actions = g.state.actions /\ t.transitions >= g.state.transitions
      /\ Ordered(t) /\ t.active = g.state.active
      /\ \A c \in Steps : t.cps[c].budget = g.state.cps[c].budget
      /\ \A c \in Submitted(g.state) : t.cps[c] = g.state.cps[c] /\ c \in Submitted(t)
      /\ Submitted(t) = Submitted(g.state)
  BY <1>3, AttemptsState
<1>5. ASSUME NEW k, k = [g EXCEPT !.state = t]
      PROVE  /\ Path(f, Append(Load(f), k))
             /\ Last(Append(Load(f), k)).state.active = f.state.active
  <2>1. PICK u \in States : u = t
    BY <1>4
  <2>2. /\ u.actions = g.state.actions /\ u.transitions >= g.state.transitions
        /\ Ordered(u) /\ \A c \in Steps : u.cps[c].budget = g.state.cps[c].budget
    BY <1>4, <2>1
  <2>3. /\ \A c \in Submitted(g.state) : u.cps[c] = g.state.cps[c] /\ c \in Submitted(u)
        /\ Submitted(u) = Submitted(g.state)
    BY <1>4, <2>1
  <2>4. k = [g EXCEPT !.state = u]
    BY <1>5, <2>1
  <2>5. Grew(g, k) /\ k.state = u
    BY <1>2, <2>2, <2>3, <2>4, SameAcceptedWrite, ZenonT(60)
  <2>6. Path(f, Append(Load(f), k)) /\ Last(Append(Load(f), k)) = k
    BY <1>1, <2>5, PathAppend
  <2>. QED BY <1>2, <1>4, <2>1, <2>5, <2>6
<1>. QED BY <1>5

(* A new attempt is the only one active, the one before it interrupted.    *)
LEMMA ReopenedAttempts ==
    ASSUME NEW attempts \in Seq(Attempts), NEW a \in Attempts
    PROVE  LET m == Append(Marked(attempts, "interrupted"), a)
           IN m \in Seq(Attempts) /\ \A i, j \in ActiveIn(m) : i = j
<1>1. PICK old \in Seq(Attempts) : old = Marked(attempts, "interrupted") /\ ActiveIn(old) = {}
  BY MarkedNone
<1>2. PICK m \in Seq(Attempts) : m = Append(old, a)
  BY <1>1, AppendProperties
<1>3. PICK n \in Nat : n = Len(old)
  BY <1>1
<1>4. DOMAIN m = 1 .. (n + 1) /\ \A i \in 1 .. n : m[i] = old[i]
  BY <1>1, <1>2, <1>3
<1>5. \A i \in 1 .. n : old[i].status # "active"
  BY <1>1, <1>3 DEF ActiveIn
<1>6. ActiveIn(m) \subseteq {n + 1}
  BY <1>4, <1>5 DEF ActiveIn
<1>. QED BY <1>1, <1>2, <1>6

(* open_attempt.                                                           *)
LEMMA OpenAttemptSteps ==
    ASSUME LifecycleInv, NEW h \in Hosts, OpenAttempt(h)
    PROVE  LifecycleInv' /\ Stands(fs, fs')
<1>1. FilesInv(fs) /\ HostOK
  BY DEF LifecycleInv
<1>2. At(h, "open") /\ ~At(h, "idle") /\ fs.exists
  BY DEF OpenAttempt, At, Loadable
<1>3. host[h].pc # "release" /\ host[h].pc \in Opens
  BY <1>2 DEF At, Opens
<1>4. PICK f : f = Loaded(fs)
  OBVIOUS
<1>5. FilesInv(f)
  BY <1>1, <1>2, <1>4, LoadPath DEF Loaded, Settled
<1>6. PICK s \in States : s = f.state /\ Ordered(s)
  BY <1>5, FilesFields DEF FilesInv
<1>7. PICK a : a = Attempt(host[h].session, host[h].ctx.view)
  OBVIOUS
<1>8. PICK k : k = [f EXCEPT !.state = Reopened(s, a)]
  OBVIOUS
<1>9. \/ \E pc \in {"idle", "result", "execute"} : Refused(h, pc)
      \/ /\ s.active # 0 /\ Ends(Append(Load(fs), k))
         /\ \E pc \in {"idle", "result", "execute"} : Goto(h, pc)
      \/ s.active # 0 /\ BreaksOff(h, Append(Load(fs), k))
  BY <1>4, <1>6, <1>7, <1>8 DEF OpenAttempt
<1>10. CASE \E pc \in {"idle", "result", "execute"} : Refused(h, pc)
  <2>1. PICK pc \in Labels : Refused(h, pc)
    BY <1>10 DEF Labels
  <2>. QED BY <1>2, <1>3, <2>1, RefusedSteps
<1>11. ASSUME s.active # 0
       PROVE  /\ Path(fs, Append(Load(fs), k))
              /\ Last(Append(Load(fs), k)).state.active = fs.state.active
  <2>1. s.active \in Steps
    BY <1>6, <1>11, ActiveUnsubmitted
  <2>2. PICK attempts \in Seq(Attempts) : attempts = s.cps[s.active].attempts
    BY <2>1 DEF States, CheckpointRuns
  <2>3. a \in Attempts
    <3>1. host[h].session \in Sessions /\ host[h].ctx.view \in Views
      BY <1>1, <1>3 DEF HostOK, HostRecords
    <3>. QED BY <1>7, <3>1 DEF Attempt, Attempts
  <2>4. PICK m \in Seq(Attempts) :
           m = Append(Marked(attempts, "interrupted"), a) /\ \A i, j \in ActiveIn(m) : i = j
    BY <2>2, <2>3, ReopenedAttempts
  <2>5. PICK t : t = WithAttempts(f.state, m)
    OBVIOUS
  <2>6. k = [f EXCEPT !.state = t]
    <3>1. Reopened(s, a) = t
      BY <1>6, <2>2, <2>4, <2>5 DEF Reopened, WithAttempts
    <3>. QED BY <1>8, <3>1
  <2>7. \A i, j \in ActiveIn(m) : i = j
    BY <2>4
  <2>. QED BY <1>1, <1>2, <1>4, <1>6, <1>11, <2>5, <2>6, <2>7, AttemptsPath
<1>12. CASE /\ s.active # 0 /\ Ends(Append(Load(fs), k))
            /\ \E pc \in {"idle", "result", "execute"} : Goto(h, pc)
  <2>1. PICK pc \in Labels : Goto(h, pc)
    BY <1>12 DEF Labels
  <2>. QED BY <1>2, <1>3, <1>11, <1>12, <2>1, EndsGoto
<1>13. CASE s.active # 0 /\ BreaksOff(h, Append(Load(fs), k))
  BY <1>2, <1>11, <1>13, BreaksOffSteps
<1>. QED BY <1>9, <1>10, <1>12, <1>13

(* fail_checkpoint_attempt.                                                *)
LEMMA FailAttemptSteps ==
    ASSUME LifecycleInv, NEW h \in Hosts, FailAttempt(h)
    PROVE  LifecycleInv' /\ Stands(fs, fs')
<1>1. FilesInv(fs) /\ HostOK
  BY DEF LifecycleInv
<1>2. At(h, "fail") /\ ~At(h, "idle") /\ fs.exists
  BY DEF FailAttempt, At, Loadable
<1>3. host[h].pc # "release" /\ host[h].pc \in Opens /\ "idle" \in Labels /\ "keep" \in Labels
  BY <1>2 DEF At, Opens, Labels
<1>4. PICK f : f = Loaded(fs)
  OBVIOUS
<1>5. FilesInv(f)
  BY <1>1, <1>2, <1>4, LoadPath DEF Loaded, Settled
<1>6. PICK s \in States : s = f.state /\ Ordered(s)
  BY <1>5, FilesFields DEF FilesInv
<1>7. PICK failed : failed = [s EXCEPT !.cps[s.active].attempts = Marked(@, "failed")]
  OBVIOUS
<1>8. PICK k : k = [f EXCEPT !.state = failed]
  OBVIOUS
<1>9. \/ Refused(h, "idle")
      \/ IsOwn(h, s) /\ Ends(Append(Load(fs), k)) /\ Goto(h, "keep")
      \/ IsOwn(h, s) /\ BreaksOff(h, Append(Load(fs), k))
  BY <1>4, <1>6, <1>7, <1>8 DEF FailAttempt
<1>10. CASE Refused(h, "idle")
  BY <1>2, <1>3, <1>10, RefusedSteps
<1>11. ASSUME IsOwn(h, s)
       PROVE  /\ Path(fs, Append(Load(fs), k))
              /\ Last(Append(Load(fs), k)).state.active = fs.state.active
  <2>1. s.active # 0 /\ s.active \in Steps
    BY <1>6, <1>11, ActiveUnsubmitted DEF IsOwn
  <2>2. PICK attempts \in Seq(Attempts) : attempts = s.cps[s.active].attempts
    BY <2>1 DEF States, CheckpointRuns
  <2>3. PICK m \in Seq(Attempts) : m = Marked(attempts, "failed") /\ ActiveIn(m) = {}
    BY <2>2, MarkedNone
  <2>4. failed = WithAttempts(f.state, m)
    BY <1>6, <1>7, <2>2, <2>3 DEF WithAttempts
  <2>6. \A i, j \in ActiveIn(m) : i = j
    BY <2>3
  <2>. QED BY <1>1, <1>2, <1>4, <1>6, <1>8, <2>1, <2>3, <2>4, <2>6, AttemptsPath
<1>12. CASE IsOwn(h, s) /\ Ends(Append(Load(fs), k)) /\ Goto(h, "keep")
  BY <1>2, <1>3, <1>11, <1>12, EndsGoto
<1>13. CASE IsOwn(h, s) /\ BreaksOff(h, Append(Load(fs), k))
  BY <1>2, <1>11, <1>13, BreaksOffSteps
<1>. QED BY <1>9, <1>10, <1>12, <1>13

(* A load, and writes to what it loaded.                                   *)
LEMMA LoadedPath ==
    ASSUME NEW f, FilesInv(f), f.exists
    PROVE  /\ FilesInv(Loaded(f)) /\ Loaded(f).exists /\ Loaded(f).work = f.work
           /\ Len(Loaded(f).tx) = Len(Loaded(f).state.actions)
           /\ SameRuns(f.state, Loaded(f).state) /\ Steady(f.state.active, Load(f))
           /\ \A more : Path(Loaded(f), more) =>
                 Path(f, Load(f) \o more) /\ Last(Load(f) \o more) = Last(more)
<1>1. /\ Path(f, Load(f)) /\ Settled(f, Loaded(f)) /\ Loaded(f) = Last(Load(f))
      /\ Steady(f.state.active, Load(f))
  BY LoadPath DEF Loaded
<1>2. \A more : Path(Loaded(f), more) =>
         Path(f, Load(f) \o more) /\ Last(Load(f) \o more) = Last(more)
  BY <1>1, PathPath
<1>. QED BY <1>1, <1>2 DEF Settled

(* submit_checkpoint.                                                      *)
LEMMA SubmitCheckpointSteps ==
    ASSUME LifecycleInv, NEW h \in Hosts, SubmitCheckpoint(h)
    PROVE  LifecycleInv' /\ Stands(fs, fs')
<1>1. FilesInv(fs) /\ HostOK
  BY DEF LifecycleInv
<1>2. At(h, "submit") /\ ~At(h, "idle") /\ fs.exists
  BY DEF SubmitCheckpoint, At, Loadable
<1>3. /\ host[h].pc # "release" /\ host[h].pc \in Opens
      /\ "idle" \in Labels /\ "close" \in Labels /\ "release" \in Labels
      /\ "idle" \notin Opens /\ "release" \notin Opens
  BY <1>2 DEF At, Opens, Labels
<1>4. PICK f : f = Loaded(fs)
  OBVIOUS
<1>5. /\ FilesInv(f) /\ f.exists /\ Len(f.tx) = Len(f.state.actions)
      /\ \A more : Path(f, more) => Path(fs, Load(fs) \o more)
  BY <1>1, <1>2, <1>4, LoadedPath
<1>6. PICK s \in States : s = f.state /\ Ordered(s)
  BY <1>5, FilesFields DEF FilesInv
<1>7. PICK content : content = f.work[s.active]
  OBVIOUS
<1>8. PICK steps : steps = Load(fs) \o Accept(f, content)
  OBVIOUS
<1>9. \/ Refused(h, "close")
      \/ /\ s.active # 0 /\ content # Nothing /\ Ends(steps)
         /\ Goto(h, "idle") \/ Goto(h, "release")
      \/ s.active # 0 /\ content # Nothing /\ BreaksOff(h, steps)
  BY <1>4, <1>6, <1>7, <1>8 DEF SubmitCheckpoint
<1>10. ASSUME s.active # 0, content # Nothing PROVE Path(fs, steps)
  <2>1. s.active \in Steps /\ f.work \in [Steps -> Optional]
    BY <1>5, <1>6, <1>10, ActiveUnsubmitted, FilesFields
  <2>2. content \in Contents
    BY <1>7, <1>10, <2>1 DEF Optional
  <2>3. Path(f, Accept(f, content))
    BY <1>5, <1>6, <1>7, <1>10, <2>2, AcceptPath
  <2>. QED BY <1>5, <1>8, <2>3
<1>11. CASE Refused(h, "close")
  BY <1>2, <1>3, <1>11, RefusedSteps
<1>12. CASE /\ s.active # 0 /\ content # Nothing /\ Ends(steps)
            /\ Goto(h, "idle") \/ Goto(h, "release")
  BY <1>2, <1>3, <1>10, <1>12, EndsGoto
<1>13. CASE s.active # 0 /\ content # Nothing /\ BreaksOff(h, steps)
  BY <1>2, <1>10, <1>13, BreaksOffSteps
<1>. QED BY <1>9, <1>11, <1>12, <1>13

(* A host takes the context of the checkpoint that is active in s.         *)
TakesUp(h, next, s) == host' = [host EXCEPT ![h].pc = next, ![h].ctx = Context(s)]

(* An operation ends with the context of the checkpoint that is active.    *)
LEMMA ContextSteps ==
    ASSUME LifecycleInv, NEW h \in Hosts, ~At(h, "idle"), NEW next \in {"recover", "preserve"},
           NEW steps, Path(fs, steps), Ends(steps), NEW s, s = Last(steps).state, s.active # 0,
           TakesUp(h, next, s)
    PROVE  LifecycleInv' /\ Stands(fs, fs')
<1>1. /\ FilesInv(fs') /\ Stands(fs, fs') /\ (PriorUnchanged(fs) => PriorUnchanged(fs'))
      /\ tally' = tally /\ fs' = Last(steps)
  BY EndsSteps
<1>2. fs'.state = s /\ s \in States /\ Ordered(s)
  <2>1. \A f : FilesInv(f) => f.state \in States /\ Ordered(f.state)
    BY FilesFields DEF FilesInv
  <2>. QED BY <1>1, <2>1
<1>3. s.active \in Steps
  BY <1>2, ActiveUnsubmitted
<1>4. PICK c : c = Context(s)
  OBVIOUS
<1>5. c \in [cp : 0 .. Checkpoints, attempts : Seq(Attempts), view : Views] /\ c.cp = s.active
  <2>1. s.cps[s.active].attempts \in Seq(Attempts) /\ s.active \in 0 .. Checkpoints
    BY <1>2, <1>3 DEF States, CheckpointRuns
  <2>2. ReleasedIn(s.actions, s.active) \in Views
    <3>1. s.actions \in Seq(RequestActions)
      BY <1>2 DEF States
    <3>2. \A i \in DOMAIN s.actions : s.actions[i] \in RequestActions
      BY <3>1
    <3>3. \A a \in RequestActions : a.req \in Requests
      BY DEF RequestActions
    <3>4. \A i \in DOMAIN s.actions : s.actions[i].req \in Requests
      BY <3>2, <3>3
    <3>. QED BY <3>4 DEF ReleasedIn, ReleasedAt, Views
  <2>. QED BY <1>4, <2>1, <2>2 DEF Context
<1>6. PICK old \in HostRecords : old = host[h] /\ host \in [Hosts -> HostRecords]
  BY DEF LifecycleInv, HostOK
<1>7. PICK r : r = [old EXCEPT !.pc = next, !.ctx = c]
  OBVIOUS
<1>8. r \in HostRecords /\ r.pc = next /\ r.ctx = c
  BY <1>5, <1>7 DEF HostRecords, Labels
<1>9. host' = [host EXCEPT ![h] = r]
  BY <1>4, <1>6, <1>7 DEF TakesUp
<1>10. RecordFits(r)
  BY <1>5, <1>8 DEF RecordFits, Opens
<1>11. TallyOK' /\ tally'.disturbed = tally.disturbed
  BY <1>1 DEF LifecycleInv, TallyOK
<1>12. tally.disturbed = 0 => PriorUnchanged(fs')
  BY <1>1 DEF LifecycleInv, SoleHost
<1>13. r.ctx.cp = fs'.state.active
  BY <1>2, <1>5, <1>8
<1>14. LifecycleInv'
  BY <1>1, <1>8, <1>9, <1>10, <1>11, <1>12, <1>13, HostSteps
<1>. QED BY <1>1, <1>14

(* release_checkpoint.                                                     *)
LEMMA ReleaseCheckpointSteps ==
    ASSUME LifecycleInv, NEW h \in Hosts, NEW pc \in {"release", "again"},
           NEW next \in {"recover", "preserve"}, ReleaseCheckpoint(h, pc, next)
    PROVE  LifecycleInv' /\ Stands(fs, fs')
<1>1. FilesInv(fs)
  BY DEF LifecycleInv
<1>2. ~At(h, "idle") /\ "idle" \in Labels /\ "idle" \notin Opens
  BY DEF ReleaseCheckpoint, At, Labels, Opens
<1>3. PICK opened : opened = Opened(fs)
  OBVIOUS
<1>4. Path(fs, opened) /\ Settled(fs, Last(opened))
  BY <1>1, <1>3, OpenedPath
<1>5. PICK f : f = Last(opened)
  OBVIOUS
<1>6. FilesInv(f) /\ f.exists /\ Len(f.tx) = Len(f.state.actions)
  BY <1>4, <1>5 DEF Settled
<1>7. PICK released : released = opened \o Save(f, Release(f.state))
  OBVIOUS
<1>8. \/ Ends(opened) /\ Goto(h, "idle")
      \/ /\ f.state.active # 0 /\ Ends(opened)
         /\ TakesUp(h, next, f.state)
      \/ BreaksOff(h, opened)
      \/ /\ ~IsComplete(f.state) /\ f.state.active = 0 /\ Ends(released)
         /\ TakesUp(h, next, Release(f.state))
      \/ ~IsComplete(f.state) /\ f.state.active = 0 /\ BreaksOff(h, released)
  BY <1>3, <1>5, <1>7 DEF ReleaseCheckpoint, TakesUp
<1>9. CASE Ends(opened) /\ Goto(h, "idle")
  BY <1>2, <1>4, <1>9, EndsGoto
<1>10. CASE /\ f.state.active # 0 /\ Ends(opened)
            /\ TakesUp(h, next, f.state)
  <2>1. PICK s : s = f.state
    OBVIOUS
  <2>2. s = Last(opened).state /\ s.active # 0
    BY <1>5, <1>10, <2>1
  <2>3. TakesUp(h, next, s)
    BY <1>10, <2>1
  <2>. QED BY <1>2, <1>4, <1>10, <2>2, <2>3, ContextSteps
<1>11. CASE BreaksOff(h, opened)
  BY <1>2, <1>4, <1>11, BreaksOffSteps
<1>12. ASSUME ~IsComplete(f.state), f.state.active = 0
       PROVE  /\ Path(fs, released) /\ Last(released).state = Release(f.state)
              /\ Release(f.state).active # 0
  <2>1. /\ Path(f, Save(f, Release(f.state)))
        /\ Last(Save(f, Release(f.state))).state = Release(f.state)
        /\ Release(f.state).active \in Steps
    BY <1>6, <1>12, ReleasePath
  <2>2. Path(fs, released) /\ Last(released) = Last(Save(f, Release(f.state)))
    BY <1>4, <1>5, <1>7, <2>1, PathPath
  <2>3. 0 \notin Steps
    BY DEF Steps
  <2>. QED BY <2>1, <2>2, <2>3
<1>13. CASE /\ ~IsComplete(f.state) /\ f.state.active = 0 /\ Ends(released)
            /\ TakesUp(h, next, Release(f.state))
  <2>1. PICK s : s = Release(f.state)
    OBVIOUS
  <2>2. s = Last(released).state /\ s.active # 0 /\ Path(fs, released)
    BY <1>12, <1>13, <2>1
  <2>3. TakesUp(h, next, s)
    BY <1>13, <2>1
  <2>. QED BY <1>2, <1>13, <2>2, <2>3, ContextSteps
<1>14. CASE ~IsComplete(f.state) /\ f.state.active = 0 /\ BreaksOff(h, released)
  BY <1>2, <1>12, <1>14, BreaksOffSteps
<1>. QED BY <1>8, <1>9, <1>10, <1>11, <1>13, <1>14

(* request_checkpoint_evidence.                                            *)
LEMMA AskSteps ==
    ASSUME LifecycleInv, NEW h \in Hosts, NEW r \in Requests, Ask(h, r)
    PROVE  LifecycleInv' /\ Stands(fs, fs')
<1>1. FilesInv(fs) /\ HostOK /\ SoleHost
  BY DEF LifecycleInv
<1>2. At(h, "execute") /\ ~At(h, "idle") /\ fs.exists
  BY DEF Ask, At, Loadable
<1>3. host[h].pc \in Opens
  BY <1>2 DEF At, Opens
<1>4. PICK f : f = Loaded(fs)
  OBVIOUS
<1>5. /\ FilesInv(f) /\ f.exists /\ Len(f.tx) = Len(f.state.actions) /\ SameRuns(fs.state, f.state)
      /\ \A more : Path(f, more) =>
            Path(fs, Load(fs) \o more) /\ Last(Load(fs) \o more) = Last(more)
  BY <1>1, <1>2, <1>4, LoadedPath
<1>6. PICK s \in States : s = f.state /\ Ordered(s)
  BY <1>5, FilesFields DEF FilesInv
<1>7. PICK session \in Sessions : session = host[h].session
  BY <1>1, <1>3 DEF HostOK
<1>8. PICK a : a = Action(s, r, session)
  OBVIOUS
<1>9. PICK steps : steps = Load(fs) \o Record(f, a)
  OBVIOUS
<1>10. /\ s.active # 0 /\ HasActive(s.cps[s.active].attempts)
       /\ FirstActive(s.cps[s.active].attempts).session = session
       /\ \/ Ends(steps) /\ host' = host
          \/ BreaksOff(h, steps)
  BY <1>4, <1>6, <1>7, <1>8, <1>9 DEF Ask
<1>11. /\ a \in RequestActions /\ a.cp = s.active /\ RollsForward(s, a)
       /\ a.outcome = "released" => /\ a.before > 0
                                    /\ a.req \notin ReleasedIn(s.actions, s.active)
                                    /\ Prerequisites[a.req] \subseteq ReleasedIn(s.actions, s.active)
  BY <1>6, <1>8, <1>10, ActionFits
<1>12. Path(f, Record(f, a)) /\ SameRuns(f.state, Last(Record(f, a)).state)
  BY <1>5, <1>6, <1>11, RecordPath
<1>13. Path(fs, steps) /\ Last(steps) = Last(Record(f, a))
  BY <1>5, <1>9, <1>12
<1>14. CASE Ends(steps) /\ host' = host
  <2>1. /\ FilesInv(fs') /\ Stands(fs, fs') /\ (PriorUnchanged(fs) => PriorUnchanged(fs'))
        /\ tally' = tally /\ fs' = Last(steps)
    BY <1>13, <1>14, EndsSteps
  <2>2. fs'.state.active = fs.state.active
    BY <1>5, <1>12, <1>13, <2>1 DEF SameRuns
  <2>3. PICK same \in HostRecords : same = host[h] /\ host' = [host EXCEPT ![h] = same]
    BY <1>1, <1>14 DEF HostOK
  <2>4. tally.disturbed = 0 => PriorUnchanged(fs')
    BY <1>1, <2>1 DEF SoleHost
  <2>. QED BY <1>2, <1>3, <2>1, <2>2, <2>3, <2>4, OnwardSteps
<1>15. CASE BreaksOff(h, steps)
  BY <1>2, <1>13, <1>15, BreaksOffSteps
<1>. QED BY <1>10, <1>14, <1>15

(* revisit_checkpoint.                                                     *)
LEMMA RevisitSteps ==
    ASSUME LifecycleInv, NEW cp \in Steps, Revisit(cp)
    PROVE  LifecycleInv' /\ Stands(fs, fs')
<1>1. FilesInv(fs) /\ HostOK /\ SoleHost /\ TallyOK
  BY DEF LifecycleInv
<1>2. fs.exists /\ host' = host
  BY DEF Revisit, Loadable
<1>3. PICK f : f = Loaded(fs)
  OBVIOUS
<1>4. /\ FilesInv(f) /\ f.exists /\ Len(f.tx) = Len(f.state.actions) /\ SameRuns(fs.state, f.state)
      /\ Steady(fs.state.active, Load(fs))
      /\ \A more : Path(f, more) =>
            Path(fs, Load(fs) \o more) /\ Last(Load(fs) \o more) = Last(more)
  BY <1>1, <1>2, <1>3, LoadedPath
<1>5. PICK s \in States : s = f.state /\ Ordered(s)
  BY <1>4, FilesFields DEF FilesInv
<1>6. PICK n \in Nat : n = s.transitions + 1
  BY DEF States
<1>7. PICK t : t = [s EXCEPT !.transitions = n]
  OBVIOUS
<1>8. /\ t \in States /\ t.actions = s.actions /\ t.active = s.active /\ t.cps = s.cps
      /\ t.transitions = n
  BY <1>7 DEF States
<1>9. SameRuns(s, t)
  BY <1>8 DEF SameRuns
<1>10. Ordered(t) /\ Submitted(t) = Submitted(s) /\ t.transitions >= s.transitions
  <2>1. s.transitions \in Nat
    BY DEF States
  <2>. QED BY <1>5, <1>6, <1>8, <1>9, <2>1, SameRunsSame
<1>11. PICK k : k = [f EXCEPT !.state = t]
  OBVIOUS
<1>12. Grew(f, k) /\ k.state = t /\ k.exists
  <2>1. \A c \in Submitted(s) : t.cps[c] = s.cps[c] /\ c \in Submitted(t)
    BY <1>8, <1>10
  <2>2. \A c \in Submitted(t) \ Submitted(s) : t.cps[c].sub = f.work[c] /\ f.archive[c] = f.work[c]
    BY <1>10
  <2>3. \A c \in Steps : t.cps[c].budget = s.cps[c].budget
    BY <1>8
  <2>. QED BY <1>4, <1>5, <1>8, <1>10, <1>11, <2>1, <2>2, <2>3, StateWrite
<1>13. Path(f, Save(f, t)) /\ Last(Save(f, t)).state = t /\ Steady(t.active, Save(f, t))
  BY <1>11, <1>12, SavePath
<1>14. PICK steps : steps = Load(fs) \o Save(f, t)
  OBVIOUS
<1>15. Path(fs, steps)
  BY <1>4, <1>13, <1>14
<1>16. \/ Ends(steps)
       \/ Part(steps) /\ OneKilled
  <2>1. t = [f.state EXCEPT !.transitions = @ + 1]
    BY <1>5, <1>6, <1>7
  <2>. QED BY <1>3, <1>14, <2>1 DEF Revisit
<1>17. Grew(fs, fs') /\ fs'.state.active = fs.state.active
  <2>1. t.active = fs.state.active
    BY <1>4, <1>5, <1>8 DEF SameRuns
  <2>2. Steady(fs.state.active, steps)
    BY <1>4, <1>13, <1>14, <2>1, SteadyThen
  <2>. QED BY <1>15, <1>16, <2>2, PathElements, SteadyElements DEF Ends, Part, Path
<1>18. FilesInv(fs') /\ Stands(fs, fs') /\ (PriorUnchanged(fs) => PriorUnchanged(fs'))
  BY <1>17, GrewKeeps
<1>19. TallyOK' /\ tally'.disturbed = tally.disturbed
  <2>1. CASE Ends(steps)
    BY <1>1, <2>1 DEF Ends, TallyOK
  <2>2. CASE OneKilled
    <3>1. PICK n2 \in 0 .. MaxKills : n2 = tally.kills + 1
      BY <1>1, <2>2, LifecycleConstants DEF TallyOK, OneKilled
    <3>2. tally' = [tally EXCEPT !.kills = n2]
      BY <2>2, <3>1 DEF OneKilled
    <3>. QED BY <1>1, <3>2 DEF TallyOK
  <2>. QED BY <1>16, <2>1, <2>2
<1>20. HostOK'
  BY <1>1, <1>2 DEF HostOK
<1>21. SoleHost'
  <2>1. ASSUME tally.disturbed = 0
        PROVE  /\ \A g, h \in Hosts : host[g].pc # "idle" /\ host[h].pc # "idle" => g = h
               /\ \A h \in Hosts :
                     host[h].pc \notin {"idle", "release"} => host[h].ctx.cp = fs'.state.active
               /\ PriorUnchanged(fs')
    BY <1>1, <1>17, <1>18, <2>1 DEF SoleHost, At
  <2>. QED BY <1>2, <1>19, <2>1 DEF SoleHost, At
<1>. QED BY <1>18, <1>19, <1>20, <1>21 DEF LifecycleInv

-----------------------------------------------------------------------------
(* The theorems.                                                           *)

(* A run that nobody started has nothing to account for.                   *)
LEMMA LifecycleStarts == LifecycleInit => LifecycleInv
<1>. SUFFICES ASSUME LifecycleInit PROVE LifecycleInv
  OBVIOUS
<1>1. /\ Checkpoints \in Nat /\ RequestBudget \in Nat /\ MaxKills \in Nat /\ MaxRuns \in Nat
      /\ MaxDisturbances \in Nat
  BY LifecycleConstants
<1>2. PICK f : f = NoFiles
  OBVIOUS
<1>3. /\ f.exists = FALSE /\ f.state = NewState /\ f.tx = <<>> /\ f.committed = {} /\ f.moves = <<>>
      /\ f.asks = <<>> /\ f.work = [cp \in Steps |-> Nothing]
      /\ f.archive = [cp \in Steps |-> Nothing]
  BY <1>2 DEF NoFiles
<1>4. PICK s : s = NewState
  OBVIOUS
<1>5. /\ s.active = 0 /\ s.actions = <<>> /\ s.transitions = 0
      /\ \A cp \in Steps : s.cps[cp] = NoCheckpointRun
  BY <1>4 DEF NewState
<1>6. s \in States
  <2>1. NoCheckpointRun \in CheckpointRuns
    <3>1. <<>> \in Seq(Attempts) /\ RequestBudget \in 0 .. RequestBudget
      BY <1>1
    <3>. QED BY <3>1 DEF NoCheckpointRun, CheckpointRuns
  <2>2. 0 \in 0 .. Checkpoints /\ <<>> \in Seq(RequestActions)
    BY <1>1
  <2>. QED BY <1>4, <2>1, <2>2 DEF NewState, States
<1>7. FilesOK(f)
  <2>1. /\ <<>> \in Seq(RequestActions) /\ <<>> \in Seq(Nat) /\ {} \in SUBSET Nat
        /\ [cp \in Steps |-> Nothing] \in [Steps -> Optional]
    BY DEF Optional
  <2>. QED BY <1>2, <1>4, <1>6, <2>1 DEF NoFiles, FilesOK
<1>8. \A cp \in Steps : ReleasedAt(<<>>, cp) = {}
  BY DEF ReleasedAt
<1>9. Accounted(s) /\ Prerequired(f.tx)
  <2>1. \A cp \in Steps : s.cps[cp].budget = RequestBudget
    BY <1>5 DEF NoCheckpointRun
  <2>2. \A cp \in Steps : Cardinality(ReleasedAt(s.actions, cp)) = 0
    BY <1>5, <1>8, FS_EmptySet
  <2>3. Accounted(s)
    BY <1>1, <2>1, <2>2 DEF Accounted
  <2>4. Prerequired(f.tx)
    BY <1>3, <1>8 DEF Prerequired
  <2>. QED BY <2>3, <2>4
<1>10. Submitted(s) = {}
  BY <1>5 DEF Submitted, NoCheckpointRun
<1>11. Ordered(s)
  <2>1. \A cp \in Steps : ActiveIn(s.cps[cp].attempts) = {}
    BY <1>5 DEF NoCheckpointRun, ActiveIn
  <2>2. \A cp \in Steps : /\ \A i, j \in ActiveIn(s.cps[cp].attempts) : i = j
                          /\ HasActive(s.cps[cp].attempts) => s.active = cp
    BY <2>1 DEF HasActive
  <2>3. Submitted(s) = 1 .. 0 /\ s.active \in {0, 0 + 1} /\ 0 \in Nat
    BY <1>5, <1>10
  <2>. QED BY <2>2, <2>3, OrderedBy
<1>12. Archives(f) /\ PriorUnchanged(f)
  BY <1>3, <1>4, <1>10 DEF Archives, PriorUnchanged
<1>13. History(f) /\ Pending(f)
  BY <1>3, <1>4, <1>5 DEF History, Pending
<1>14. Ledgers(f)
  <2>1. Upto(0) = <<>>
    BY DEF Upto
  <2>. QED BY <1>3, <1>4, <1>5, <2>1 DEF Ledgers
<1>15. Blank(f)
  BY <1>3 DEF Blank
<1>16. FilesInv(f)
  BY <1>3, <1>4, <1>7, <1>9, <1>11, <1>12, <1>13, <1>14, <1>15 DEF FilesInv
<1>17. IdleHost \in HostRecords /\ IdleHost.pc = "idle"
  <2>1. <<>> \in Seq(Attempts) /\ {} \in Views /\ 0 \in 0 .. Checkpoints
    BY <1>1 DEF Views
  <2>2. NoContext \in [cp : 0 .. Checkpoints, attempts : Seq(Attempts), view : Views]
    BY <2>1 DEF NoContext
  <2>. QED BY <2>2 DEF IdleHost, HostRecords, Labels
<1>18. HostOK /\ \A h \in Hosts : host[h].pc = "idle"
  BY <1>17 DEF LifecycleInit, HostOK, Opens
<1>19. TallyOK
  BY <1>1 DEF LifecycleInit, TallyOK
<1>20. SoleHost
  BY <1>2, <1>12, <1>18 DEF LifecycleInit, SoleHost, At
<1>21. fs = f
  BY <1>2 DEF LifecycleInit
<1>. QED BY <1>16, <1>18, <1>19, <1>20, <1>21 DEF LifecycleInv

(* Every step of a host, an agent or an operator keeps the invariant, and  *)
(* what was accepted.                                                      *)
LEMMA LifecycleSteps ==
    LifecycleInv /\ [LifecycleNext]_lifecycleVars => LifecycleInv' /\ Stands(fs, fs')
<1>. SUFFICES ASSUME LifecycleInv, [LifecycleNext]_lifecycleVars
              PROVE  LifecycleInv' /\ Stands(fs, fs')
  OBVIOUS
<1>1. ASSUME NEW h \in Hosts, HostStep(h) PROVE LifecycleInv' /\ Stands(fs, fs')
  <2>1. CASE Start(h)
    BY <2>1, StartSteps
  <2>2. CASE ReleaseCheckpoint(h, "release", "recover")
    BY <2>2, ReleaseCheckpointSteps
  <2>3. CASE Recover(h)
    BY <2>3, RecoverSteps
  <2>4. CASE ReleaseCheckpoint(h, "again", "preserve")
    BY <2>4, ReleaseCheckpointSteps
  <2>5. CASE PreservePrior(h)
    BY <2>5, PreservePriorSteps
  <2>6. CASE \E leaves, raises \in BOOLEAN : Prepare(h, leaves, raises)
    BY <2>6, PrepareSteps
  <2>7. CASE OpenAttempt(h)
    BY <2>7, OpenAttemptSteps
  <2>8. CASE PersistResult(h)
    BY <2>8, PersistResultSteps
  <2>9. CASE SubmitCheckpoint(h)
    BY <2>9, SubmitCheckpointSteps
  <2>10. CASE Close(h)
    BY <2>10, CloseSteps
  <2>11. CASE FailAttempt(h)
    BY <2>11, FailAttemptSteps
  <2>12. CASE KeepCandidate(h)
    BY <2>12, KeepCandidateSteps
  <2>13. CASE Kill(h)
    BY <2>13, KillSteps
  <2>. QED BY <1>1, <2>1, <2>2, <2>3, <2>4, <2>5, <2>6, <2>7, <2>8, <2>9, <2>10, <2>11, <2>12, <2>13
           DEF HostStep
<1>2. ASSUME NEW h \in Hosts, Agent(h) PROVE LifecycleInv' /\ Stands(fs, fs')
  <2>1. CASE \E r \in Requests : Ask(h, r)
    BY <2>1, AskSteps
  <2>2. CASE \E cp \in Steps, c \in Contents : Write(h, cp, c)
    BY <2>2, WriteSteps
  <2>3. CASE \E result \in {"completed", "failed"} : Return(h, result)
    BY <2>3, ReturnSteps
  <2>. QED BY <1>2, <2>1, <2>2, <2>3 DEF Agent
<1>3. ASSUME NEW cp \in Steps, Revisit(cp) PROVE LifecycleInv' /\ Stands(fs, fs')
  BY <1>3, RevisitSteps
<1>4. CASE UNCHANGED lifecycleVars
  <2>1. fs' = fs /\ host' = host /\ tally' = tally
    BY <1>4 DEF lifecycleVars
  <2>2. FilesInv(fs') /\ HostOK' /\ TallyOK' /\ SoleHost' /\ Stands(fs, fs')
    BY <2>1 DEF LifecycleInv, HostOK, TallyOK, SoleHost, At, Stands
  <2>. QED BY <2>2 DEF LifecycleInv
<1>. QED BY <1>1, <1>2, <1>3, <1>4 DEF LifecycleNext

(* The invariant holds of every run, whatever its hosts do and wherever    *)
(* they are killed.                                                        *)
THEOREM LifecycleInvariant == LifecycleSpec => []LifecycleInv
BY LifecycleStarts, LifecycleSteps, PTL DEF LifecycleSpec

(* _load_state accepts the files after every write of every operation: the *)
(* state is valid, and recovery is never refused.                          *)
THEOREM RunAlwaysLoadable == LifecycleSpec => []AlwaysLoadable
<1>1. LifecycleInv => AlwaysLoadable
  <2>1. SUFFICES ASSUME LifecycleInv PROVE AlwaysLoadable
    OBVIOUS
  <2>2. FilesInv(fs) /\ TallyOK
    BY <2>1 DEF LifecycleInv
  <2>3. /\ fs.state.active \in 0 .. Checkpoints /\ \A cp \in Steps : fs.state.cps[cp] \in CheckpointRuns
        /\ fs.state.actions \in Seq(RequestActions) /\ fs.tx \in Seq(RequestActions)
        /\ fs.committed \subseteq DOMAIN fs.tx
    BY <2>2, FilesFields
  <2>4. \A txs \in Seq(RequestActions) : ToSet(txs) \subseteq RequestActions
    BY DEF ToSet
  <2>5. tally.kills \in 0 .. MaxKills /\ tally.started \in 0 .. MaxRuns
    BY <2>2 DEF TallyOK
  <2>6. LifecycleTypeOK
    BY <2>3, <2>4, <2>5 DEF LifecycleTypeOK
  <2>. QED BY <2>2, <2>6, FilesLoadable DEF AlwaysLoadable
<1>. QED BY <1>1, LifecycleInvariant, PTL

(* Evidence is released within the budget of its checkpoint, each packet   *)
(* once and after its prerequisites, whatever request was broken off.      *)
THEOREM RunBudgetKept == LifecycleSpec => []BudgetKept
<1>1. LifecycleInv => BudgetKept
  BY FilesWithinBudget DEF LifecycleInv, BudgetKept
<1>. QED BY <1>1, LifecycleInvariant, PTL

(* Checkpoints are accepted in order, and one attempt at most is active.   *)
THEOREM RunInOrder == LifecycleSpec => []InOrder
<1>1. LifecycleInv => InOrder
  BY DEF LifecycleInv, FilesInv, InOrder
<1>. QED BY <1>1, LifecycleInvariant, PTL

(* The archive holds what was accepted.                                    *)
THEOREM RunArchiveIntact == LifecycleSpec => []ArchiveIntact
<1>1. LifecycleInv => ArchiveIntact
  BY DEF LifecycleInv, FilesInv, ArchiveIntact
<1>. QED BY <1>1, LifecycleInvariant, PTL

(* As long as no two calls overlapped and agents wrote their checkpoint's  *)
(* submission, the workspace holds it too.                                 *)
THEOREM RunAcceptedIntact == LifecycleSpec => []AcceptedIntact
<1>1. LifecycleInv => AcceptedIntact
  BY DEF LifecycleInv, SoleHost, AcceptedIntact
<1>. QED BY <1>1, LifecycleInvariant, PTL

(* No step of any host changes what was accepted, or its archive.          *)
THEOREM RunAcceptedStands == LifecycleSpec => AcceptedStands
<1>1. LifecycleInv /\ [LifecycleNext]_lifecycleVars =>
         [\A cp \in Submitted(fs.state) :
             /\ fs'.state.cps[cp] = fs.state.cps[cp] /\ fs'.archive[cp] = fs.archive[cp]]_fs
  BY LifecycleSteps DEF Stands
<1>. QED BY <1>1, LifecycleInvariant, PTL DEF LifecycleSpec, AcceptedStands
=============================================================================
