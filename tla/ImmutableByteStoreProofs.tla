---------------------- MODULE ImmutableByteStoreProofs ----------------------
(***************************************************************************)
(* publish_bytes keeps what it returned, and implements the write-once     *)
(* store, for any number of publishers, paths, contents and power losses.  *)
(*                                                                         *)
(* The invariant ByteStoreInv is inductive.  The one step that takes a     *)
(* name away is Rollback: either nobody was told of the file or has found  *)
(* it, or the path is recorded as withdrawn and nothing is promised of it. *)
(* A step that flushes copies a name that is already right, and a power    *)
(* loss chooses between two names that are both right wherever something   *)
(* was acknowledged.                                                       *)
(***************************************************************************)
EXTENDS ImmutableByteStore, TLAPS

(* A publisher in a call has a path and bytes.                             *)
LEMMA InCall ==
    ASSUME ByteStoreInv, NEW q \in Publishers, ~At(q, "idle")
    PROVE  /\ pub[q].path \in Paths /\ pub[q].bytes \in Contents
           /\ pub[q].path # Nobody /\ pub[q].bytes # Missing
           /\ <<pub[q].path, pub[q].bytes>> \in Writes[q]
PROOF
<1>1. <<pub[q].path, pub[q].bytes>> \in Writes[q] /\ Writes[q] \subseteq Paths \X Contents
  BY ByteStoreConstants DEF ByteStoreInv, Calling
<1> QED BY <1>1, ByteStoreConstants

(* No call and no file are values of their types.                          *)
LEMMA NoCallType == NoCall \in Calls /\ NoFile \in Files
PROOF BY DEF NoCall, Calls, Pcs, NoFile, Files

(* A publisher that leaves its call touches no other one.                  *)
LEMMA LeaveType ==
    ASSUME pub \in [Publishers -> Calls], NEW q \in Publishers, Leave(q)
    PROVE  /\ pub' \in [Publishers -> Calls] /\ pub'[q] = NoCall
           /\ \A r \in Publishers \ {q} : pub'[r] = pub[r]
PROOF BY NoCallType DEF Leave

(* A publisher that goes on with its call touches no other one.            *)
LEMMA GotoType ==
    ASSUME pub \in [Publishers -> Calls], NEW q \in Publishers, NEW pc \in Pcs, Goto(q, pc)
    PROVE  /\ pub' \in [Publishers -> Calls]
           /\ pub'[q].pc = pc /\ pub'[q].path = pub[q].path /\ pub'[q].bytes = pub[q].bytes
           /\ \A r \in Publishers \ {q} : pub'[r] = pub[r]
PROOF
<1>1. pub[q] \in Calls OBVIOUS
<1>2. [pub[q] EXCEPT !.pc = pc] \in Calls BY <1>1 DEF Calls
<1>3. pub' = [pub EXCEPT ![q] = [pub[q] EXCEPT !.pc = pc]] BY DEF Goto
<1> QED BY <1>1, <1>2, <1>3 DEF Calls

(* Every action keeps the types.                                           *)
LEMMA TypeStep ==
    ASSUME ByteStoreInv, [Next]_vars
    PROVE  ByteStoreTypeOK'
PROOF
<1>0. ByteStoreTypeOK BY DEF ByteStoreInv
<1> USE DEF ByteStoreTypeOK
<1>1. ASSUME NEW q \in Publishers, Publisher(q) PROVE ByteStoreTypeOK'
  <2>0. q # Nobody BY ByteStoreConstants
  <2>p. {"agreed", "linked", "unlinked", "flushed", "replayed"} \subseteq Pcs BY DEF Pcs
  <2>1. CASE Begin(q)
    <3>1. PICK w \in Writes[q] :
             pub' = [pub EXCEPT ![q] =
                        [pc |-> IF entry[w[1]].bytes = Missing THEN "staged" ELSE "replay",
                         path |-> w[1], bytes |-> w[2]]]
      BY <2>1 DEF Begin
    <3>2. w[1] \in Paths /\ w[2] \in Contents BY ByteStoreConstants
    <3>3. [pc |-> IF entry[w[1]].bytes = Missing THEN "staged" ELSE "replay",
           path |-> w[1], bytes |-> w[2]] \in Calls
      BY <3>2 DEF Calls, Pcs
    <3> QED BY <1>0, <2>1, <3>1, <3>3 DEF Begin
  <2>2. CASE Link(q)
    <3>1. Own(q) \in Files BY <2>2, InCall DEF Link, At, Own, Files
    <3> QED BY <1>0, <2>2, <2>p, <3>1, GotoType DEF Link
  <2>3. CASE LinkExists(q) BY <1>0, <2>3, <2>p, GotoType, LeaveType DEF LinkExists
  <2>4. CASE Validate(q) BY <1>0, <2>4, <2>p, GotoType DEF Validate
  <2>5. CASE Rollback(q)
    <3>1. pub[q].path \in Paths BY <2>5, InCall DEF Rollback, At
    <3>2. withdrawn' \subseteq Paths BY <1>0, <2>5, <3>1 DEF Rollback
    <3>3. entry' \in [Paths -> Files] BY <1>0, <2>5, NoCallType DEF Rollback
    <3>4. pub' \in [Publishers -> Calls] BY <1>0, <2>5, <2>p, GotoType DEF Rollback
    <3> QED BY <1>0, <2>5, <3>2, <3>3, <3>4 DEF Rollback
  <2>6. CASE Flush(q)
    <3>1. pub[q].path \in Paths BY <2>6, InCall DEF Flush, At
    <3> QED BY <1>0, <2>6, <2>p, <3>1, GotoType, LeaveType DEF Flush
  <2>7. CASE Return(q)
    <3>1. pub[q].bytes \in Contents BY <2>7, InCall DEF Return, At
    <3> QED BY <1>0, <2>7, <3>1, LeaveType DEF Return
  <2>8. CASE Stop(q) BY <1>0, <2>8, LeaveType DEF Stop
  <2> QED BY <1>1, <2>1, <2>2, <2>3, <2>4, <2>5, <2>6, <2>7, <2>8 DEF Publisher
<1>2. CASE PowerLoss
  <2>1. PICK e : entry' = e /\ e \in [Paths -> {entry[p] : p \in Paths} \cup {disk[p] : p \in Paths}]
                 /\ \A p \in Paths : e[p] \in {entry[p], disk[p]}
    BY <1>2 DEF PowerLoss
  <2>2. entry' \in [Paths -> Files] BY <1>0, <2>1
  <2>3. boots' \in 0 .. MaxBoots BY <1>0, <1>2, ByteStoreConstants DEF PowerLoss
  <2> QED BY <1>0, <1>2, <2>2, <2>3, NoCallType DEF PowerLoss
<1>3. CASE UNCHANGED vars BY <1>0, <1>3 DEF vars
<1> QED BY <1>1, <1>2, <1>3 DEF Next

-----------------------------------------------------------------------------
(* A path that holds nothing and was not withdrawn was acknowledged to     *)
(* nobody.                                                                 *)
LEMMA EmptyIsUnseen ==
    ASSUME ByteStoreInv, NEW p \in Paths \ withdrawn, entry[p].bytes = Missing
    PROVE  acked[p] = {}
PROOF
<1>1. acked[p] \subseteq Contents BY DEF ByteStoreInv, ByteStoreTypeOK
<1> QED BY <1>1, ByteStoreConstants DEF ByteStoreInv, AckedDurable

CallInv(q) ==
    Calling(q) /\ LinkedIsOwn(q) /\ ReliedIsPresent(q) /\ FlushedIsDurable(q)

(* What each step of a publisher does to the invariant: its own call moves *)
(* on, and the calls of the others and what was acknowledged are kept.     *)
LEMMA PublisherStep ==
    ASSUME ByteStoreInv, ByteStoreTypeOK', NEW q \in Publishers, Publisher(q)
    PROVE  AckedDurable' /\ \A r \in Publishers : CallInv(r)'
PROOF
<1>0. /\ ByteStoreTypeOK /\ AckedDurable /\ \A r \in Publishers : CallInv(r)
  BY DEF ByteStoreInv, CallInv
<1>n. q # Nobody /\ Missing \notin Contents BY ByteStoreConstants
<1>p. {"agreed", "linked", "unlinked", "flushed", "replayed"} \subseteq Pcs BY DEF Pcs
<1> USE DEF At, Present, Own, Kept, Relying, CallInv, Calling, LinkedIsOwn, ReliedIsPresent,
            FlushedIsDurable
<1>1. CASE Begin(q)
  <2>1. PICK w \in Writes[q] :
           /\ entry[w[1]].bytes \in {w[2], Missing}
           /\ pub' = [pub EXCEPT ![q] =
                        [pc |-> IF entry[w[1]].bytes = Missing THEN "staged" ELSE "replay",
                         path |-> w[1], bytes |-> w[2]]]
    BY <1>1 DEF Begin
  <2>2. w \in Paths \X Contents BY ByteStoreConstants
  <2>3. CallInv(q)' BY <1>0, <1>1, <2>1, <2>2 DEF Begin, ByteStoreTypeOK
  <2>4. \A r \in Publishers \ {q} : CallInv(r)' BY <1>0, <1>1, <2>1 DEF Begin, ByteStoreTypeOK
  <2> QED BY <1>0, <1>1, <2>3, <2>4 DEF Begin, AckedDurable
<1>2. CASE Link(q)
  <2>1. pub[q].path \in Paths /\ pub[q].bytes \in Contents BY <1>2, InCall DEF Link
  <2>2. /\ pub'[q].pc = "linked" /\ pub'[q].path = pub[q].path /\ pub'[q].bytes = pub[q].bytes
        /\ \A r \in Publishers \ {q} : pub'[r] = pub[r]
    BY <1>0, <1>2, <1>p, GotoType DEF Link, ByteStoreTypeOK
  <2>3. pub[q].path \notin withdrawn => acked[pub[q].path] = {}
    BY <1>2, <2>1, EmptyIsUnseen DEF Link, NoFile
  <2>4. /\ entry'[pub[q].path] = Own(q)
        /\ \A p \in Paths : p # pub[q].path => entry'[p] = entry[p]
    BY <1>0, <1>2, <2>1 DEF Link, ByteStoreTypeOK
  <2>5. CallInv(q)' BY <1>0, <1>2, <2>2, <2>3, <2>4 DEF Link
  <2>6. ASSUME NEW r \in Publishers \ {q} PROVE CallInv(r)'
    <3>1. CASE At(r, "idle") BY <2>2, <3>1
    <3>2. CASE ~At(r, "idle") /\ pub[r].path = pub[q].path
      <4>1. pub[r].bytes # Missing BY <3>2, InCall
      <4>e. /\ r # Nobody
            /\ entry[pub[r].path].by = Nobody /\ entry[pub[r].path].bytes = Missing
        BY <1>2, <3>2, ByteStoreConstants DEF Link, NoFile
      <4>l. pub[r].pc # "linked"
        <5>1. ASSUME At(r, "linked") PROVE FALSE
          <6>1. entry[pub[r].path] = [by |-> r, bytes |-> pub[r].bytes] BY <1>0, <5>1
          <6>2. entry[pub[r].path].bytes = pub[r].bytes BY <6>1
          <6> QED BY <4>1, <4>e, <6>2
        <5> QED BY <5>1
      <4>a. Kept(r) => pub[r].pc \notin {"agreed", "flushed", "replay", "replayed"}
        BY <1>0, <4>1, <4>e
      <4>3. pub'[r] = pub[r] /\ withdrawn' = withdrawn BY <1>2, <2>2 DEF Link
      <4> QED BY <1>0, <4>l, <4>a, <4>3
    <3>3. CASE ~At(r, "idle") /\ pub[r].path # pub[q].path
      <4>1. pub[r].path \in Paths BY <3>3, InCall
      <4> QED BY <1>0, <1>2, <2>2, <2>4, <3>3, <4>1 DEF Link
    <3> QED BY <3>1, <3>2, <3>3
  <2>7. AckedDurable' BY <1>0, <1>2, <2>3, <2>4 DEF Link, AckedDurable
  <2> QED BY <2>5, <2>6, <2>7
<1>3. CASE LinkExists(q)
  <2>1. CASE Present(q)
    <3>1. /\ pub'[q].pc = "agreed" /\ pub'[q].path = pub[q].path /\ pub'[q].bytes = pub[q].bytes
          /\ \A r \in Publishers \ {q} : pub'[r] = pub[r]
      BY <1>0, <1>3, <1>p, <2>1, GotoType DEF LinkExists, ByteStoreTypeOK
    <3> QED BY <1>0, <1>3, <2>1, <3>1 DEF LinkExists, AckedDurable
  <2>2. CASE ~Present(q)
    <3>1. pub'[q].pc = "idle" /\ \A r \in Publishers \ {q} : pub'[r] = pub[r]
      BY <1>0, <1>3, <2>2, LeaveType DEF LinkExists, ByteStoreTypeOK, NoCall
    <3> QED BY <1>0, <1>3, <3>1 DEF LinkExists, AckedDurable
  <2> QED BY <2>1, <2>2
<1>4. CASE Validate(q)
  <2>1. /\ pub'[q].pc = "agreed" /\ pub'[q].path = pub[q].path /\ pub'[q].bytes = pub[q].bytes
        /\ \A r \in Publishers \ {q} : pub'[r] = pub[r]
    BY <1>0, <1>4, <1>p, GotoType DEF Validate, ByteStoreTypeOK
  <2> QED BY <1>0, <1>4, <2>1 DEF Validate, AckedDurable
<1>5. CASE Rollback(q)
  <2>1. pub[q].path \in Paths BY <1>5, InCall DEF Rollback
  <2>2. /\ pub'[q].pc = "unlinked" /\ pub'[q].path = pub[q].path /\ pub'[q].bytes = pub[q].bytes
        /\ \A r \in Publishers \ {q} : pub'[r] = pub[r]
    BY <1>0, <1>5, <1>p, GotoType DEF Rollback, ByteStoreTypeOK
  <2>3. /\ withdrawn \subseteq withdrawn'
        /\ pub[q].path \notin withdrawn' =>
              /\ acked[pub[q].path] = {}
              /\ \A r \in Publishers : pub[r].path = pub[q].path => pub[r].pc \notin Relying
    BY <1>5 DEF Rollback
  <2>4. \A p \in Paths : p # pub[q].path => entry'[p] = entry[p]
    BY <1>0, <1>5, <2>1 DEF Rollback, ByteStoreTypeOK
  <2>5. CallInv(q)' BY <1>0, <1>5, <2>2 DEF Rollback
  <2>6. ASSUME NEW r \in Publishers \ {q} PROVE CallInv(r)'
    <3>1. CASE At(r, "idle") BY <2>2, <3>1
    <3>2. CASE ~At(r, "idle") /\ pub[r].path = pub[q].path
      <4>1. ~At(r, "linked")
        <5>1. ASSUME At(r, "linked") PROVE FALSE
          <6>1. [by |-> r, bytes |-> pub[r].bytes] = [by |-> q, bytes |-> pub[q].bytes]
            BY <1>0, <1>5, <3>2, <5>1 DEF Rollback
          <6>2. r = q BY <6>1
          <6> QED BY <6>2
        <5> QED BY <5>1
      <4>2. pub'[r] = pub[r] BY <2>2
      <4> QED BY <1>0, <2>3, <3>2, <4>1, <4>2
    <3>3. CASE ~At(r, "idle") /\ pub[r].path # pub[q].path
      <4>1. pub[r].path \in Paths BY <3>3, InCall
      <4> QED BY <1>0, <1>5, <2>2, <2>3, <2>4, <3>3, <4>1 DEF Rollback
    <3> QED BY <3>1, <3>2, <3>3
  <2>7. AckedDurable' BY <1>0, <1>5, <2>3, <2>4 DEF Rollback, AckedDurable
  <2> QED BY <2>5, <2>6, <2>7
<1>6. CASE Flush(q)
  <2>1. pub[q].path \in Paths BY <1>6, InCall DEF Flush
  <2>2. /\ disk'[pub[q].path] = entry[pub[q].path]
        /\ \A p \in Paths : p # pub[q].path => disk'[p] = disk[p]
    BY <1>0, <1>6, <2>1 DEF Flush, ByteStoreTypeOK
  <2>3. /\ \A r \in Publishers \ {q} : pub'[r] = pub[r]
        /\ \/ pub'[q].pc = "idle"
           \/ /\ pub[q].pc \in {"agreed", "replay"} /\ pub'[q].pc \in {"flushed", "replayed"}
              /\ pub'[q].path = pub[q].path /\ pub'[q].bytes = pub[q].bytes
    BY <1>0, <1>6, <1>p, GotoType, LeaveType DEF Flush, ByteStoreTypeOK, NoCall
  <2>4. CallInv(q)' BY <1>0, <1>6, <2>2, <2>3 DEF Flush
  <2>5. ASSUME NEW r \in Publishers \ {q} PROVE CallInv(r)'
    <3>1. CASE At(r, "idle") BY <2>3, <3>1
    <3>2. CASE ~At(r, "idle")
      <4>1. pub[r].path \in Paths BY <3>2, InCall
      <4> QED BY <1>0, <1>6, <2>2, <2>3, <4>1 DEF Flush
    <3> QED BY <3>1, <3>2
  <2>6. AckedDurable' BY <1>0, <1>6, <2>2 DEF Flush, AckedDurable
  <2> QED BY <2>4, <2>5, <2>6
<1>7. CASE Return(q)
  <2>1. pub[q].path \in Paths /\ pub[q].bytes \in Contents BY <1>7, InCall DEF Return
  <2>2. pub'[q].pc = "idle" /\ \A r \in Publishers \ {q} : pub'[r] = pub[r]
    BY <1>0, <1>7, LeaveType DEF Return, ByteStoreTypeOK, NoCall
  <2>3. /\ acked'[pub[q].path] = acked[pub[q].path] \cup {pub[q].bytes}
        /\ \A p \in Paths : p # pub[q].path => acked'[p] = acked[p]
    BY <1>0, <1>7, <2>1 DEF Return, ByteStoreTypeOK
  <2>4. ASSUME NEW r \in Publishers \ {q} PROVE CallInv(r)'
    <3>1. CASE At(r, "idle") BY <2>2, <3>1
    <3>2. CASE ~At(r, "idle")
      <4>1. pub[r].path \in Paths BY <3>2, InCall
      <4> QED BY <1>0, <1>7, <2>2, <2>3, <4>1 DEF Return
    <3> QED BY <3>1, <3>2
  <2>p. Kept(q) => entry[pub[q].path].bytes = pub[q].bytes /\ disk[pub[q].path].bytes = pub[q].bytes
    BY <1>0, <1>7 DEF Return
  <2>u. entry' = entry /\ disk' = disk /\ withdrawn' = withdrawn BY <1>7 DEF Return
  <2>5. AckedDurable' BY <1>0, <2>3, <2>p, <2>u DEF AckedDurable
  <2> QED BY <2>2, <2>4, <2>5
<1>8. CASE Stop(q)
  <2>1. pub'[q].pc = "idle" /\ \A r \in Publishers \ {q} : pub'[r] = pub[r]
    BY <1>0, <1>8, LeaveType DEF Stop, ByteStoreTypeOK, NoCall
  <2> QED BY <1>0, <1>8, <2>1 DEF Stop, AckedDurable
<1> QED BY <1>1, <1>2, <1>3, <1>4, <1>5, <1>6, <1>7, <1>8 DEF Publisher

(* ByteStoreInv is inductive.                                              *)
LEMMA InvStep ==
    ASSUME ByteStoreInv, [Next]_vars
    PROVE  ByteStoreInv'
PROOF
<1>t. ByteStoreTypeOK' BY TypeStep
<1>0. ByteStoreTypeOK /\ AckedDurable BY DEF ByteStoreInv
<1>1. ASSUME NEW q \in Publishers, Publisher(q) PROVE ByteStoreInv'
  <2>1. AckedDurable' /\ \A r \in Publishers : CallInv(r)' BY <1>t, <1>1, PublisherStep
  <2> QED BY <1>t, <2>1 DEF ByteStoreInv, CallInv
<1>2. CASE PowerLoss
  <2>1. \A p \in Paths : entry'[p] \in {entry[p], disk[p]}
    <3>1. PICK e : entry' = e /\ \A p \in Paths : e[p] \in {entry[p], disk[p]}
      BY <1>2 DEF PowerLoss
    <3> QED BY <3>1
  <2>2. disk' = entry' /\ acked' = acked /\ withdrawn' = withdrawn BY <1>2 DEF PowerLoss
  <2>3. AckedDurable' BY <1>0, <2>1, <2>2 DEF AckedDurable
  <2>4. \A q \in Publishers : pub'[q].pc = "idle" BY <1>2 DEF PowerLoss, NoCall
  <2> QED BY <1>t, <2>3, <2>4
          DEF ByteStoreInv, Calling, LinkedIsOwn, ReliedIsPresent, FlushedIsDurable, At, Relying
<1>3. CASE UNCHANGED vars
  BY <1>t, <1>3 DEF vars, ByteStoreInv, AckedDurable, Calling, LinkedIsOwn, ReliedIsPresent,
                    FlushedIsDurable, At, Own, Present, Kept, Relying
<1> QED BY <1>1, <1>2, <1>3 DEF Next

(* An empty store satisfies the invariant.                                 *)
LEMMA InvInit == Init => ByteStoreInv
PROOF
<1> SUFFICES ASSUME Init PROVE ByteStoreInv OBVIOUS
<1>1. ByteStoreTypeOK
  BY NoCallType, ByteStoreConstants DEF Init, ByteStoreTypeOK
<1>2. AckedDurable BY DEF Init, AckedDurable
<1>3. \A q \in Publishers : pub[q].pc = "idle" BY DEF Init, NoCall
<1> QED BY <1>1, <1>2, <1>3
        DEF ByteStoreInv, Calling, LinkedIsOwn, ReliedIsPresent, FlushedIsDurable, At, Relying

(* The invariant holds in every state publish_bytes reaches.               *)
THEOREM ByteStoreInvariant == Spec => []ByteStoreInv
PROOF BY InvInit, InvStep, PTL DEF Spec

(* An artifact that publish_bytes returned stays on the disk: through any  *)
(* race of publishers, any process that stops between link and flush, and  *)
(* any power loss; unless its publisher withdrew it before it had read it  *)
(* back.                                                                   *)
THEOREM ReturnedIsDurable == Spec => []AckedDurable
PROOF
<1>1. ByteStoreInv => AckedDurable BY DEF ByteStoreInv
<1> QED BY <1>1, ByteStoreInvariant, PTL

-----------------------------------------------------------------------------
(* The paths whose publisher has not read them back, as the steps of one   *)
(* publisher change them.                                                  *)
Unread == {p \in Paths : \E q \in Publishers : At(q, "linked") /\ pub[q].path = p}

(* Only its own publisher has a path still unread.                         *)
LEMMA UnreadOnce ==
    ASSUME ByteStoreInv, NEW q \in Publishers, At(q, "linked"),
           \A r \in Publishers \ {q} : pub'[r] = pub[r], pub'[q].pc # "linked"
    PROVE  Unread' = Unread \ {pub[q].path}
PROOF
<1>1. ASSUME NEW r \in Publishers \ {q}, At(r, "linked") PROVE pub[r].path # pub[q].path
  <2>1. ASSUME pub[r].path = pub[q].path PROVE FALSE
    <3>1. [by |-> r, bytes |-> pub[r].bytes] = [by |-> q, bytes |-> pub[q].bytes]
      BY <1>1, <2>1 DEF ByteStoreInv, LinkedIsOwn, Own
    <3>2. r = q BY <3>1
    <3> QED BY <3>2
  <2> QED BY <2>1
<1> QED BY <1>1 DEF Unread, At

(* A step of a publisher that neither links nor reads back leaves them.    *)
LEMMA UnreadStays ==
    ASSUME NEW q \in Publishers, ~At(q, "linked"), pub'[q].pc # "linked",
           \A r \in Publishers \ {q} : pub'[r] = pub[r]
    PROVE  Unread' = Unread
PROOF BY DEF Unread, At

(* Every step of publish_bytes is a step of the write-once store, or none. *)
LEMMA StepSimulation ==
    ASSUME ByteStoreInv, ByteStoreInv', [Next]_vars
    PROVE  [Abstract!Next]_(Abstract!vars)
PROOF
<1>0. ByteStoreTypeOK /\ ByteStoreTypeOK' /\ AckedDurable BY DEF ByteStoreInv
<1> DEFINE stored == [p \in Paths |-> entry[p].bytes]
<1>u. stored' = [p \in Paths |-> entry'[p].bytes] OBVIOUS
<1>v. /\ Unread = {p \in Paths : \E q \in Publishers : At(q, "linked") /\ pub[q].path = p}
      /\ Unread' = {p \in Paths : \E q \in Publishers : At(q, "linked")' /\ pub'[q].path = p}
  BY DEF Unread, At
<1>1. ASSUME NEW q \in Publishers, Publisher(q) PROVE [Abstract!Next]_(Abstract!vars)
  <2>p. {"agreed", "linked", "unlinked", "flushed", "replayed"} \subseteq Pcs BY DEF Pcs
  <2>1. ASSUME UNCHANGED <<entry, acked, withdrawn, boots>>, Unread' = Unread
        PROVE  UNCHANGED Abstract!vars
    BY <1>v, <2>1 DEF Abstract!vars, Unread, At
  <2>2. CASE Begin(q) \/ LinkExists(q) \/ Flush(q) \/ (Stop(q) /\ ~At(q, "linked"))
    <3>1. UNCHANGED <<entry, acked, withdrawn, boots>>
      BY <2>2 DEF Begin, LinkExists, Flush, Stop
    <3>2. ~At(q, "linked") BY <2>2 DEF Begin, LinkExists, Flush, At
    <3>3. pub'[q].pc # "linked" /\ \A r \in Publishers \ {q} : pub'[r] = pub[r]
      BY <1>0, <2>2, <2>p, GotoType, LeaveType
         DEF Begin, LinkExists, Flush, Stop, ByteStoreTypeOK, NoCall
    <3> QED BY <2>1, <3>1, <3>2, <3>3, UnreadStays
  <2>3. CASE Link(q)
    <3>1. pub[q].path \in Paths /\ pub[q].bytes \in Contents BY <2>3, InCall DEF Link, At
    <3>2. stored[pub[q].path] = Missing BY <2>3, <3>1 DEF Link, NoFile
    <3>3. stored' = [stored EXCEPT ![pub[q].path] = pub[q].bytes]
      BY <1>0, <2>3, <3>1 DEF Link, Own, ByteStoreTypeOK
    <3>4. /\ pub'[q].pc = "linked" /\ pub'[q].path = pub[q].path
          /\ \A r \in Publishers \ {q} : pub'[r] = pub[r]
      BY <1>0, <2>3, <2>p, GotoType DEF Link, ByteStoreTypeOK
    <3>5. Unread' = Unread \cup {pub[q].path} BY <2>3, <3>1, <3>4 DEF Unread, At, Link
    <3>6. Abstract!Publish(pub[q].path, pub[q].bytes)
      BY <1>v, <2>3, <3>2, <3>3, <3>5 DEF Abstract!Publish, Link
    <3> QED BY <3>1, <3>6 DEF Abstract!Next, Abstract!Publish
  <2>4. CASE Rollback(q)
    <3>1. pub[q].path \in Paths BY <2>4, InCall DEF Rollback, At
    <3>2. entry[pub[q].path] = Own(q)
      BY <2>4 DEF Rollback, ByteStoreInv, LinkedIsOwn
    <3>3. stored' = [stored EXCEPT ![pub[q].path] = Missing]
      BY <1>0, <2>4, <3>1, <3>2 DEF Rollback, NoFile, ByteStoreTypeOK
    <3>4. pub'[q].pc # "linked" /\ \A r \in Publishers \ {q} : pub'[r] = pub[r]
      BY <1>0, <2>4, <2>p, GotoType DEF Rollback, ByteStoreTypeOK
    <3>5. pub[q].path \in Unread /\ Unread' = Unread \ {pub[q].path}
      BY <2>4, <3>1, <3>4, UnreadOnce DEF Rollback, Unread
    <3>6. /\ withdrawn' \in {withdrawn, withdrawn \cup {pub[q].path}}
          /\ acked[pub[q].path] # {} => pub[q].path \in withdrawn'
          /\ UNCHANGED <<acked, boots>>
      BY <2>4 DEF Rollback
    <3>7. Abstract!Withdraw(pub[q].path)
      BY <1>v, <3>3, <3>5, <3>6 DEF Abstract!Withdraw
    <3> QED BY <3>1, <3>7 DEF Abstract!Next, Abstract!Withdraw
  <2>5. CASE Return(q)
    <3>1. pub[q].path \in Paths /\ pub[q].bytes \in Contents BY <2>5, InCall DEF Return, At
    <3>2. stored[pub[q].path] = pub[q].bytes \/ pub[q].path \in withdrawn
      BY <2>5, <3>1 DEF Return, ByteStoreInv, ReliedIsPresent, Relying, Kept, Present, At
    <3>3. Unread' = Unread
      <4>1. ~At(q, "linked") BY <2>5 DEF Return, At
      <4>2. pub'[q].pc # "linked" /\ \A r \in Publishers \ {q} : pub'[r] = pub[r]
        BY <1>0, <2>5, LeaveType DEF Return, ByteStoreTypeOK, NoCall
      <4> QED BY <4>1, <4>2, UnreadStays
    <3>4. Abstract!Acknowledge(pub[q].path, pub[q].bytes)
      BY <1>v, <2>5, <3>2, <3>3 DEF Abstract!Acknowledge, Return
    <3> QED BY <3>1, <3>4 DEF Abstract!Next
  <2>6. CASE Validate(q) \/ (Stop(q) /\ At(q, "linked"))
    <3>1. pub[q].path \in Paths /\ At(q, "linked") BY <2>6, InCall DEF Validate, At
    <3>2. pub'[q].pc # "linked" /\ \A r \in Publishers \ {q} : pub'[r] = pub[r]
      BY <1>0, <2>6, <2>p, GotoType, LeaveType DEF Validate, Stop, ByteStoreTypeOK, NoCall
    <3>3. Unread' = Unread \ {pub[q].path} BY <3>1, <3>2, UnreadOnce
    <3>4. UNCHANGED <<entry, acked, withdrawn, boots>> BY <2>6 DEF Validate, Stop
    <3>5. Abstract!Settle(pub[q].path) BY <1>v, <3>3, <3>4 DEF Abstract!Settle
    <3> QED BY <3>1, <3>5 DEF Abstract!Next, Abstract!Settle
  <2> QED BY <1>1, <2>2, <2>3, <2>4, <2>5, <2>6 DEF Publisher
<1>2. CASE PowerLoss
  <2>1. \A p \in Paths : entry'[p] \in {entry[p], disk[p]}
    <3>1. PICK e : entry' = e /\ \A p \in Paths : e[p] \in {entry[p], disk[p]}
      BY <1>2 DEF PowerLoss
    <3> QED BY <3>1
  <2>2. ASSUME NEW p \in Paths \ withdrawn, acked[p] # {} PROVE stored'[p] = stored[p]
    <3>1. entry[p].bytes = disk[p].bytes BY <1>0, <2>2 DEF AckedDurable
    <3> QED BY <2>1, <3>1
  <2>3. stored' \in [Paths -> Contents \cup {Missing}] BY <1>0 DEF ByteStoreTypeOK, Files
  <2>4. Unread' = {} BY <1>2 DEF PowerLoss, Unread, At, NoCall
  <2>5. Abstract!PowerLoss BY <1>2, <1>v, <2>2, <2>3, <2>4 DEF PowerLoss, Abstract!PowerLoss
  <2> QED BY <2>5 DEF Abstract!Next
<1>3. CASE UNCHANGED vars
  BY <1>3 DEF vars, Abstract!vars, At
<1> QED BY <1>1, <1>2, <1>3 DEF Next

(* An empty store is an empty write-once store.                            *)
LEMMA InitSimulation == Init => Abstract!Init
PROOF BY DEF Init, NoFile, NoCall, At, Abstract!Init

(* publish_bytes implements the write-once store.                          *)
THEOREM ImplementsWriteOnce == Spec => Implements
PROOF BY ByteStoreInvariant, StepSimulation, InitSimulation, PTL
      DEF Spec, Implements, Abstract!Spec
=============================================================================
