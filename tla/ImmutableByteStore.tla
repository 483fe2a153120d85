------------------------- MODULE ImmutableByteStore -------------------------
(***************************************************************************)
(* ImmutableByteStore.publish_bytes (aec_bench/ledger) at the level of its *)
(* file operations: look, write and flush a private temporary file, link   *)
(* it to the path, look again, flush the directory, look once more.  Any   *)
(* number of publishers (threads and processes) run it at once; there is   *)
(* no lock.  A publisher may stop anywhere, and the machine may lose power.*)
(*                                                                         *)
(* A directory entry lives in the cache (entry) and reaches the disk when  *)
(* its directory is flushed (disk), or earlier: a power loss keeps either. *)
(* The bytes of a file are flushed before it gets a name, so a name always *)
(* leads to whole bytes.  Confinement (symbolic links, modes, descriptors) *)
(* guards against other programs and is left out, as are the temporary     *)
(* files, which no reader looks at.                                        *)
(***************************************************************************)
EXTENDS Integers

CONSTANTS
    Paths, Contents, Publishers,
    Writes,            \* [Publishers -> SUBSET (Paths \X Contents)]: the calls they make
    MaxBoots,          \* bound on power losses
    Missing, Nobody    \* no bytes; the author of no file

ASSUME ByteStoreConstants ==
    /\ Writes \in [Publishers -> SUBSET (Paths \X Contents)]
    /\ Missing \notin Contents /\ Nobody \notin Publishers \cup Paths
    /\ MaxBoots \in Nat

VARIABLES
    entry, disk,    \* [Paths -> Files]: the name in the cache and on the disk
    pub,            \* [Publishers -> ...]: the call each one is in
    acked,          \* [Paths -> SUBSET Contents]: what was returned, by path
    withdrawn,      \* paths taken away although somebody relied on them
    boots

vars == <<entry, disk, pub, acked, withdrawn, boots>>

(* A file is known by its author (the inode) and its bytes.                *)
Files == [by : Publishers \cup {Nobody}, bytes : Contents \cup {Missing}]
NoFile == [by |-> Nobody, bytes |-> Missing]

Pcs == {"idle", "staged", "linked", "unlinked", "agreed", "flushed", "replay", "replayed"}
Calls == [pc : Pcs, path : Paths \cup {Nobody}, bytes : Contents \cup {Missing}]
NoCall == [pc |-> "idle", path |-> Nobody, bytes |-> Missing]

At(q, pc) == pub[q].pc = pc
Own(q) == [by |-> q, bytes |-> pub[q].bytes]
Goto(q, pc) == pub' = [pub EXCEPT ![q].pc = pc]
Leave(q) == pub' = [pub EXCEPT ![q] = NoCall]
Present(q) == entry[pub[q].path].bytes = pub[q].bytes
Relying == {"agreed", "flushed", "replay", "replayed"}   \* has found its bytes there

Init ==
    /\ entry = [p \in Paths |-> NoFile]
    /\ disk = [p \in Paths |-> NoFile]
    /\ pub = [q \in Publishers |-> NoCall]
    /\ acked = [p \in Paths |-> {}]
    /\ withdrawn = {}
    /\ boots = 0

(* The first look.  Equal bytes are replayed, other bytes are a collision, *)
(* and with none the temporary file is written.                            *)
Begin(q) ==
    /\ At(q, "idle")
    /\ \E w \in Writes[q] :
          /\ entry[w[1]].bytes \in {w[2], Missing}
          /\ pub' = [pub EXCEPT ![q] =
                        [pc |-> IF entry[w[1]].bytes = Missing THEN "staged" ELSE "replay",
                         path |-> w[1], bytes |-> w[2]]]
    /\ UNCHANGED <<entry, disk, acked, withdrawn, boots>>

(* Variant: the name is replaced, as os.replace would.                     *)
LinkReplaces(q) ==
    /\ At(q, "staged")
    /\ entry' = [entry EXCEPT ![pub[q].path] = Own(q)]
    /\ Goto(q, "linked")
    /\ UNCHANGED <<disk, acked, withdrawn, boots>>

(* os.link creates the name or fails.                                      *)
Link(q) ==
    /\ At(q, "staged")
    /\ entry[pub[q].path] = NoFile
    /\ entry' = [entry EXCEPT ![pub[q].path] = Own(q)]
    /\ Goto(q, "linked")
    /\ UNCHANGED <<disk, acked, withdrawn, boots>>

LinkExists(q) ==
    /\ At(q, "staged")
    /\ entry[pub[q].path] # NoFile
    /\ IF Present(q) THEN Goto(q, "agreed") ELSE Leave(q)
    /\ UNCHANGED <<entry, disk, acked, withdrawn, boots>>

(* The file just linked is read back by its identity and bytes ...         *)
Validate(q) ==
    /\ At(q, "linked")
    /\ entry[pub[q].path] = Own(q)
    /\ Goto(q, "agreed")
    /\ UNCHANGED <<entry, disk, acked, withdrawn, boots>>

(* ... and when that fails the name is taken away again, whoever has found *)
(* the file there in the meantime and been told of it.                     *)
Rollback(q) ==
    LET p == pub[q].path
        relied == acked[p] # {} \/ \E r \in Publishers : pub[r].path = p /\ pub[r].pc \in Relying
    IN /\ At(q, "linked")
       /\ entry' = [entry EXCEPT ![p] = IF @ = Own(q) THEN NoFile ELSE @]
       /\ withdrawn' = IF relied THEN withdrawn \cup {p} ELSE withdrawn
       /\ Goto(q, "unlinked")
       /\ UNCHANGED <<disk, acked, boots>>

(* Variant: bytes found on the first look are returned without a flush.    *)
FlushNotOnReplay(q) ==
    /\ \/ /\ At(q, "agreed") /\ Goto(q, "flushed")
          /\ disk' = [disk EXCEPT ![pub[q].path] = entry[pub[q].path]]
       \/ /\ At(q, "unlinked") /\ Leave(q)
          /\ disk' = [disk EXCEPT ![pub[q].path] = entry[pub[q].path]]
       \/ At(q, "replay") /\ Goto(q, "replayed") /\ UNCHANGED disk
    /\ UNCHANGED <<entry, acked, withdrawn, boots>>

(* _flush_parent, in each of the three places it is called.                *)
Flush(q) ==
    /\ \/ At(q, "agreed") /\ Goto(q, "flushed")
       \/ At(q, "replay") /\ Goto(q, "replayed")
       \/ At(q, "unlinked") /\ Leave(q)
    /\ disk' = [disk EXCEPT ![pub[q].path] = entry[pub[q].path]]
    /\ UNCHANGED <<entry, acked, withdrawn, boots>>

(* The last look, which a replay does without; then the artifact is        *)
(* returned.                                                               *)
Return(q) ==
    /\ \/ At(q, "flushed") /\ Present(q)
       \/ At(q, "replayed")
    /\ acked' = [acked EXCEPT ![pub[q].path] = @ \cup {pub[q].bytes}]
    /\ Leave(q)
    /\ UNCHANGED <<entry, disk, withdrawn, boots>>

(* An error raised elsewhere, or the process killed.                       *)
Stop(q) ==
    /\ ~At(q, "idle")
    /\ Leave(q)
    /\ UNCHANGED <<entry, disk, acked, withdrawn, boots>>

PowerLoss ==
    /\ boots < MaxBoots
    /\ boots' = boots + 1
    /\ entry' \in {e \in [Paths -> {entry[p] : p \in Paths} \cup {disk[p] : p \in Paths}] :
                      \A p \in Paths : e[p] \in {entry[p], disk[p]}}
    /\ disk' = entry'
    /\ pub' = [q \in Publishers |-> NoCall]
    /\ UNCHANGED <<acked, withdrawn>>

Publisher(q) ==
    \/ Begin(q) \/ Link(q) \/ LinkExists(q) \/ Validate(q) \/ Rollback(q)
    \/ Flush(q) \/ Return(q) \/ Stop(q)

Next == PowerLoss \/ \E q \in Publishers : Publisher(q)

Spec == Init /\ [][Next]_vars

-----------------------------------------------------------------------------
(* Every name leads to a file, every publisher is at a step of its call.   *)
ByteStoreTypeOK ==
    /\ entry \in [Paths -> Files] /\ disk \in [Paths -> Files]
    /\ pub \in [Publishers -> Calls]
    /\ acked \in [Paths -> SUBSET Contents]
    /\ withdrawn \subseteq Paths
    /\ boots \in 0 .. MaxBoots

(* An artifact that was returned to somebody is on the disk, whoever wrote *)
(* it and whoever was told of it: publishers race, stop between link and   *)
(* flush, and replay what another one has left behind.  The one exception  *)
(* is a path that its own publisher, failing to read it back, took away    *)
(* from those who had found the file there.                                *)
AckedDurable ==
    \A p \in Paths \ withdrawn : \A c \in acked[p] : entry[p].bytes = c /\ disk[p].bytes = c

(* What the argument for it needs of a call under way: whoever linked a    *)
(* file still finds it; and unless the path was withdrawn, whoever relies  *)
(* on a file finds its bytes there, after a flush on the disk too.         *)
Kept(q) == pub[q].path \notin withdrawn
Calling(q) == ~At(q, "idle") => <<pub[q].path, pub[q].bytes>> \in Writes[q]
LinkedIsOwn(q) == At(q, "linked") => entry[pub[q].path] = Own(q)
ReliedIsPresent(q) == pub[q].pc \in Relying /\ Kept(q) => Present(q)
FlushedIsDurable(q) ==
    pub[q].pc \in {"flushed", "replayed"} /\ Kept(q) => disk[pub[q].path].bytes = pub[q].bytes

ByteStoreInv ==
    /\ ByteStoreTypeOK /\ AckedDurable
    /\ \A q \in Publishers :
          Calling(q) /\ LinkedIsOwn(q) /\ ReliedIsPresent(q) /\ FlushedIsDurable(q)

(* publish_bytes implements a write-once store, in which a path may be     *)
(* withdrawn as long as its publisher has not read it back.                *)
Abstract == INSTANCE WriteOnceStore WITH
    stored <- [p \in Paths |-> entry[p].bytes],
    pending <- {p \in Paths : \E q \in Publishers : At(q, "linked") /\ pub[q].path = p}
Implements == Abstract!Spec
=============================================================================
