--------------------------- MODULE WriteOnceStore ---------------------------
(***************************************************************************)
(* What an immutable store of named bytes promises: a path keeps the first *)
(* bytes published at it, and a publication that was acknowledged outlives *)
(* every failure, power loss included.  A publication that nobody was told *)
(* about may be lost.  Its publisher may withdraw it until it has read it  *)
(* back; when others were told of it before, the promise is off for that   *)
(* path, which is then one of withdrawn.                                   *)
(***************************************************************************)
EXTENDS Integers

CONSTANTS Paths, Contents,
          Missing          \* what an empty path holds

VARIABLES
    stored,     \* what a reader of a path finds
    pending,    \* paths whose publisher has not read them back
    acked,      \* the contents whose publication was acknowledged, by path
    withdrawn,  \* paths that were withdrawn from somebody
    boots       \* how often the machine lost power

vars == <<stored, pending, acked, withdrawn, boots>>

Init ==
    /\ stored = [p \in Paths |-> Missing]
    /\ pending = {}
    /\ acked = [p \in Paths |-> {}]
    /\ withdrawn = {}
    /\ boots = 0

Publish(p, c) ==
    /\ stored[p] = Missing
    /\ stored' = [stored EXCEPT ![p] = c]
    /\ pending' = pending \cup {p}
    /\ UNCHANGED <<acked, withdrawn, boots>>

(* The publisher has read its bytes back, or is gone.                      *)
Settle(p) ==
    /\ pending' = pending \ {p}
    /\ UNCHANGED <<stored, acked, withdrawn, boots>>

Withdraw(p) ==
    /\ p \in pending
    /\ stored' = [stored EXCEPT ![p] = Missing]
    /\ pending' = pending \ {p}
    /\ withdrawn' \in {withdrawn, withdrawn \cup {p}}
    /\ acked[p] # {} => p \in withdrawn'
    /\ UNCHANGED <<acked, boots>>

Acknowledge(p, c) ==
    /\ stored[p] = c \/ p \in withdrawn
    /\ acked' = [acked EXCEPT ![p] = @ \cup {c}]
    /\ UNCHANGED <<stored, pending, withdrawn, boots>>

(* A power loss leaves anything at a path without an acknowledgement.      *)
PowerLoss ==
    /\ stored' \in [Paths -> Contents \cup {Missing}]
    /\ \A p \in Paths \ withdrawn : acked[p] # {} => stored'[p] = stored[p]
    /\ pending' = {}
    /\ boots' = boots + 1
    /\ UNCHANGED <<acked, withdrawn>>

Next ==
    \/ \E p \in Paths, c \in Contents : Publish(p, c) \/ Acknowledge(p, c)
    \/ \E p \in Paths : Withdraw(p) \/ Settle(p)
    \/ PowerLoss

Spec == Init /\ [][Next]_vars
=============================================================================
