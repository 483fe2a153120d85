------------------------ MODULE MCImmutableByteStore ------------------------
(***************************************************************************)
(* Three publishers of equal and of different bytes at one path; the third *)
(* also has a path of its own.                                             *)
(***************************************************************************)
EXTENDS ImmutableByteStore, TLC

CONSTANTS shared, own, x, y, q1, q2, q3

MCWrites == q1 :> {<<shared, x>>} @@ q2 :> {<<shared, x>>, <<shared, y>>}
            @@ q3 :> {<<shared, x>>, <<own, x>>, <<own, y>>}
=============================================================================
