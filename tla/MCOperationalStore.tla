------------------------- MODULE MCOperationalStore -------------------------
(***************************************************************************)
(* The store under arbitrary clients: one run of one plan with one work    *)
(* item, leased and attempted more than once.  The constants that are      *)
(* functions get their values here; the sets are in the .cfg.              *)
(***************************************************************************)
EXTENDS OperationalStore, TLC

CONSTANTS r1, p1, w1, gpu, job, other

MCRunOfPlan == p1 :> r1
MCPlanOf == w1 :> p1
MCScopesOf == w1 :> {gpu}
MCScopeLimit == gpu :> GlobalLimit
MCPriority == w1 :> 0
MCCreatedAt == w1 :> 0
MCSeniority == w1 :> 1

(* External jobs are only compared with one another.                       *)
JobsAlike == Permutations({job, other})
=============================================================================
