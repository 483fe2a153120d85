-------------------------- MODULE MCLocalScheduler --------------------------
(***************************************************************************)
(* Instances of LocalScheduler: one run of one plan, one or two work items *)
(* and one or two processes.                                               *)
(***************************************************************************)
EXTENDS LocalScheduler, TLC

CONSTANTS r1, p1, w1, w2, gpu, proc1, proc2

MCRunOfPlan == p1 :> r1
MCPlanOf == [w \in Work |-> p1]
MCScopesOf == [w \in Work |-> {gpu}]
MCScopeLimit == [s \in Scopes |-> GlobalLimit]
MCPriority == [w \in Work |-> 0]
MCCreatedAt == [w \in Work |-> 0]
MCSeniority == [w \in Work |-> IF w = w1 THEN 1 ELSE 2]
MCRunServed == [p \in Procs |-> r1]

(* Who does what, one line per instance.                                   *)
DispatchOnly == proc1 :> {"start"}
TwoDispatchers == proc1 :> {"start"} @@ proc2 :> {"resume"}
DispatchAndCancel == proc1 :> {"start", "resume"} @@ proc2 :> {"cancel"}
DispatchAndCancelEither == proc1 :> {"start", "resume"} @@ proc2 :> {"cancel", "cancel_trial"}
DispatchAndCancelActive == proc1 :> {"start"} @@ proc2 :> {"cancel_active"}
=============================================================================
