---------------------------- MODULE MCReferences ----------------------------
(***************************************************************************)
(* Instances of AgentReferences for TLC: two ARNs, so that a Role can get  *)
(* another one.                                                            *)
(***************************************************************************)
EXTENDS AgentReferences

CONSTANTS r1, r2

MCArns == {r1, r2}

(* Every disturbance once, but Roles change twice: a Role comes and then   *)
(* changes, or each place gets one.                                        *)
MCLimit == [k \in Kinds |-> IF k = "role" THEN 2 ELSE 1]

(* A CR as it is created, and no disturbance.                              *)
MCQuiet == [k \in Kinds |-> 0]
=============================================================================
